-------------------------- MODULE OutputFileProofs --------------------------
(***************************************************************************)
(* The layout, for every section list, alignment and word size, and the    *)
(* loop that writes what the layout has placed, over any implementation of *)
(* the File interface.                                                     *)
(*                                                                         *)
(* The layout keeps its sections apart and their reservations free, and    *)
(* refuses only what is in conflict.  The loop keeps the layout's          *)
(* behaviour, so this holds of the addresses it walks, and the end of what *)
(* is written never passes the next section.                               *)
(***************************************************************************)
EXTENDS OutputFile, TLAPS

\* Everything placed, reservations included, ends at or before the point where
\* the next section that is no continuation may start.
Frontier ==
    ~wrapped => \A i \in 1 .. placed :
        /\ End(i) <= running
        /\ \/ Address[i] + sections[i].Reserve <= running
           \/ Address[i] + sections[i].Reserve <= reserved

ContinuationsPlain ==
    \A i \in Index : sections[i].continuation => sections[i].Reserve = 0

Inv == TypeOK /\ ContinuationsPlain /\ Frontier /\ SectionsDisjoint /\ ReserveKept

\* A sum that fits a word is not cut.
LEMMA SmallRemainder ==
    ASSUME NEW x \in Nat, NEW m \in Nat, x < m
    PROVE  x % m = x
  OBVIOUS

\* What is aligned is a multiple of the alignment, ...
LEMMA Multiple ==
    ASSUME NEW d \in Nat \ {0}, NEW k \in Nat
    PROVE  (d * k) % d = 0
  <1> DEFINE q == (d * k) \div d
             r == (d * k) % d
  <1>1. d * k \in Nat /\ q \in Int /\ r \in 0 .. (d - 1) /\ d * k = d * q + r
    OBVIOUS
  <1>2. d * (k - q) = r
    BY <1>1
  <1>3. PICK e \in Int : e = k - q
    BY <1>1
  <1>4. d * e = r
    BY <1>2, <1>3
  <1> HIDE DEF q, r
  <1>5. CASE e >= 1
    <2>1. d * e >= d
      BY <1>5
    <2> QED BY <1>1, <1>4, <2>1
  <1>6. CASE e <= -1
    <2>1. d * e <= -d
      BY <1>6
    <2> QED BY <1>1, <1>4, <2>1
  <1>7. CASE e = 0
    BY <1>4, <1>7 DEF r
  <1> QED BY <1>5, <1>6, <1>7

\* ... and the other way round.
LEMMA Quotient ==
    ASSUME NEW d \in Nat \ {0}, NEW x \in Nat, x % d = 0
    PROVE  \E k \in Nat : x = d * k
  <1>1. x = d * (x \div d) + (x % d) /\ x \div d \in Nat
    OBVIOUS
  <1> QED BY <1>1

\* Sums, differences and remainders of aligned numbers are aligned.
LEMMA SumAligned ==
    ASSUME NEW d \in Nat \ {0}, NEW x \in Nat, NEW y \in Nat, x % d = 0, y % d = 0
    PROVE  (x + y) % d = 0
  <1>1. PICK j \in Nat : x = d * j
    BY Quotient
  <1>2. PICK k \in Nat : y = d * k
    BY Quotient
  <1>3. x + y = d * (j + k) /\ j + k \in Nat
    BY <1>1, <1>2
  <1> QED BY <1>3, Multiple

\* So is what lies between two of them.
LEMMA DifferenceAligned ==
    ASSUME NEW d \in Nat \ {0}, NEW x \in Nat, NEW y \in Nat, x % d = 0, y % d = 0, y <= x
    PROVE  (x - y) % d = 0
  <1>1. PICK j \in Nat : x = d * j
    BY Quotient
  <1>2. PICK k \in Nat : y = d * k
    BY Quotient
  <1>3. x - y = d * (j - k)
    BY <1>1, <1>2
  <1>4. j - k \in Nat
    <2>1. SUFFICES ASSUME j < k PROVE FALSE
      OBVIOUS
    <2>2. d * j < d * k
      BY <2>1
    <2> QED BY <1>1, <1>2, <2>2
  <1> QED BY <1>3, <1>4, Multiple

\* And an aligned sum that overflows.
LEMMA RemainderAligned ==
    ASSUME NEW d \in Nat \ {0}, NEW x \in Nat, NEW m \in Nat \ {0}, x % d = 0, m % d = 0
    PROVE  (x % m) % d = 0
  <1>1. x = m * (x \div m) + (x % m) /\ x \div m \in Nat /\ x % m \in Nat
    OBVIOUS
  <1>2. PICK k \in Nat : m = d * k
    BY Quotient
  <1>3. PICK q \in Nat : q = x \div m
    BY <1>1
  <1>4. PICK p \in Nat : p = k * q
    OBVIOUS
  <1>5. PICK w \in Nat : w = m * q
    OBVIOUS
  <1>6. w = d * p
    BY <1>2, <1>4, <1>5
  <1>7. w % d = 0
    BY <1>6, Multiple
  <1>8. PICK r \in Nat : r = x % m
    BY <1>1
  <1>9. r = x - w /\ w <= x
    BY <1>1, <1>3, <1>5, <1>8
  <1>10. (x - w) % d = 0
    BY <1>7, <1>9, DifferenceAligned
  <1> QED BY <1>8, <1>9, <1>10

\* What is aligned to an even number is even.
LEMMA EvenAligned ==
    ASSUME NEW d \in Nat \ {0}, NEW x \in Nat, x % d = 0, d % 2 = 0
    PROVE  x % 2 = 0
  <1>1. PICK k \in Nat : x = d * k
    BY Quotient
  <1>2. PICK h \in Nat : d = 2 * h
    OBVIOUS
  <1>3. x = 2 * (h * k) /\ h * k \in Nat
    BY <1>1, <1>2
  <1> QED BY <1>3

\* Aligning stays within 64 bits.
LEMMA AlignUpType ==
    ASSUME NEW x \in Nat, NEW A \in Words \ {0}
    PROVE  AlignUp(x, A) \in Addresses
  <1>1. (x + A - 1) % AddressModulus \in Addresses
    BY SizeAssumption DEF Words, Addresses
  <1>2. AlignUp(x, A) \in 0 .. (WordModulus - A)
    BY <1>1, BitAndAssumption DEF AlignUp
  <1> QED BY <1>2, SizeAssumption DEF Words, Addresses

\* An address whose mask cuts nothing is never moved down.
LEMMA AlignUpBound ==
    ASSUME NEW x \in Nat, NEW A \in Words \ {0}, ~Cuts(x, A)
    PROVE  x <= AlignUp(x, A)
  <1>1. x + A - 1 \in Words
    BY SizeAssumption DEF Words, Cuts
  <1>2. (x + A - 1) % AddressModulus = x + A - 1
    BY <1>1, SizeAssumption DEF Words
  <1>3. PICK y \in Words : y = x + A - 1
    BY <1>1
  <1>4. BitAnd(y, WordModulus - A) \in (y - (A - 1)) .. y
    BY <1>3, BitAndAssumption
  <1>5. AlignUp(x, A) = BitAnd(y, WordModulus - A)
    BY <1>2, <1>3 DEF AlignUp
  <1> QED BY <1>3, <1>4, <1>5 DEF Words

\* Skipping a reservation stays an address.
LEMMA StartType ==
    ASSUME TypeOK, NEW i \in Index
    PROVE  /\ Start(i) \in Addresses
           /\ running <= Start(i)
           /\ ~sections[i].continuation => reserved <= Start(i)
  BY SizeAssumption DEF TypeOK, Start, Addresses

\* The fields of a section have their types.
LEMMA SectionFields ==
    ASSUME TypeOK, NEW i \in Index
    PROVE  /\ sections[i].Length \in Addresses
           /\ sections[i].Reserve \in Addresses
           /\ sections[i].Alignment \in Words
           /\ sections[i].continuation \in BOOLEAN
  BY AttributeAssumption DEF TypeOK, Section

\* The header sizes stay integers.
LEMMA SizesOfType ==
    ASSUME TypeOK, NEW i \in Index, NEW before \in Int, NEW after \in Int
    PROVE  SizesOf(i, before, after) \in [SizeFields -> Int]
  <1>1. sizes \in [SizeFields -> Int] /\ sections[i].Length \in Int
    BY SectionFields DEF TypeOK, Addresses
  <1>2. CASE sections[i].kind = "BootHeader"
    BY <1>1, <1>2 DEF SizesOf, SizeFields
  <1>3. CASE sections[i].kind = "bootloader"
    <2>1. before - sizes.bootheader \in Int /\ after - before \in Int
      BY <1>1 DEF SizeFields
    <2> QED BY <1>1, <1>3, <2>1 DEF SizesOf, SizeFields
  <1>4. CASE sections[i].kind = "bootloaderAC"
    <2>1. sizes.bootloader + sections[i].Length \in Int
      BY <1>1 DEF SizeFields
    <2> QED BY <1>1, <1>4, <2>1 DEF SizesOf, SizeFields
  <1>5. CASE sections[i].kind \notin {"BootHeader", "bootloader", "bootloaderAC"}
    BY <1>1, <1>5 DEF SizesOf
  <1> QED BY <1>2, <1>3, <1>4, <1>5

\* What a section is placed at is an address.
LEMMA AddressOfType ==
    ASSUME TypeOK, NEW i \in Index
    PROVE  AddressOf(i) \in Addresses
  <1>1. Address[i] \in Addresses /\ Start(i) \in Nat /\ Start(i) \in Addresses
    BY StartType DEF TypeOK, Addresses
  <1>2. CASE sections[i].Alignment # 0
    <2>1. sections[i].Alignment \in Words \ {0}
      BY <1>2, SectionFields
    <2>2. AlignUp(Start(i), sections[i].Alignment) \in Addresses
      BY <1>1, <2>1, AlignUpType
    <2> QED BY <1>1, <2>2 DEF AddressOf
  <1>3. CASE sections[i].Alignment = 0
    BY <1>1, <1>3 DEF AddressOf
  <1> QED BY <1>2, <1>3

\* Type correctness of Binary::StackAndAlign: addresses stay within 64 bits,
\* whatever lengths, offsets and reservations are added up.
THEOREM TypeCorrect == Spec => []TypeOK
  <1>1. Init => TypeOK
    <2> SUFFICES ASSUME Init PROVE TypeOK
      OBVIOUS
    <2>1. sections \in [Index -> Section]
      BY DEF Init
    <2>2. Address \in [Index -> Addresses]
      BY <2>1, AttributeAssumption DEF Init, Section
    <2>3. 0 \in Addresses
      BY SizeAssumption DEF Addresses
    <2>4. sizes \in [SizeFields -> Int]
      BY DEF Init, NoSizes, SizeFields
    <2>5. placed \in 0 .. NumSections /\ {running, reserved, TotalSize} \subseteq Addresses
      BY <2>3, SizeAssumption DEF Init
    <2>6. status \in {"stacking", "done", "error"} /\ wrapped \in BOOLEAN
      BY DEF Init
    <2> QED BY <2>1, <2>2, <2>4, <2>5, <2>6 DEF TypeOK
  <1>2. TypeOK /\ [Next]_vars => TypeOK'
    <2> SUFFICES ASSUME TypeOK, [Next]_vars PROVE TypeOK'
      OBVIOUS
    <2>1. CASE StackSection
      <3> DEFINE i == placed + 1
                 addr == AddressOf(i)
                 end == (addr + sections[i].Length) % AddressModulus
      <3>1. i \in Index /\ i \in 0 .. NumSections
        BY <2>1, SizeAssumption DEF StackSection, TypeOK, Index
      <3>2. addr \in Addresses
        BY <3>1, AddressOfType
      <3>3. end \in Nat
        BY <3>1, <3>2, SectionFields, SizeAssumption DEF Addresses
      <3>4. AlignUp(end, DefaultAlignment) \in Addresses
        BY <3>3, SizeAssumption, AlignUpType
      <3>5. (addr + sections[i].Reserve) % AddressModulus \in Addresses
        BY <3>1, <3>2, SectionFields, SizeAssumption DEF Addresses
      <3>6. Start(i) \in Int /\ sections[i].Length \in Int
        BY <3>1, StartType, SectionFields DEF Addresses
      <3>7. SizesOf(i, Start(i), AlignUp(end, DefaultAlignment))
              \in [SizeFields -> Int]
        BY <3>1, <3>4, <3>6, SizesOfType DEF Addresses
      <3>8. Place(i, addr) /\ placed' = i /\ UNCHANGED <<sections, TotalSize, status>>
        BY <2>1 DEF StackSection
      <3>9. Address' \in [Index -> Addresses]
        BY <3>2, <3>8 DEF Place, TypeOK
      <3>10. running' \in Addresses /\ reserved' \in Addresses
        BY <3>4, <3>5, <3>8 DEF Place, TypeOK
      <3>11. sizes' \in [SizeFields -> Int]
        BY <3>7, <3>8 DEF Place
      <3>12. wrapped' \in BOOLEAN
        BY <3>8 DEF Place, TypeOK
      <3> QED BY <3>1, <3>8, <3>9, <3>10, <3>11, <3>12 DEF TypeOK
    <2>2. CASE OverlapError
      BY <2>2 DEF OverlapError, TypeOK
    <2>3. CASE Finish
      BY <2>3 DEF Finish, TypeOK
    <2>4. CASE UNCHANGED vars
      BY <2>4 DEF vars, TypeOK
    <2> QED BY <2>1, <2>2, <2>3, <2>4 DEF Next
  <1> QED BY <1>1, <1>2, PTL DEF Spec

-----------------------------------------------------------------------------
\* Where a section is placed when no mask cuts an address: at or behind the end
\* of what was there, which moves behind the section.
LEMMA StackFacts ==
    ASSUME TypeOK, StackSection, ~wrapped'
    PROVE  LET i    == placed + 1
               addr == AddressOf(i)
           IN  /\ ~wrapped
               /\ ~Cuts(addr + sections[i].Length, DefaultAlignment)
               /\ addr + sections[i].Reserve < AddressModulus
               /\ Start(i) <= addr
               /\ running' \in Nat /\ addr + sections[i].Length <= running'
               /\ Address' = [Address EXCEPT ![i] = addr]
  <1> DEFINE i == placed + 1
             addr == AddressOf(i)
  <1>1. i \in Index
    BY SizeAssumption DEF StackSection, TypeOK, Index
  <1>3. Place(i, addr) /\ ~Overlaps(i)
    BY DEF StackSection
  <1>4. /\ addr \in Nat /\ Start(i) \in Nat /\ Address[i] \in Nat
        /\ sections[i].Length \in Nat /\ sections[i].Reserve \in Nat
    BY <1>1, AddressOfType, StartType, SectionFields DEF Addresses, TypeOK
  <1>5. /\ ~wrapped
        /\ Address[i] = 0 /\ sections[i].Alignment # 0 =>
                ~Cuts(Start(i), sections[i].Alignment)
        /\ ~Cuts(addr + sections[i].Length, DefaultAlignment)
        /\ addr + sections[i].Reserve < AddressModulus
    BY <1>3, <1>4, SizeAssumption DEF Place
  <1>6. Start(i) <= addr
    <2>1. CASE Address[i] # 0
      BY <1>3, <1>4, <2>1 DEF Overlaps, AddressOf
    <2>2. CASE Address[i] = 0 /\ sections[i].Alignment # 0
      <3>1. sections[i].Alignment \in Words \ {0}
        BY <1>1, <2>2, SectionFields
      <3> QED BY <1>4, <1>5, <2>2, <3>1, AlignUpBound DEF AddressOf
    <2>3. CASE Address[i] = 0 /\ sections[i].Alignment = 0
      BY <1>4, <2>3 DEF AddressOf
    <2> QED BY <2>1, <2>2, <2>3
  <1>7. /\ running' \in Nat /\ addr + sections[i].Length <= running'
        /\ Address' = [Address EXCEPT ![i] = addr]
    <2> DEFINE sum == addr + sections[i].Length
    <2>1. sum \in Nat /\ ~Cuts(sum, DefaultAlignment)
      BY <1>4, <1>5
    <2>2. sum <= AlignUp(sum, DefaultAlignment)
      BY <2>1, SizeAssumption, AlignUpBound
    <2>3. sum % AddressModulus = sum
      <3>1. sum + DefaultAlignment <= WordModulus /\ DefaultAlignment \in Nat \ {0}
        BY <2>1, SizeAssumption DEF Cuts, Words
      <3> HIDE DEF sum
      <3> QED BY <2>1, <3>1, SizeAssumption
    <2>4. running' = AlignUp(sum % AddressModulus, DefaultAlignment)
      BY <1>3 DEF Place
    <2>5. Address' = [Address EXCEPT ![i] = addr]
      BY <1>3 DEF Place
    <2>6. AlignUp(sum, DefaultAlignment) \in Nat
      BY <2>1, SizeAssumption, AlignUpType DEF Addresses
    <2> QED BY <2>2, <2>3, <2>4, <2>5, <2>6
  <1> QED BY <1>5, <1>6, <1>7

\* Placing the next section keeps everything already placed behind it.
LEMMA PlacePreserves ==
    ASSUME Inv, TypeOK', StackSection
    PROVE  Frontier' /\ SectionsDisjoint' /\ ReserveKept'
  <1> DEFINE i == placed + 1
             addr == AddressOf(i)
  <1>1. i \in Index /\ placed \in Nat /\ placed' = i /\ placed < NumSections
    BY SizeAssumption DEF StackSection, Inv, TypeOK, Index
  <1>2. TypeOK /\ sections' = sections
    BY DEF Inv, StackSection
  <1>3. Place(i, addr) /\ ~Overlaps(i)
    BY DEF StackSection
  <1>4. /\ addr \in Nat /\ Start(i) \in Nat /\ running \in Nat /\ reserved \in Nat
        /\ sections[i].Length \in Nat /\ sections[i].Reserve \in Nat
        /\ Address[i] \in Nat
    BY <1>1, <1>2, AddressOfType, StartType, SectionFields DEF Addresses, TypeOK
  <1> SUFFICES ASSUME ~wrapped'
               PROVE  Frontier' /\ SectionsDisjoint' /\ ReserveKept'
    BY DEF Frontier, SectionsDisjoint, ReserveKept
  <1>5. /\ ~wrapped
        /\ ~Cuts(addr + sections[i].Length, DefaultAlignment)
        /\ addr + sections[i].Reserve < AddressModulus
    BY <1>2, StackFacts
  <1>6. Start(i) <= addr
    BY <1>2, StackFacts
  <1>7. /\ running' \in Nat /\ addr + sections[i].Length <= running'
        /\ Address' = [Address EXCEPT ![i] = addr]
    BY <1>2, StackFacts
  <1>8. /\ sections[i].Reserve = 0 => reserved' = reserved
        /\ sections[i].Reserve # 0 => reserved' = addr + sections[i].Reserve
    <2>1. sections[i].Reserve # 0 =>
              reserved' = (addr + sections[i].Reserve) % AddressModulus
      BY <1>3 DEF Place
    <2>2. (addr + sections[i].Reserve) % AddressModulus = addr + sections[i].Reserve
      BY <1>4, <1>5, SizeAssumption
    <2>3. sections[i].Reserve = 0 => reserved' = reserved
      BY <1>3 DEF Place
    <2> QED BY <2>1, <2>2, <2>3
  <1>9. /\ running <= Start(i)
        /\ ~sections[i].continuation => reserved <= Start(i)
        /\ sections[i].continuation => sections[i].Reserve = 0
    BY <1>1, <1>2, StartType DEF Inv, ContinuationsPlain
  <1>10. \A k \in 1 .. placed :
            /\ k \in Index /\ k # i /\ k < i
            /\ Address'[k] = Address[k] /\ Address[k] \in Nat
            /\ sections[k].Length \in Nat /\ sections[k].Reserve \in Nat
    <2> TAKE k \in 1 .. placed
    <2>1. k \in Index /\ k < i /\ k # i
      BY <1>1, SizeAssumption DEF Index
    <2>2. Address'[k] = Address[k] /\ Address[k] \in Nat
      BY <1>2, <1>7, <2>1 DEF TypeOK, Addresses
    <2>3. sections[k].Length \in Nat /\ sections[k].Reserve \in Nat
      BY <1>2, <2>1, SectionFields DEF Addresses
    <2> QED BY <2>1, <2>2, <2>3
  <1>11. Address'[i] = addr
    BY <1>1, <1>2, <1>7 DEF TypeOK
  <1>12. \A k \in 1 .. placed :
            /\ Address[k] + sections[k].Length <= running
            /\ \/ Address[k] + sections[k].Reserve <= running
               \/ Address[k] + sections[k].Reserve <= reserved
    BY <1>5 DEF Inv, Frontier, End
  <1>13. \A k \in 1 .. placed' : k \in 1 .. placed \/ k = i
    BY <1>1
  <1> HIDE DEF i, addr
  <1>14. \A k \in 1 .. placed' :
            /\ Address'[k] + sections[k].Length <= running'
            /\ \/ Address'[k] + sections[k].Reserve <= running'
               \/ Address'[k] + sections[k].Reserve <= reserved'
    <2> TAKE k \in 1 .. placed'
    <2>1. CASE k = i
      BY <1>4, <1>7, <1>8, <1>11, <2>1
    <2>2. CASE k \in 1 .. placed
      <3>1. Address[k] + sections[k].Length <= running'
        BY <1>4, <1>6, <1>7, <1>9, <1>10, <1>12, <2>2
      <3>2. \/ Address[k] + sections[k].Reserve <= running'
            \/ Address[k] + sections[k].Reserve <= reserved'
        BY <1>4, <1>6, <1>7, <1>8, <1>9, <1>10, <1>12, <2>2
      <3> QED BY <1>10, <2>2, <3>1, <3>2
    <2> QED BY <1>13, <2>1, <2>2
  <1>15. \A k \in 1 .. placed :
            /\ Address'[k] + sections[k].Length <= addr
            /\ ~sections[i].continuation => Address'[k] + sections[k].Reserve <= addr
    BY <1>4, <1>6, <1>9, <1>10, <1>12
  <1>16. Frontier'
    BY <1>2, <1>14 DEF Frontier, End
  <1>17. SectionsDisjoint'
    <2> SUFFICES ASSUME NEW k \in 1 .. placed', NEW j \in 1 .. placed', k < j
                 PROVE  Address'[k] + sections[k].Length <= Address'[j]
      BY <1>2 DEF SectionsDisjoint, End
    <2>1. CASE j = i
      BY <1>11, <1>13, <1>15, <2>1
    <2>2. CASE j \in 1 .. placed
      <3>1. k \in 1 .. placed
        BY <1>1, <2>2
      <3> QED BY <1>5, <1>10, <2>2, <3>1 DEF Inv, SectionsDisjoint, End
    <2> QED BY <1>13, <2>1, <2>2
  <1>18. ReserveKept'
    <2> SUFFICES ASSUME NEW k \in 1 .. placed', NEW j \in 1 .. placed', k < j,
                        ~sections[j].continuation
                 PROVE  Address'[k] + sections[k].Reserve <= Address'[j]
      BY <1>2 DEF ReserveKept
    <2>1. CASE j = i
      BY <1>11, <1>13, <1>15, <2>1
    <2>2. CASE j \in 1 .. placed
      <3>1. k \in 1 .. placed
        BY <1>1, <2>2
      <3> QED BY <1>5, <1>10, <2>2, <3>1 DEF Inv, ReserveKept
    <2> QED BY <1>13, <2>1, <2>2
  <1> QED BY <1>16, <1>17, <1>18

\* The layout invariant, for every section list.
LEMMA LayoutInvariant == Spec => []Inv
  <1>1. Init => ContinuationsPlain /\ Frontier /\ SectionsDisjoint /\ ReserveKept
    <2> SUFFICES ASSUME Init PROVE ContinuationsPlain /\ placed = 0
      BY DEF Frontier, SectionsDisjoint, ReserveKept
    <2>1. placed = 0
      BY DEF Init
    <2>2. PICK first \in {s \in Section : IsBootHeader(s)},
               rest \in [Index \ {1} -> {s \in Section : Buildable(s) /\ s.kind # "BootHeader"}] :
            sections = [i \in Index |-> IF i = 1 THEN first ELSE rest[i]]
      BY DEF Init
    <2>3. ASSUME NEW i \in Index, sections[i].continuation PROVE sections[i].Reserve = 0
      BY <2>2, <2>3 DEF IsBootHeader, Buildable
    <2> QED BY <2>1, <2>3 DEF ContinuationsPlain
  <1>2. Inv /\ TypeOK' /\ [Next]_vars => Inv'
    <2> SUFFICES ASSUME Inv, TypeOK', [Next]_vars PROVE Inv'
      OBVIOUS
    <2>1. CASE StackSection
      <3>1. ContinuationsPlain'
        BY <2>1 DEF Inv, ContinuationsPlain, StackSection
      <3> QED BY <2>1, <3>1, PlacePreserves DEF Inv
    <2>2. CASE UNCHANGED <<sections, Address, placed, running, reserved, wrapped>>
      BY <2>2 DEF Inv, ContinuationsPlain, Frontier, SectionsDisjoint, ReserveKept, End
    <2> QED BY <2>1, <2>2 DEF Next, vars, OverlapError, Finish
  <1> QED BY <1>1, <1>2, TypeCorrect, PTL DEF Spec, Inv

\* Binary::StackAndAlign never places two sections on one byte and never
\* places a section (but a continuation) in a reservation, for every section
\* list, as long as no alignment mask has cut an address to 32 bits.
THEOREM LayoutSafe == Spec => [](SectionsDisjoint /\ ReserveKept)
  <1>1. Inv => SectionsDisjoint /\ ReserveKept
    BY DEF Inv
  <1> QED BY <1>1, LayoutInvariant, PTL

\* The space that a partition reserves is entered by no later section but the
\* continuations of its image, by itself.
THEOREM ReservesKept == Spec => []ReserveKept
  BY LayoutSafe, PTL

-----------------------------------------------------------------------------
\* Where the running address and the reserved address come from, and what the
\* loop has met when it stops.
Origins ==
    /\ ~wrapped =>
          /\ \/ placed = 0 /\ running = BaseAddress
             \/ placed > 0 /\ running = AlignUp(End(placed), DefaultAlignment)
          /\ \/ reserved = 0
             \/ \E i \in 1 .. placed : reserved = Address[i] + sections[i].Reserve
    /\ status = "error" => placed < NumSections /\ Overlaps(placed + 1)
    /\ status = "done" => placed = NumSections /\ TotalSize = running

\* Placing a section leaves both addresses where they are accounted for.
LEMMA PlaceOrigins ==
    ASSUME Inv, Origins, StackSection
    PROVE  Origins'
  <1> DEFINE i == placed + 1
             addr == AddressOf(i)
  <1>1. i \in Index /\ placed \in Nat /\ placed' = i /\ placed < NumSections
    BY SizeAssumption DEF StackSection, Inv, TypeOK, Index
  <1>2. TypeOK /\ sections' = sections /\ status' = "stacking" /\ Place(i, addr)
    BY DEF Inv, StackSection
  <1>3. addr \in Nat /\ sections[i].Length \in Nat /\ sections[i].Reserve \in Nat
    BY <1>1, <1>2, AddressOfType, SectionFields DEF Addresses
  <1>4. /\ Address' = [Address EXCEPT ![i] = addr]
        /\ running' = AlignUp((addr + sections[i].Length) % AddressModulus, DefaultAlignment)
        /\ reserved' = IF sections[i].Reserve = 0 THEN reserved
                       ELSE (addr + sections[i].Reserve) % AddressModulus
        /\ ~wrapped' => /\ ~wrapped
                        /\ ~Cuts(addr + sections[i].Length, DefaultAlignment)
                        /\ ~(addr + sections[i].Reserve >= AddressModulus)
    BY <1>2 DEF Place
  <1>5. Address'[i] = addr
    BY <1>1, <1>2, <1>4 DEF TypeOK
  <1>6. \A k \in 1 .. placed : Address'[k] = Address[k]
    BY <1>1, <1>2, <1>4 DEF TypeOK, Index
  <1>7. placed < i
    BY <1>1
  <1> HIDE DEF i, addr
  <1>8. ASSUME ~wrapped'
        PROVE  running' = AlignUp(addr + sections[i].Length, DefaultAlignment)
    <2>1. addr + sections[i].Length + DefaultAlignment <= WordModulus
          /\ DefaultAlignment \in Nat \ {0}
      BY <1>3, <1>4, <1>8, SizeAssumption DEF Cuts, Words
    <2>2. addr + sections[i].Length \in Nat /\ addr + sections[i].Length < AddressModulus
      BY <1>3, <2>1, SizeAssumption
    <2>3. (addr + sections[i].Length) % AddressModulus = addr + sections[i].Length
      BY <2>2, SmallRemainder, SizeAssumption
    <2> QED BY <1>4, <2>3
  <1>9. ASSUME ~wrapped'
        PROVE  \/ reserved' = 0
               \/ \E k \in 1 .. i : reserved' = Address'[k] + sections[k].Reserve
    <2>1. CASE sections[i].Reserve = 0
      <3>1. reserved' = reserved /\ ~wrapped
        BY <1>4, <1>9, <2>1
      <3>2. CASE \E k \in 1 .. placed : reserved = Address[k] + sections[k].Reserve
        <4>1. PICK k \in 1 .. placed : reserved = Address[k] + sections[k].Reserve
          BY <3>2
        <4>2. k \in 1 .. i
          BY <1>1, <1>7 DEF Index
        <4> QED BY <1>6, <3>1, <4>1, <4>2
      <3> QED BY <3>1, <3>2 DEF Origins
    <2>2. CASE sections[i].Reserve # 0
      <3>1. addr + sections[i].Reserve \in Nat /\ addr + sections[i].Reserve < AddressModulus
        BY <1>3, <1>4, <1>9, SizeAssumption
      <3>2. reserved' = addr + sections[i].Reserve
        BY <1>4, <2>2, <3>1, SmallRemainder, SizeAssumption
      <3> QED BY <1>1, <1>5, <3>2 DEF Index
    <2> QED BY <2>1, <2>2
  <1>10. ~wrapped' => (placed > 0 /\ running = AlignUp(End(placed), DefaultAlignment))'
    BY <1>1, <1>2, <1>5, <1>8 DEF Index, End, AlignUp
  <1>11. ~wrapped' => \/ reserved' = 0
                     \/ (\E k \in 1 .. placed : reserved = Address[k] + sections[k].Reserve)'
    BY <1>1, <1>2, <1>9
  <1> QED BY <1>2, <1>10, <1>11 DEF Origins

\* What the layout is made of, and why it ends the way it does, at every point.
LEMMA OriginsInvariant == Spec => [](Inv /\ Origins)
  <1>1. Init => Origins
    BY DEF Init, Origins
  <1>2. Inv /\ Origins /\ [Next]_vars => Origins'
    <2> SUFFICES ASSUME Inv, Origins, [Next]_vars PROVE Origins'
      OBVIOUS
    <2>1. CASE StackSection
      BY <2>1, PlaceOrigins
    <2>2. CASE OverlapError
      BY <2>2 DEF OverlapError, Origins, End, Overlaps, Start
    <2>3. CASE Finish
      BY <2>3 DEF Finish, Origins, End
    <2>4. CASE UNCHANGED vars
      BY <2>4 DEF vars, Origins, End, Overlaps, Start
    <2> QED BY <2>1, <2>2, <2>3, <2>4 DEF Next
  <1> QED BY <1>1, <1>2, LayoutInvariant, PTL DEF Spec

\* The overlap error names a real conflict: Binary::StackAndAlign refuses an
\* [offset] only if it lies before the image, in what is placed with its padding,
\* or in what is reserved, for every section list.
THEOREM ErrorsJustified == Spec => []ErrorIsJustified
  <1>1. Inv /\ Origins => ErrorIsJustified
    <2> SUFFICES ASSUME Inv, Origins, status = "error", ~wrapped
                 PROVE  LET o == Address[placed + 1]
                        IN  \/ o < BaseAddress
                            \/ \E i \in 1 .. placed :
                                    \/ o < AlignUp(End(i), DefaultAlignment)
                                    \/ o < Address[i] + sections[i].Reserve
      BY DEF ErrorIsJustified
    <2> DEFINE o == Address[placed + 1]
    <2>1. placed + 1 \in Index /\ placed \in Nat
      BY SizeAssumption DEF Origins, Inv, TypeOK, Index
    <2>2. o \in Nat /\ running \in Nat /\ reserved \in Nat
      BY <2>1 DEF Inv, TypeOK, Addresses
    <2>3. o # 0 /\ (o < running \/ o < reserved)
      BY <2>2 DEF Origins, Overlaps, Start
    <2>4. CASE o < running
      BY <2>1, <2>4 DEF Origins
    <2>5. CASE o < reserved
      BY <2>2, <2>5 DEF Origins
    <2> QED BY <2>3, <2>4, <2>5
  <1> QED BY <1>1, OriginsInvariant, PTL

\* TotalSize, from which the files of the flash devices are sized, covers every
\* section of every layout.
THEOREM TotalCovers == Spec => []TotalCoversSections
  <1>1. Inv /\ Origins => TotalCoversSections
    BY DEF Inv, Origins, Frontier, TotalCoversSections, Index
  <1> QED BY <1>1, OriginsInvariant, PTL

-----------------------------------------------------------------------------
\* Attributes are multiples of the default alignment, and everything is placed at
\* one.
AttributesAligned ==
    \A i \in Index :
        /\ sections[i].Alignment % DefaultAlignment = 0
        /\ sections[i].Reserve % DefaultAlignment = 0

Aligned ==
    /\ AttributesAligned
    /\ running % DefaultAlignment = 0
    /\ reserved % DefaultAlignment = 0
    /\ \A i \in Index : Address[i] % DefaultAlignment = 0

\* Rounding up to a multiple of the default alignment gives one.
LEMMA AlignUpAligned ==
    ASSUME NEW x \in Nat, NEW A \in Words \ {0}, A % DefaultAlignment = 0
    PROVE  AlignUp(x, A) % DefaultAlignment = 0
  <1>1. (x + A - 1) % AddressModulus \in Addresses
    BY SizeAssumption DEF Words, Addresses
  <1> QED BY <1>1, BitAndAssumption DEF AlignUp

\* What is aligned is not moved by aligning it again.
LEMMA AlignUpExact ==
    ASSUME NEW x \in Nat, x % DefaultAlignment = 0, ~Cuts(x, DefaultAlignment)
    PROVE  AlignUp(x, DefaultAlignment) = x
  <1> DEFINE D == DefaultAlignment
             y == AlignUp(x, D)
  <1>1. D \in Nat \ {0} /\ D \in Words \ {0} /\ D % D = 0 /\ x % D = 0
    BY SizeAssumption DEF Words
  <1>2. x <= y /\ y % D = 0
    BY <1>1, AlignUpBound, AlignUpAligned
  <1>3. x + D - 1 \in Words /\ (x + D - 1) % AddressModulus = x + D - 1
    BY <1>1, SizeAssumption DEF Cuts, Words
  <1>4. y \in ((x + D - 1) - (D - 1)) .. (x + D - 1)
    BY <1>1, <1>3, BitAndAssumption DEF AlignUp
  <1>5. y \in Nat /\ y - x < D /\ y - x \in Nat
    BY <1>1, <1>2, <1>4
  <1> HIDE DEF y, D
  <1>6. (y - x) % D = 0
    BY <1>1, <1>2, <1>5, DifferenceAligned
  <1>7. y - x = 0
    BY <1>1, <1>5, <1>6, SmallRemainder
  <1> QED BY <1>5, <1>7 DEF y, D

\* A cut moves the address back.
LEMMA AlignUpCut ==
    ASSUME NEW x \in Nat, NEW A \in Words \ {0}, Cuts(x, A)
    PROVE  AlignUp(x, A) < x
  <1>1. (x + A - 1) % AddressModulus \in Addresses
    BY SizeAssumption DEF Words, Addresses
  <1>2. AlignUp(x, A) \in 0 .. (WordModulus - A)
    BY <1>1, BitAndAssumption DEF AlignUp
  <1> QED BY <1>2, SizeAssumption DEF Words, Cuts

\* At the start only the attributes and the base address count.
LEMMA AlignedInit == Init => Aligned
  <1> SUFFICES ASSUME Init PROVE Aligned
    OBVIOUS
  <1>1. PICK first \in {s \in Section : IsBootHeader(s)},
             rest \in [Index \ {1} -> {s \in Section : Buildable(s) /\ s.kind # "BootHeader"}] :
          sections = [i \in Index |-> IF i = 1 THEN first ELSE rest[i]]
    BY DEF Init
  <1>2. ASSUME NEW i \in Index
        PROVE  /\ sections[i].Alignment % DefaultAlignment = 0
               /\ sections[i].Reserve % DefaultAlignment = 0
               /\ sections[i].Offset % DefaultAlignment = 0
    <2>1. 0 % DefaultAlignment = 0
      BY SizeAssumption DEF Words
    <2>2. CASE i = 1
      BY <1>1, <2>1, <2>2 DEF IsBootHeader
    <2>3. CASE i # 1
      BY <1>1, <2>3 DEF Buildable, AttributesValid
    <2> QED BY <2>2, <2>3
  <1>3. 0 % DefaultAlignment = 0
    BY SizeAssumption DEF Words
  <1> QED BY <1>2, <1>3, AlignmentAssumption DEF Init, Aligned, AttributesAligned

\* Placing a section keeps everything aligned, overflow or not.
LEMMA PlaceAligned ==
    ASSUME TypeOK, Aligned, StackSection
    PROVE  Aligned'
  <1> DEFINE i == placed + 1
             addr == AddressOf(i)
             D == DefaultAlignment
  <1>1. i \in Index
    BY SizeAssumption DEF StackSection, TypeOK, Index
  <1>2. sections' = sections /\ Place(i, addr)
    BY DEF StackSection
  <1>3. /\ D \in Nat \ {0} /\ D \in Words \ {0} /\ D % D = 0
        /\ AddressModulus \in Nat \ {0} /\ AddressModulus % D = 0
    BY SizeAssumption, AlignmentAssumption DEF Words, Addresses
  <1>4. /\ addr \in Nat /\ sections[i].Length \in Nat /\ sections[i].Reserve \in Nat
        /\ Start(i) \in Nat /\ sections[i].Alignment \in Words
    BY <1>1, AddressOfType, SectionFields, StartType DEF Addresses
  <1>5. Start(i) % D = 0
    BY DEF Start, Aligned
  <1>6. addr % D = 0
    <2>1. CASE Address[i] # 0
      BY <1>1, <2>1 DEF AddressOf, Aligned
    <2>2. CASE Address[i] = 0 /\ sections[i].Alignment # 0
      BY <1>1, <1>4, <2>2, AlignUpAligned DEF AddressOf, Aligned, AttributesAligned
    <2>3. CASE Address[i] = 0 /\ sections[i].Alignment = 0
      BY <1>5, <2>3 DEF AddressOf
    <2> QED BY <2>1, <2>2, <2>3
  <1>7. /\ Address' = [Address EXCEPT ![i] = addr]
        /\ running' = AlignUp((addr + sections[i].Length) % AddressModulus, D)
        /\ reserved' = IF sections[i].Reserve = 0 THEN reserved
                       ELSE (addr + sections[i].Reserve) % AddressModulus
    BY <1>2 DEF Place
  <1> HIDE DEF addr, D, i
  <1>8. running' % D = 0
    <2>1. (addr + sections[i].Length) % AddressModulus \in Nat
      BY <1>3, <1>4
    <2> QED BY <1>3, <1>7, <2>1, AlignUpAligned DEF D
  <1>9. reserved' % D = 0
    <2>1. CASE sections[i].Reserve = 0
      BY <1>7, <2>1 DEF Aligned, D
    <2>2. CASE sections[i].Reserve # 0
      <3>1. sections[i].Reserve % D = 0
        BY <1>1 DEF Aligned, AttributesAligned, D
      <3>2. PICK sum \in Nat : sum = addr + sections[i].Reserve
        BY <1>4
      <3>3. sum % D = 0
        BY <1>3, <1>4, <1>6, <3>1, <3>2, SumAligned
      <3>4. (sum % AddressModulus) % D = 0
        BY <1>3, <3>3, RemainderAligned
      <3> QED BY <1>7, <2>2, <3>2, <3>4
    <2> QED BY <2>1, <2>2
  <1>10. \A k \in Index : Address'[k] % D = 0
    BY <1>1, <1>6, <1>7 DEF Aligned, TypeOK, D
  <1> QED BY <1>2, <1>8, <1>9, <1>10 DEF Aligned, AttributesAligned, D

\* Every section of every layout starts at a multiple of the default alignment.
LEMMA AlignedInvariant == Spec => []Aligned
  <1>1. TypeOK /\ Aligned /\ [Next]_vars => Aligned'
    <2> SUFFICES ASSUME TypeOK, Aligned, [Next]_vars PROVE Aligned'
      OBVIOUS
    <2>1. CASE StackSection
      BY <2>1, PlaceAligned
    <2>2. CASE UNCHANGED <<sections, Address, running, reserved>>
      BY <2>2 DEF Aligned, AttributesAligned
    <2> QED BY <2>1, <2>2 DEF Next, vars, OverlapError, Finish
  <1> QED BY <1>1, AlignedInit, TypeCorrect, PTL DEF Spec

-----------------------------------------------------------------------------
(* The writing loop.                                                       *)

\* What the loop has written ends before every section it still has to write.
WrittenBehind ==
    ~wrapped => \A i \in Index : cursor < i => written <= Address[i]

OutputInv ==
    /\ cursor \in 0 .. NumSections
    /\ written \in Nat
    /\ status = "done" => placed = NumSections
    /\ phase = "layout" => cursor = 0 /\ written = 0
    /\ phase # "layout" => status = "done"
    /\ phase # "layout" => WrittenBehind
    /\ ~wrapped => phase # "failed"

\* The output loop places the sections as the layout does: its steps are steps
\* of StackAndAlign or leave the layout alone.
THEOREM OutputKeepsLayout == OutputSpec => Spec
  <1>1. OutputInit => Init
    BY DEF OutputInit
  <1>2. [OutputNext \/ CallReturns]_<<vars, outputVars>> => [Next]_vars
    BY DEF OutputNext, CallReturns, Layout, Open, BackwardsError, FillGap,
           EndSplitFile, OpenSplitFile, WriteSection, Postscript, CloseNext
  <1> QED BY <1>1, <1>2, PTL DEF OutputSpec, Spec

\* Nothing is written before the layout is over.
LEMMA OutputInvInit == OutputInit => OutputInv
  <1> SUFFICES ASSUME OutputInit PROVE OutputInv
    OBVIOUS
  <1>1. cursor = 0 /\ written = 0 /\ phase = "layout" /\ status = "stacking"
    BY DEF OutputInit, Init
  <1> QED BY <1>1, SizeAssumption DEF OutputInv

\* Addresses and lengths are numbers.
LEMMA SectionNumbers ==
  ASSUME TypeOK, NEW i \in Index
  PROVE  /\ Address[i] \in Nat /\ sections[i].Length \in Nat
         /\ End(i) \in Nat /\ Address[i] <= End(i)
  <1>1. Address[i] \in Addresses /\ sections[i].Length \in Addresses
    BY AttributeAssumption DEF TypeOK, Section
  <1> QED BY <1>1, SizeAssumption DEF Addresses, End

\* With every section placed, a section ends before any later one starts.
LEMMA Ascending ==
  ASSUME SectionsDisjoint, ~wrapped, placed = NumSections,
         NEW i \in Index, NEW j \in Index, i < j
  PROVE  End(i) <= Address[j]
  BY SizeAssumption DEF SectionsDisjoint, Index

\* Each step of the loop keeps what is written behind what is left to write.
LEMMA OutputInvNext ==
  ASSUME TypeOK, SectionsDisjoint, OutputInv,
         [OutputNext \/ CallReturns]_<<vars, outputVars>>
  PROVE  OutputInv'
  <1> USE SizeAssumption
  <1>1. CASE Layout
    <2>1. /\ phase = "layout" /\ phase' = "layout"
          /\ cursor' = cursor /\ written' = written /\ Next
      BY <1>1 DEF Layout, outputVars
    <2>2. status' = "done" => placed' = NumSections
      BY <2>1 DEF Next, StackSection, OverlapError, Finish, OutputInv
    <2> QED BY <2>1, <2>2 DEF OutputInv
  <1>2. CASE Open
    <2>1. /\ cursor' = 0 /\ written' = 0 /\ phase' = "output" /\ status' = "done"
          /\ placed' = placed
      BY <1>2 DEF Open, OutputInv, vars
    <2>2. WrittenBehind'
      <3> SUFFICES ASSUME NEW i \in Index PROVE 0 <= Address[i]
        BY <1>2, <2>1 DEF WrittenBehind, Open, vars
      <3> QED BY SectionNumbers
    <2> QED BY <1>2, <2>1, <2>2 DEF OutputInv, Open, vars
  <1>3. CASE InLoop /\ UNCHANGED vars /\ (BackwardsError \/ FillGap \/ WriteSection)
    <2>1. /\ Current \in Index /\ status = "done" /\ placed = NumSections
          /\ phase = "output" /\ cursor \in Nat /\ written \in Nat
      BY <1>3 DEF InLoop, Current, Index, OutputInv
    <2>2. UNCHANGED <<sections, Address, status, placed, wrapped>>
      BY <1>3 DEF vars
    <2>3. WrittenBehind
      BY <2>1 DEF OutputInv
    <2>4. ~wrapped => written <= Address[Current]
      BY <2>1, <2>3 DEF WrittenBehind, Current
    <2>5. Address[Current] \in Nat /\ End(Current) \in Nat /\ Address[Current] <= End(Current)
      BY <2>1, SectionNumbers
    <2>6. ASSUME ~wrapped, NEW i \in Index, Current < i
          PROVE  End(Current) <= Address[i] /\ Address[Current] <= Address[i]
      BY <2>1, <2>5, <2>6, Ascending, SectionNumbers
    <2>7. CASE BackwardsError
      <3>1. wrapped
        BY <2>4, <2>5, <2>1, <2>7 DEF BackwardsError
      <3> QED BY <2>1, <2>2, <2>7, <3>1 DEF BackwardsError, OutputInv, WrittenBehind
    <2>8. CASE FillGap
      <3>1. written' = Address[Current] /\ cursor' = cursor /\ phase' = phase
        BY <2>8 DEF FillGap
      <3>2. ASSUME ~wrapped, NEW i \in Index, cursor < i PROVE Address[Current] <= Address[i]
        <4>1. i = Current \/ Current < i
          BY <2>1, <3>2 DEF Current, Index
        <4> QED BY <2>5, <2>6, <3>2, <4>1
      <3>3. WrittenBehind'
        BY <2>2, <3>1, <3>2 DEF WrittenBehind
      <3> QED BY <2>1, <2>2, <2>5, <3>1, <3>3 DEF OutputInv
    <2>9. CASE WriteSection
      <3>1. written' = End(Current) /\ cursor' = Current /\ phase' = phase
        BY <2>9 DEF WriteSection
      <3>2. WrittenBehind'
        BY <2>2, <3>1, <2>6 DEF WrittenBehind
      <3>3. Current \in 0 .. NumSections
        BY <2>1 DEF Index
      <3> QED BY <2>1, <2>2, <2>5, <3>1, <3>2, <3>3 DEF OutputInv
    <2> QED BY <1>3, <2>7, <2>8, <2>9
  <1>4. CASE /\ UNCHANGED <<vars, cursor, written>>
             /\ phase = "layout" <=> phase' = "layout"
             /\ phase' # phase => phase' # "failed"
    BY <1>4 DEF OutputInv, WrittenBehind, vars
  <1>5. OutputNext \/ CallReturns \/ UNCHANGED <<vars, outputVars>>
    OBVIOUS
  <1>6. ASSUME \/ EndSplitFile \/ OpenSplitFile \/ Postscript \/ CloseNext
               \/ CallReturns \/ UNCHANGED <<vars, outputVars>>
        PROVE  /\ UNCHANGED <<vars, cursor, written>>
               /\ phase = "layout" <=> phase' = "layout"
               /\ phase' # phase => phase' # "failed"
    <2>1. CASE Postscript \/ CallReturns \/ UNCHANGED <<vars, outputVars>>
      BY <2>1 DEF Postscript, CallReturns, outputVars
    <2>3. CASE EndSplitFile \/ OpenSplitFile
      BY <2>3 DEF EndSplitFile, OpenSplitFile, InLoop
    <2>2. CASE CloseNext
      <3>1. /\ phase \in {"closing", "closingBoot", "closingHeaders"}
            /\ UNCHANGED <<vars, cursor, written>>
        BY <2>2 DEF CloseNext, ClosePhases
      <3>2. phase' \in {"closed", "closingBoot", "closingHeaders"}
        BY <2>2, <3>1 DEF CloseNext, ClosePhases
      <3> QED BY <3>1, <3>2
    <2> QED BY <1>6, <2>1, <2>2, <2>3
  <1>7. BackwardsError \/ FillGap \/ WriteSection => InLoop /\ UNCHANGED vars
    BY DEF BackwardsError, FillGap, WriteSection
  <1> QED BY <1>1, <1>2, <1>3, <1>4, <1>5, <1>6, <1>7 DEF OutputNext

\* An image the layout has accepted is written to its end: the loop of
\* OutputFile::Output never stops on "Sequential addresses are going backwards!",
\* whatever the sections, unless an alignment mask has cut an address.
THEOREM Forward == OutputSpec => []NeverBackwards
  <1>1. OutputSpec => [](TypeOK /\ SectionsDisjoint)
    BY OutputKeepsLayout, TypeCorrect, LayoutSafe, PTL
  <1>2. OutputInv => NeverBackwards
    BY DEF OutputInv, NeverBackwards
  <1> QED BY <1>1, <1>2, OutputInvInit, OutputInvNext, PTL DEF OutputSpec

-----------------------------------------------------------------------------
(* The calls of the File interface that the loop makes.                    *)

OptionsOK ==
    /\ mode \in OutputModes /\ mode \in {"normal", "split", "slaveboot"}
    /\ qspi \in QspiModes /\ qspi \in {"none", "parallel", "stacked"}
    /\ mode # "normal" => qspi = "none"
    /\ doFill \in BOOLEAN
    /\ toSplit \subseteq Index
    /\ mode # "split" => toSplit = {}

\* A call covers the bytes up to written; a Write is the section before the cursor.
CallOK ==
    \/ call \in {NoCall, EndCall}
    \/ /\ call.op \in {"Fill", "Write"}
       /\ call.start \in Nat /\ call.length \in Nat
       /\ call.start + call.length = written
       /\ phase = "output"
       /\ call.op = "Write" =>
             /\ cursor \in Index
             /\ call.start = Address[cursor] /\ call.length = sections[cursor].Length

\* The sections behind the cursor have been met in ascending order.
Ordered ==
    \A i \in 1 .. cursor :
        /\ End(i) <= written
        /\ \A j \in 1 .. cursor : i < j => End(i) <= Address[j]

LeadFile(p) == IF p = 0 THEN Boot ELSE OwnFile(p)

\* p is the last partition of the split up to section i: 0 for none.
IsLead(p, i) ==
    /\ p \in toSplit \cup {0} /\ p <= i
    /\ \A q \in toSplit : q <= i => q <= p

\* The file that the next call goes to: that of the partition before the cursor,
\* or the fresh one of the partition behind it.
FileOK ==
    /\ mode = "normal" => file = Boot
    /\ mode = "split" =>
          \E p \in 0 .. NumSections :
              /\ file = LeadFile(p)
              /\ \/ IsLead(p, cursor)
                 \/ /\ p = Current /\ IsLead(p, Current) /\ phase = "output"
                    /\ call = NoCall /\ written = Address[p]
    /\ mode = "slaveboot" => file \in {Boot, HeadersFile, PartitionFile}

SwitchOK ==
    phase = "switching" =>
        /\ mode = "split" /\ cursor < NumSections
        /\ MustSplit /\ Address[Current] = written
        /\ call \in {NoCall, EndCall}

PhaseOK ==
    /\ phase \in {"layout", "output", "switching", "closing", "closingBoot",
                  "closingHeaders", "closed", "failed"}
    /\ phase = "layout" => call = NoCall /\ file = Boot /\ splitOffset = 0
    /\ phase \in {"closing", "closingBoot", "closingHeaders"} =>
          call \in {NoCall, EndCall} /\ cursor = NumSections
    /\ phase \in {"closingBoot", "closingHeaders"} => mode = "slaveboot"
    /\ phase \in {"closed", "failed"} => call = NoCall
    /\ phase = "closed" => cursor = NumSections

CallInv == OptionsOK /\ CallOK /\ Ordered /\ FileOK /\ SwitchOK /\ PhaseOK

\* Before Output is called nothing is in progress.
LEMMA CallInvInit == OutputInit => CallInv
  <1> SUFFICES ASSUME OutputInit PROVE CallInv
    OBVIOUS
  <1>1. OptionsOK
    <2>1. toSplit \subseteq Index
      BY DEF OutputInit
    <2> QED BY <2>1, OutputAssumption DEF OutputInit, OptionsOK
  <1>2. call = NoCall /\ cursor = 0 /\ phase = "layout" /\ file = Boot /\ splitOffset = 0
    BY DEF OutputInit
  <1>3. FileOK
    <2>1. IsLead(0, cursor)
      BY <1>1, <1>2 DEF IsLead, OptionsOK, Index
    <2>2. 0 \in 0 .. NumSections
      BY SizeAssumption
    <2> QED BY <1>2, <2>1, <2>2 DEF FileOK, LeadFile
  <1> QED BY <1>1, <1>2, <1>3 DEF CallInv, CallOK, Ordered, SwitchOK, PhaseOK

\* The call in progress, when there is one, is not the empty one.
LEMMA CallNames ==
    /\ NoCall # EndCall /\ NoCall.op = "none" /\ EndCall.op = "End"
    /\ NoCall.start = 0 /\ EndCall.start = 0
    /\ NoCall.length = 0 /\ EndCall.length = 0
  BY DEF NoCall, EndCall

\* A section is written behind all that went before it.
LEMMA OrderedWrite ==
    ASSUME TypeOK, OutputInv, CallInv, WriteSection
    PROVE  Ordered' /\ Current \in Index /\ cursor' = Current
  <1>1. /\ Current \in Index /\ cursor \in Nat /\ cursor' = Current
        /\ written = Address[Current] /\ written' = End(Current)
        /\ UNCHANGED <<sections, Address>>
    BY SizeAssumption DEF WriteSection, InLoop, Current, OutputInv, Index, vars
  <1>2. \A i \in 1 .. cursor : i \in Index
    BY SizeAssumption DEF OutputInv, Index
  <1>3. \A i \in Index : Address[i] \in Nat /\ End(i) \in Nat /\ Address[i] <= End(i)
    BY SectionNumbers
  <1>4. \A i \in 1 .. Current : i \in 1 .. cursor \/ i = Current
    BY <1>1 DEF Current
  <1>5. \A i \in 1 .. cursor : End(i) <= Address[Current]
    BY <1>1 DEF CallInv, Ordered
  <1>6. ASSUME NEW i \in 1 .. Current PROVE End(i) <= End(Current)
    BY <1>1, <1>2, <1>3, <1>4, <1>5
  <1>7. ASSUME NEW i \in 1 .. Current, NEW j \in 1 .. Current, i < j
        PROVE  End(i) <= Address[j]
    <2>1. i \in 1 .. cursor
      BY <1>1, <1>7 DEF Current
    <2>2. CASE j = Current
      BY <1>5, <2>1, <2>2
    <2>3. CASE j \in 1 .. cursor
      BY <1>7, <2>1, <2>3 DEF CallInv, Ordered
    <2> QED BY <1>4, <2>2, <2>3
  <1>8. \A i : End(i)' = End(i)
    BY <1>1 DEF End
  <1> QED BY <1>1, <1>6, <1>7, <1>8 DEF Ordered

\* The partition of the file in use stays the last one behind the cursor.
LEMMA FileWrite ==
    ASSUME TypeOK, OutputInv, CallInv, WriteSection
    PROVE  FileOK'
  <1>1. /\ Current \in Index /\ cursor \in Nat /\ cursor' = Current
        /\ UNCHANGED <<options, vars>>
    BY SizeAssumption DEF WriteSection, InLoop, Current, OutputInv, Index, vars
  <1>2. CASE mode = "normal"
    BY <1>1, <1>2 DEF WriteSection, CallInv, FileOK, options
  <1>3. CASE mode = "slaveboot"
    BY <1>1, <1>3 DEF WriteSection, CallInv, FileOK, options, SlaveFile
  <1>4. CASE mode = "split"
    <2>1. file' = file
      BY <1>4 DEF WriteSection
    <2>2. PICK p \in 0 .. NumSections :
              /\ file = LeadFile(p)
              /\ IsLead(p, cursor) \/ (p = Current /\ IsLead(p, Current))
      BY <1>4 DEF CallInv, FileOK
    <2>3. IsLead(p, Current)
      <3>1. CASE IsLead(p, cursor)
        <4>1. p = Current \/ Current \notin toSplit
          <5>1. SUFFICES ASSUME Current \in toSplit PROVE p = Current
            OBVIOUS
          <5>2. LeadFile(p) = OwnFile(Current)
            BY <2>2, <5>1 DEF WriteSection, MustSplit
          <5> QED BY <1>1, <5>2, SizeAssumption
                  DEF LeadFile, OwnFile, SecondFlash, Boot, Current
        <4>2. \A q \in toSplit : q \in Nat
          BY DEF CallInv, OptionsOK, Index
        <4> QED BY <1>1, <3>1, <4>1, <4>2, SizeAssumption DEF IsLead, Current
      <3> QED BY <2>2, <3>1
    <2>4. IsLead(p, cursor)'
      BY <1>1, <2>3 DEF IsLead, options
    <2> QED BY <1>1, <1>4, <2>1, <2>2, <2>4 DEF FileOK, options
  <1> QED BY <1>2, <1>3, <1>4 DEF CallInv, OptionsOK

\* The loop calls the File interface for the bytes between the section before and
\* the section behind the cursor, and for nothing else.
LEMMA CallInvNext ==
    ASSUME TypeOK, TypeOK', OutputInv, CallInv, [OutputNext \/ CallReturns]_<<vars, outputVars>>
    PROVE  CallInv'
  <1> USE SizeAssumption, CallNames
  <1>1. CASE Layout
    <2>1. UNCHANGED outputVars /\ phase = "layout" /\ cursor = 0 /\ call = NoCall
      BY <1>1 DEF Layout, outputVars, OutputInv, CallInv, PhaseOK
    <2> QED BY <2>1 DEF outputVars, options, CallInv, OptionsOK, CallOK, Ordered, FileOK,
                        IsLead, SwitchOK, PhaseOK
  <1>2. CASE Open
    <2>1. /\ phase = "layout" /\ phase' = "output" /\ cursor = 0 /\ call = NoCall
          /\ UNCHANGED <<vars, options, cursor, written, file, splitOffset, call>>
      BY <1>2 DEF Open, OutputInv, CallInv, PhaseOK
    <2>2. FileOK'
      <3>1. mode = "split" => \E p \in 0 .. NumSections : file = LeadFile(p) /\ IsLead(p, cursor)
        BY <2>1 DEF CallInv, FileOK
      <3> QED BY <2>1, <3>1 DEF CallInv, FileOK, IsLead, options
    <2> QED BY <2>1, <2>2 DEF vars, options, CallInv, OptionsOK, CallOK, Ordered, SwitchOK, PhaseOK
  <1>3. CASE BackwardsError
    <2>1. Current \in Index /\ Address[Current] \in Nat /\ written \in Nat
      BY <1>3, SectionNumbers DEF BackwardsError, InLoop, Current, OutputInv, Index
    <2>2. /\ phase' = "failed" /\ call = NoCall /\ Address[Current] < written
          /\ UNCHANGED <<vars, options, cursor, written, file, splitOffset, call>>
      BY <1>3 DEF BackwardsError, InLoop
    <2>3. FileOK'
      BY <2>1, <2>2 DEF CallInv, FileOK, IsLead, options
    <2> QED BY <2>2, <2>3 DEF vars, options, CallInv, OptionsOK, CallOK, Ordered, End,
                             SwitchOK, PhaseOK
  <1>4. CASE FillGap
    <2>1. Current \in Index /\ Address[Current] \in Nat /\ written \in Nat
      BY <1>4, SectionNumbers DEF FillGap, InLoop, Current, OutputInv, Index
    <2>2. /\ call'.op = "Fill" /\ call'.start = written
          /\ call'.length = Address[Current] - written /\ written' = Address[Current]
          /\ Address[Current] > written /\ phase = "output"
          /\ UNCHANGED <<vars, options, phase, cursor, file, splitOffset>>
      BY <1>4 DEF FillGap, InLoop
    <2>3. CallOK'
      BY <2>1, <2>2 DEF CallOK
    <2>4. Ordered'
      <3>1. \A i \in 1 .. cursor : i \in Index /\ End(i) \in Nat /\ End(i) <= written
        BY SectionNumbers DEF CallInv, Ordered, OutputInv, Index
      <3> QED BY <2>1, <2>2, <3>1 DEF vars, CallInv, Ordered, End
    <2>5. FileOK'
      BY <2>1, <2>2 DEF vars, options, CallInv, FileOK, IsLead, Current
    <2> QED BY <2>2, <2>3, <2>4, <2>5 DEF vars, options, CallInv, OptionsOK, SwitchOK, PhaseOK
  <1>5. CASE EndSplitFile
    <2>1. mode = "split"
      BY <1>5 DEF EndSplitFile, MustSplit, CallInv, OptionsOK
    <2>2. FileOK'
      <3>1. PICK p \in 0 .. NumSections :
              /\ file = LeadFile(p)
              /\ IsLead(p, cursor) \/ (p = Current /\ IsLead(p, Current))
        BY <2>1 DEF CallInv, FileOK
      <3>2. IsLead(p, cursor)
        BY <1>5, <3>1 DEF EndSplitFile, MustSplit, InLoop, LeadFile, OutputInv, Current
      <3> QED BY <1>5, <2>1, <3>1, <3>2 DEF EndSplitFile, options, FileOK, IsLead
    <2> QED BY <1>5, <2>1, <2>2 DEF EndSplitFile, InLoop, MustSplit, vars, options, CallInv,
                                   OptionsOK, CallOK, Ordered, End, SwitchOK, PhaseOK, Current
  <1>6. CASE OpenSplitFile
    <2>1. /\ mode = "split" /\ cursor < NumSections /\ Current \in toSplit
          /\ Address[Current] = written /\ call = NoCall /\ call' = NoCall
          /\ file' = OwnFile(Current) /\ phase' = "output"
          /\ UNCHANGED <<vars, options, cursor, written, splitOffset>>
      BY <1>6 DEF OpenSplitFile, CallInv, SwitchOK, MustSplit
    <2>2. Current \in 1 .. NumSections /\ Current' = Current
      BY <2>1 DEF OutputInv, Current
    <2>3. IsLead(Current, Current)
      BY <2>1, <2>2 DEF IsLead
    <2>4. FileOK'
      BY <2>1, <2>2, <2>3 DEF FileOK, LeadFile, IsLead, options, vars
    <2> QED BY <2>1, <2>4 DEF vars, options, CallInv, OptionsOK, CallOK, Ordered, End,
                             SwitchOK, PhaseOK
  <1>7. CASE WriteSection
    <2>1. /\ Current \in Index /\ Address[Current] \in Nat /\ sections[Current].Length \in Nat
          /\ written = Address[Current]
          /\ phase = "output" /\ UNCHANGED <<vars, options, phase>>
      BY <1>7, SectionNumbers DEF WriteSection, InLoop, Current, OutputInv, Index
    <2>2. /\ call'.op = "Write" /\ call'.start = Address[Current]
          /\ call'.length = sections[Current].Length /\ written' = End(Current)
          /\ cursor' = Current
      BY <1>7 DEF WriteSection
    <2>3. CallOK'
      BY <2>1, <2>2 DEF CallOK, vars, End
    <2> QED BY <1>7, <2>1, <2>3, OrderedWrite, FileWrite
            DEF options, CallInv, OptionsOK, SwitchOK, PhaseOK
  <1>8. CASE Postscript
    BY <1>8 DEF Postscript, vars, options, CallInv, OptionsOK, CallOK, Ordered, FileOK, IsLead,
                Current, End, SwitchOK, PhaseOK, OutputInv
  <1>9. CASE CloseNext
    <2>1. /\ UNCHANGED <<vars, options, cursor, written, splitOffset>>
          /\ call' \in {NoCall, EndCall} /\ phase # "output" /\ call = NoCall
          /\ cursor = NumSections
      BY <1>9 DEF CloseNext, ClosePhases, CallInv, PhaseOK
    <2>2. CASE mode # "slaveboot"
      <3>1. phase' = "closed" /\ file' = file /\ call' = NoCall
        BY <1>9, <2>2 DEF CloseNext, ClosePhases
      <3> QED BY <2>1, <2>2, <3>1 DEF vars, options, CallInv, OptionsOK, CallOK, Ordered,
                  FileOK, IsLead, Current, End, SwitchOK, PhaseOK
    <2>3. CASE mode = "slaveboot"
      <3>1. /\ phase' \in {"closed", "closingBoot", "closingHeaders"}
            /\ file' \in {file, Boot, HeadersFile}
            /\ phase' = "closed" => call' = NoCall
        BY <1>9, <2>3 DEF CloseNext, ClosePhases
      <3> QED BY <2>1, <2>3, <3>1 DEF vars, options, CallInv, OptionsOK, CallOK, Ordered,
                  FileOK, IsLead, Current, End, SwitchOK, PhaseOK
    <2> QED BY <2>2, <2>3
  <1>10. CASE CallReturns
    <2>1. /\ call # NoCall /\ call' = NoCall
          /\ UNCHANGED <<vars, options, phase, cursor, written, file, splitOffset>>
      BY <1>10 DEF CallReturns, Return
    <2> QED BY <2>1 DEF vars, options, CallInv, OptionsOK, CallOK, Ordered, FileOK, IsLead,
                Current, End, SwitchOK, MustSplit, PhaseOK
  <1>11. CASE UNCHANGED <<vars, outputVars>>
    BY <1>11 DEF vars, outputVars, options, CallInv, OptionsOK, CallOK, Ordered, FileOK, IsLead,
                Current, End, SwitchOK, MustSplit, PhaseOK
  <1> QED BY <1>1, <1>2, <1>3, <1>4, <1>5, <1>6, <1>7, <1>8, <1>9, <1>10, <1>11 DEF OutputNext

\* What an implementation of the File interface can rely on.
LEMMA CallsInvariant == OutputSpec => [](Inv /\ Origins /\ OutputInv /\ CallInv)
  <1>1. OutputSpec => [](Inv /\ Origins)
    BY OutputKeepsLayout, OriginsInvariant, PTL
  <1>2. Inv => TypeOK /\ SectionsDisjoint
    BY DEF Inv
  <1> QED BY <1>1, <1>2, OutputInvInit, OutputInvNext, CallInvInit, CallInvNext, PTL
          DEF OutputSpec

-----------------------------------------------------------------------------
(* What the implementations of the File interface have in common.          *)

LoopInv == TypeOK /\ OutputInv /\ CallInv

\* The files of the loop are all files of the run.
LEMMA FileNames ==
    ASSUME LoopInv
    PROVE  /\ Boot \in FileIds /\ SecondFlash \in FileIds /\ Boot # SecondFlash
           /\ file \in FileIds /\ file # SecondFlash
           /\ \A p \in toSplit : p \in Index /\ p \in Nat /\ OwnFile(p) \in FileIds
           /\ \A p \in Index : OwnFile(p) # Boot /\ OwnFile(p) # SecondFlash
           /\ \A p, q \in Index : OwnFile(p) = OwnFile(q) => p = q
           /\ mode = "normal" => file = Boot
           /\ qspi # "none" => mode = "normal" /\ file = Boot
  <1> USE DEF Boot, HeadersFile, PartitionFile, SecondFlash, OwnFile
  <1>1. \A p \in Index : p \in Nat /\ p >= 1
    BY DEF Index
  <1>2. Boot \in FileIds /\ SecondFlash \in FileIds /\ Boot # SecondFlash
    BY DEF FileIds
  <1>3. \A p \in toSplit : p \in Index /\ p \in Nat /\ OwnFile(p) \in FileIds
    BY <1>1 DEF FileIds, LoopInv, CallInv, OptionsOK
  <1>4. \A p \in Index : OwnFile(p) # Boot /\ OwnFile(p) # SecondFlash
    BY <1>1
  <1>5. \A p, q \in Index : OwnFile(p) = OwnFile(q) => p = q
    BY <1>1
  <1>6. file \in FileIds /\ file # SecondFlash
    <2>1. CASE mode = "normal"
      BY <1>2, <2>1 DEF LoopInv, CallInv, FileOK
    <2>2. CASE mode = "slaveboot"
      BY <2>2 DEF LoopInv, CallInv, FileOK, FileIds
    <2>3. CASE mode = "split"
      <3>1. PICK p \in 0 .. NumSections : file = LeadFile(p) /\ p \in toSplit \cup {0}
        BY <2>3 DEF LoopInv, CallInv, FileOK, IsLead
      <3> QED BY <1>1, <1>2, <1>3, <3>1 DEF LeadFile
    <2> QED BY <2>1, <2>2, <2>3 DEF LoopInv, CallInv, OptionsOK
  <1>7. mode = "normal" => file = Boot
    BY DEF LoopInv, CallInv, FileOK
  <1>8. qspi # "none" => mode = "normal"
    BY DEF LoopInv, CallInv, OptionsOK
  <1> QED BY <1>1, <1>2, <1>3, <1>4, <1>5, <1>6, <1>7, <1>8

\* Every partition has a file of its own.
LEMMA LeadNames ==
    /\ \A p, q \in 0 .. NumSections : LeadFile(p) = LeadFile(q) => p = q
    /\ \A q \in Index : q \in 0 .. NumSections /\ OwnFile(q) = LeadFile(q)
    /\ \A p \in 0 .. NumSections : Boot = LeadFile(p) => p = 0
  BY SizeAssumption DEF LeadFile, OwnFile, Boot, SecondFlash, Index

\* The partition that section i follows, once it is known to be the last one.
LEMMA LeadingIs ==
    ASSUME LoopInv, NEW i \in Nat, NEW p \in Nat, IsLead(p, i)
    PROVE  Leading(i) = p
  <1> DEFINE P(r) == /\ r \in toSplit \cup {0}
                     /\ \A q \in toSplit : q <= i => q <= r
  <1>1. p \in 0 .. i /\ P(p)
    BY DEF IsLead
  <1>2. \A r \in 0 .. i : P(r) => r = p
    BY <1>1, FileNames DEF IsLead
  <1> QED BY <1>1, <1>2 DEF Leading

\* The image is put up to here, and the sections before this one with it.
Done == IF call.op \in {"Fill", "Write"} THEN call.start ELSE written
Flushed == IF call.op = "Write" THEN cursor - 1 ELSE cursor

\* A step of the loop puts nothing: it only makes the next call, at the point
\* reached.
LEMMA LoopStep ==
    ASSUME LoopInv, LoopInv', OutputNext
    PROVE  /\ Done' = Done /\ Flushed' = Flushed /\ UNCHANGED options
           /\ \/ UNCHANGED vars
              \/ /\ cursor = 0 /\ cursor' = 0 /\ call = NoCall /\ file = Boot
                 /\ UNCHANGED <<cursor, written, file, call>>
  <1> USE CallNames
  <1>1. CASE Layout
    BY <1>1 DEF Layout, outputVars, options, Done, Flushed, LoopInv, OutputInv, CallInv, PhaseOK
  <1>2. CASE Open \/ BackwardsError \/ OpenSplitFile
    BY <1>2 DEF Open, BackwardsError, OpenSplitFile, Done, Flushed
  <1>3. CASE FillGap
    BY <1>3 DEF FillGap, InLoop, Done, Flushed
  <1>4. CASE EndSplitFile \/ Postscript
    BY <1>4 DEF EndSplitFile, Postscript, InLoop, Done, Flushed
  <1>5. CASE WriteSection
    <2>1. cursor \in Nat
      BY SizeAssumption DEF LoopInv, OutputInv
    <2> QED BY <1>5, <2>1 DEF WriteSection, InLoop, Done, Flushed, Current
  <1>6. CASE CloseNext
    <2>1. call' \in {NoCall, EndCall} /\ call = NoCall
      BY <1>6 DEF CloseNext
    <2> QED BY <1>6, <2>1 DEF CloseNext, Done, Flushed
  <1> QED BY <1>1, <1>2, <1>3, <1>4, <1>5, <1>6 DEF OutputNext

\* The parallel mode deals the bytes out in pairs, so that an odd length loses
\* its last byte; lengths are even and addresses with them.
EvenImage ==
    /\ DefaultAlignment % 2 = 0
    /\ \A l \in Lengths : l % 2 = 0

-----------------------------------------------------------------------------
(* The header sizes, which a slave boot split subtracts from addresses.    *)

\* The boot header comes first, header tables before the bootloader, its
\* certificate directly behind it.
Listed ==
    /\ sections[1].kind = "BootHeader"
    /\ \A i \in Index :
          /\ sections[i].kind = "BootHeader" => i = 1
          /\ sections[i].kind = "bootloader" =>
                \A j \in Index : j < i => sections[j].kind \in {"BootHeader", "header"}
          /\ sections[i].kind = "bootloaderAC" =>
                i > 1 /\ sections[i - 1].kind = "bootloader"

\* What the header tables subtract from the address of a section lies before it;
\* the boot header ends where they say, and the bootloader lies behind them all.
HeadersBelow ==
    /\ placed = 0 => sizes = NoSizes
    /\ ~wrapped =>
          /\ sizes.bootheader \in Nat /\ sizes.allHeader \in Nat /\ sizes.bootloader \in Nat
          /\ sizes.bootheader + sizes.allHeader + sizes.bootloader <= running
          /\ placed >= 1 => End(1) <= sizes.bootheader
          /\ \A i \in 1 .. placed :
                /\ LinkedOffset(i) \in 0 .. Address[i]
                /\ sections[i].kind \in {"bootloader", "bootloaderAC"} =>
                      sizes.bootheader + sizes.allHeader <= Address[i]

LEMMA ListedInit == OutputInit => Listed /\ HeadersBelow
  <1> SUFFICES ASSUME OutputInit PROVE Listed /\ HeadersBelow
    OBVIOUS
  <1> USE SizeAssumption
  <1>1. 1 \in Index
    BY DEF Index
  <1>2. PICK first \in {s \in Section : IsBootHeader(s)},
             rest \in [Index \ {1} -> {s \in Section : Buildable(s) /\ s.kind # "BootHeader"}] :
            sections = [i \in Index |-> IF i = 1 THEN first ELSE rest[i]]
    BY DEF OutputInit, Init
  <1>3. sections[1].kind = "BootHeader" /\ \A i \in Index : sections[i].kind = "BootHeader" => i = 1
    BY <1>1, <1>2 DEF IsBootHeader
  <1>4. Listed
    <2>1. \A i \in Index : sections[i].kind = "bootloaderAC" =>
                i > 1 /\ sections[i - 1].kind = "bootloader"
      BY DEF OutputInit, Init, WellOrdered
    <2>2. \A i \in Index : sections[i].kind = "bootloader" =>
                \A j \in Index : j < i => sections[j].kind \in {"BootHeader", "header"}
      BY DEF OutputInit
    <2> QED BY <1>3, <2>1, <2>2 DEF Listed
  <1>5. HeadersBelow
    <2>1. placed = 0 /\ sizes = NoSizes /\ running = BaseAddress
      BY DEF OutputInit, Init
    <2>2. BaseAddress \in Nat
      BY DEF Addresses
    <2> QED BY <2>1, <2>2 DEF HeadersBelow, NoSizes, SizeFields
  <1> QED BY <1>4, <1>5

\* Placing a section leaves the sizes below it.
LEMMA PlaceHeaders ==
    ASSUME Inv, TypeOK', Listed, HeadersBelow, StackSection
    PROVE  HeadersBelow'
  <1> USE SizeAssumption
  <1>0. PICK i \in Index : i = placed + 1
    BY DEF StackSection, Inv, TypeOK, Index
  <1> DEFINE addr == AddressOf(i)
  <1>1. /\ TypeOK /\ i \in Index /\ i \in Nat /\ placed \in Nat /\ sections' = sections
        /\ placed' = i /\ i = placed + 1
    BY <1>0 DEF StackSection, Inv, TypeOK, Index
  <1> SUFFICES ASSUME ~wrapped'
               PROVE  /\ sizes'.bootheader \in Nat /\ sizes'.allHeader \in Nat
                      /\ sizes'.bootloader \in Nat
                      /\ sizes'.bootheader + sizes'.allHeader + sizes'.bootloader <= running'
                      /\ End(1)' <= sizes'.bootheader
                      /\ \A k \in 1 .. i :
                            /\ (LinkedOffset(k))' \in 0 .. Address'[k]
                            /\ sections[k].kind \in {"bootloader", "bootloaderAC"} =>
                                 sizes'.bootheader + sizes'.allHeader <= Address'[k]
    BY <1>1 DEF HeadersBelow
  <1>2. /\ ~wrapped /\ Start(i) <= addr /\ addr + sections[i].Length <= running'
        /\ Address' = [Address EXCEPT ![i] = addr] /\ running' \in Nat
    BY <1>1, StackFacts
  <1>3. /\ running \in Nat /\ Start(i) \in Nat /\ running <= Start(i) /\ addr \in Nat
        /\ sections[i].Length \in Nat
    BY <1>1, StartType, AddressOfType, SectionFields DEF TypeOK, Addresses
  <1>4. /\ \A k \in 1 .. placed : k \in Index /\ k # i /\ Address'[k] = Address[k]
                                  /\ Address[k] \in Nat
        /\ Address'[i] = addr
        /\ \A k \in 1 .. i : k \in 1 .. placed \/ k = i
    <2>1. \A k \in 1 .. placed : k \in Index /\ k # i
      BY <1>1 DEF Index
    <2> QED BY <1>1, <1>2, <2>1 DEF TypeOK, Addresses
  <1>5. sizes' = SizesOf(i, Start(i), running')
    BY <1>1 DEF StackSection, Place
  <1>6. PICK bh \in Nat, ah \in Nat, bl \in Nat :
            /\ bh = sizes.bootheader /\ ah = sizes.allHeader /\ bl = sizes.bootloader
            /\ bh + ah + bl <= running
    BY <1>2 DEF HeadersBelow
  <1>7. /\ placed >= 1 => End(1) <= bh
        /\ placed = 0 => bh = 0 /\ ah = 0 /\ bl = 0
        /\ \A k \in 1 .. placed :
              /\ LinkedOffset(k) \in 0 .. Address[k]
              /\ sections[k].kind \in {"bootloader", "bootloaderAC"} => bh + ah <= Address[k]
    BY <1>2, <1>6 DEF HeadersBelow, NoSizes, SizeFields
  <1>8. sizes \in [SizeFields -> Int]
    BY <1>1 DEF TypeOK
  <1>9. \A k \in 1 .. placed : sections[k].kind = "BootHeader" => k = 1
    BY <1>4 DEF Listed
  <1>10. placed >= 1 => End(1)' = End(1)
    BY <1>1, <1>4 DEF End
  <1> HIDE DEF addr
  <1>11. CASE sections[i].kind = "BootHeader"
    <2>1. i = 1 /\ placed = 0
      BY <1>1, <1>11 DEF Listed
    <2>2. sizes' = [sizes EXCEPT !.bootheader = running']
      BY <1>5, <1>11 DEF SizesOf
    <2>3. sizes'.bootheader = running' /\ sizes'.allHeader = 0 /\ sizes'.bootloader = 0
      BY <1>6, <1>7, <1>8, <2>1, <2>2 DEF SizeFields
    <2>4. \A k \in 1 .. i : k = i
      BY <2>1
    <2>5. (LinkedOffset(i))' = 0
      BY <1>1, <1>11 DEF LinkedOffset
    <2>6. End(1)' <= running'
      BY <1>1, <1>2, <1>3, <1>4, <2>1 DEF End
    <2>7. \A k \in 1 .. i :
                /\ (LinkedOffset(k))' \in 0 .. Address'[k]
                /\ sections[k].kind \notin {"bootloader", "bootloaderAC"}
      BY <1>3, <1>4, <1>11, <2>4, <2>5
    <2>8. sizes'.bootheader + sizes'.allHeader + sizes'.bootloader <= running'
      BY <1>2, <2>3
    <2>9. /\ sizes'.bootheader \in Nat /\ sizes'.allHeader \in Nat /\ sizes'.bootloader \in Nat
          /\ End(1)' <= sizes'.bootheader
      BY <1>2, <2>3, <2>6
    <2> QED BY <2>7, <2>8, <2>9
  <1>12. CASE sections[i].kind # "BootHeader"
    <2>1. placed >= 1
      BY <1>1, <1>12 DEF Listed
    <2>2. CASE sections[i].kind = "bootloader"
      <3>1. sizes' = [sizes EXCEPT !.totalHeaders = Start(i), !.allHeader = Start(i) - bh,
                                   !.bootloader = running' - Start(i)]
        BY <1>5, <1>6, <2>2 DEF SizesOf
      <3>2. /\ sizes'.bootheader = bh /\ sizes'.allHeader = Start(i) - bh
            /\ sizes'.bootloader = running' - Start(i)
        BY <1>6, <1>8, <3>1 DEF SizeFields
      <3>3. \A k \in 1 .. placed :
                /\ sections[k].kind \in {"BootHeader", "header"}
                /\ (LinkedOffset(k))' = LinkedOffset(k)
        <4> TAKE k \in 1 .. placed
        <4>1. sections[k].kind \in {"BootHeader", "header"}
          BY <1>1, <1>4, <2>2 DEF Listed
        <4> QED BY <1>1, <1>6, <3>2, <4>1 DEF LinkedOffset
      <3>4. (LinkedOffset(i))' = Start(i) - bh
        BY <1>1, <2>2, <3>2 DEF LinkedOffset
      <3>5. Start(i) - bh \in Nat /\ running' - Start(i) \in Nat
        BY <1>2, <1>3, <1>6
      <3>6. \A k \in 1 .. i :
                /\ (LinkedOffset(k))' \in 0 .. Address'[k]
                /\ sections[k].kind \in {"bootloader", "bootloaderAC"} =>
                     sizes'.bootheader + sizes'.allHeader <= Address'[k]
        <4> TAKE k \in 1 .. i
        <4>1. CASE k = i
          BY <1>2, <1>3, <1>4, <1>6, <3>2, <3>4, <3>5, <4>1
        <4>2. CASE k \in 1 .. placed
          BY <1>4, <1>7, <3>3, <4>2
        <4> QED BY <1>4, <4>1, <4>2
      <3> QED BY <1>2, <1>3, <1>6, <1>7, <1>10, <2>1, <3>2, <3>5, <3>6
    <2>3. CASE sections[i].kind = "bootloaderAC"
      <3>1. sizes' = [sizes EXCEPT !.bootloader = @ + sections[i].Length]
        BY <1>5, <2>3 DEF SizesOf
      <3>2. /\ sizes'.bootheader = bh /\ sizes'.allHeader = ah
            /\ sizes'.bootloader = bl + sections[i].Length
        BY <1>6, <1>8, <3>1 DEF SizeFields
      <3>3. \A k \in 1 .. placed :
                /\ sections[k].kind \in {"BootHeader", "header", "bootloader"}
                /\ (LinkedOffset(k))' = LinkedOffset(k)
        <4> TAKE k \in 1 .. placed
        <4>1. placed \in Index /\ sections[placed].kind = "bootloader"
          <5>1. i - 1 = placed
            BY <1>1
          <5> QED BY <1>1, <2>1, <2>3, <5>1 DEF Listed, Index
        <4>2. k = placed \/ k < placed
          BY <1>1
        <4>3. sections[k].kind \in {"BootHeader", "header", "bootloader"}
          BY <1>4, <4>1, <4>2 DEF Listed
        <4> QED BY <1>1, <1>6, <3>2, <4>3 DEF LinkedOffset
      <3>4. (LinkedOffset(i))' = ah
        BY <1>1, <2>3, <3>2 DEF LinkedOffset
      <3>5. \A k \in 1 .. i :
                /\ (LinkedOffset(k))' \in 0 .. Address'[k]
                /\ sections[k].kind \in {"bootloader", "bootloaderAC"} =>
                     sizes'.bootheader + sizes'.allHeader <= Address'[k]
        <4> TAKE k \in 1 .. i
        <4>1. CASE k = i
          BY <1>2, <1>3, <1>4, <1>6, <3>2, <3>4, <4>1
        <4>2. CASE k \in 1 .. placed
          BY <1>4, <1>7, <3>2, <3>3, <4>2
        <4> QED BY <1>4, <4>1, <4>2
      <3> QED BY <1>2, <1>3, <1>6, <1>7, <1>10, <2>1, <3>2, <3>5
    <2>4. CASE sections[i].kind \notin {"bootloader", "bootloaderAC"}
      <3>1. sizes' = sizes
        BY <1>5, <1>12, <2>4 DEF SizesOf
      <3>2. \A k : (LinkedOffset(k))' = LinkedOffset(k)
        BY <1>1, <3>1 DEF LinkedOffset
      <3>3. LinkedOffset(i) \in 0 .. running
        BY <1>3, <1>6, <1>12, <2>4 DEF LinkedOffset
      <3>4. \A k \in 1 .. i :
                /\ LinkedOffset(k) \in 0 .. Address'[k]
                /\ sections[k].kind \in {"bootloader", "bootloaderAC"} =>
                     bh + ah <= Address'[k]
        <4> TAKE k \in 1 .. i
        <4>1. CASE k = i
          BY <1>2, <1>3, <1>4, <2>4, <3>3, <4>1
        <4>2. CASE k \in 1 .. placed
          BY <1>4, <1>7, <4>2
        <4> QED BY <1>4, <4>1, <4>2
      <3> QED BY <1>2, <1>3, <1>6, <1>7, <1>10, <2>1, <3>1, <3>2, <3>4
    <2> QED BY <2>2, <2>3, <2>4
  <1> QED BY <1>11, <1>12

\* What the header tables subtract is never more than the address of a section.
LEMMA HeadersInvariant == OutputSpec => [](Listed /\ HeadersBelow)
  <1>1. Inv => TypeOK
    BY DEF Inv
  <1>2. /\ Inv /\ TypeOK' /\ Listed /\ HeadersBelow
        /\ [OutputNext \/ CallReturns]_<<vars, outputVars>>
        => Listed' /\ HeadersBelow'
    <2> SUFFICES ASSUME Inv, TypeOK', Listed, HeadersBelow,
                        [OutputNext \/ CallReturns]_<<vars, outputVars>>
                 PROVE  Listed' /\ HeadersBelow'
      OBVIOUS
    <2>1. Next \/ UNCHANGED vars
      BY DEF OutputNext, CallReturns, Layout, Open, BackwardsError, FillGap,
             EndSplitFile, OpenSplitFile, WriteSection, Postscript, CloseNext
    <2>2. sections' = sections
      BY <2>1 DEF Next, StackSection, OverlapError, Finish, vars
    <2>3. CASE StackSection
      BY <2>2, <2>3, PlaceHeaders DEF Listed
    <2>4. CASE UNCHANGED <<sections, Address, placed, running, sizes, wrapped>>
      BY <2>4 DEF Listed, HeadersBelow, LinkedOffset, End
    <2> QED BY <2>1, <2>3, <2>4 DEF Next, OverlapError, Finish, vars
  <1>3. OutputSpec => []Inv
    BY CallsInvariant, PTL
  <1> QED BY <1>1, <1>2, <1>3, ListedInit, PTL DEF OutputSpec
=============================================================================
