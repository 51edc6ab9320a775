--------------------------- MODULE SectionLayout ---------------------------
(***************************************************************************)
(* Placement of the sections of a boot image: Binary::StackAndAlign walks  *)
(* the section list once, keeping the end of what is placed so far         *)
(* (running) and the end of the last reservation (reserved), and gives     *)
(* every section its byte address.  A section with a non-zero Address on   *)
(* entry carries the user's [offset] attribute and is only checked.        *)
(*                                                                         *)
(* The masks ~(A - 1) of the alignment are computed in uint32_t and then   *)
(* zero-extended, so WordModulus (2^32) matters: an address at or above it *)
(* loses its upper bits when aligned.                                      *)
(* AddressModulus is 2^64, the width of Binary::Address_t.                 *)
(***************************************************************************)
EXTENDS Integers

CONSTANTS
    NumSections,       \* sections of the image
    Lengths,           \* byte lengths a section may have
    Offsets,           \* [offset] attributes, 0 for none
    Reserves,          \* [reserve] attributes, 0 for none
    Alignments,        \* [alignment] attributes, 0 for none
    DefaultAlignment,  \* 64, or 16 on the Versal families
    BaseAddress,       \* address of the first section
    WordModulus,       \* number of values of a uint32_t
    AddressModulus,    \* number of values of a uint64_t
    BitAnd(_, _)       \* the & of C on naturals

Addresses == 0 .. (AddressModulus - 1)
Words == 0 .. (WordModulus - 1)

ASSUME SizeAssumption ==
    /\ NumSections \in Nat \ {0}
    /\ WordModulus \in Nat
    /\ AddressModulus \in Nat
    /\ WordModulus <= AddressModulus
    /\ BaseAddress \in Addresses
    /\ DefaultAlignment \in Words \ {0}

ASSUME AttributeAssumption ==
    /\ Lengths \subseteq Addresses
    /\ Offsets \subseteq Addresses
    /\ Reserves \subseteq Addresses
    /\ Alignments \subseteq Words

\* The default alignment is a power of two below 2^32, and nothing sets a base
\* address other than 0.
ASSUME AlignmentAssumption ==
    /\ BaseAddress % DefaultAlignment = 0
    /\ AddressModulus % DefaultAlignment = 0

\* What is used of the & of C: it leaves no bit that the zero-extended mask
\* ~(A - 1) does not have, so none below a power of two that divides A, and
\* of a 32-bit x it clears some of the low bits and nothing more.
ASSUME BitAndAssumption ==
    \A A \in Words \ {0} :
        /\ \A x \in Addresses : BitAnd(x, WordModulus - A) \in 0 .. (WordModulus - A)
        /\ A % DefaultAlignment = 0 =>
              \A x \in Addresses : BitAnd(x, WordModulus - A) % DefaultAlignment = 0
        /\ \A x \in Words : BitAnd(x, WordModulus - A) \in (x - (A - 1)) .. x

Index == 1 .. NumSections

Kinds == {"BootHeader", "header", "bootloader", "bootloaderAC", "other", "checksum"}

SizeFields == {"bootheader", "allHeader", "totalHeaders", "bootloader"}

Section ==
    [Length : Lengths, Offset : Offsets, Reserve : Reserves,
     Alignment : Alignments, continuation : BOOLEAN, kind : Kinds]

VARIABLES
    sections,    \* the section list
    Address,     \* Section::Address
    placed,      \* sections already visited by the loop
    running,     \* runningAddress
    reserved,    \* reservedAddress
    sizes,       \* the header sizes kept in Options
    TotalSize,
    status,      \* "stacking", "done" or "error"
    wrapped      \* history: an alignment mask has cut an address

vars == <<sections, Address, placed, running, reserved, sizes, TotalSize,
          status, wrapped>>

-----------------------------------------------------------------------------
\* Mutant: the addition of A - 1 is forgotten, so the address is rounded down.
AlignDown(x, A) == BitAnd(x, WordModulus - A)

\* (x + A - 1) & ~(A - 1)
AlignUp(x, A) == BitAnd((x + A - 1) % AddressModulus, WordModulus - A)

\* The sum does not fit 32 bits, so the mask drops its upper half.
Cuts(x, A) == x + A > WordModulus

\* ImageHeader::Build refuses [alignment] together with [offset] and attributes
\* that are not multiples of the default alignment; Partition::Build gives
\* [offset] and [reserve] to the first partition of an image only.
AttributesValid(s) ==
    /\ s.Alignment # 0 => s.Offset = 0
    /\ \A v \in {s.Alignment, s.Offset, s.Reserve} : v % DefaultAlignment = 0

Buildable(s) ==
    /\ AttributesValid(s)
    /\ s.continuation => s.Offset = 0 /\ s.Reserve = 0

NoSizes == [f \in SizeFields |-> 0]

\* The boot header comes first and has no attribute.
IsBootHeader(s) ==
    /\ s.kind = "BootHeader" /\ ~s.continuation
    /\ s.Offset = 0 /\ s.Alignment = 0 /\ s.Reserve = 0

\* Header tables precede the partitions, at most one of which is a bootloader;
\* its certificate, of a size that needs no padding, follows it, and checksums
\* come last.
WellOrdered(list) ==
    \A i, j \in Index :
        /\ list[i].kind = "bootloader" /\ list[j].kind = "bootloader" => i = j
        /\ list[i].kind = "bootloaderAC" =>
              /\ i > 1 /\ list[i - 1].kind = "bootloader"
              /\ list[i].Length % DefaultAlignment = 0
        /\ list[i].kind = "checksum" /\ i < j => list[j].kind = "checksum"
        /\ list[i].kind = "header" /\ j < i =>
              list[j].kind \in {"BootHeader", "header"}

Init ==
    /\ \E first \in {s \in Section : IsBootHeader(s)},
          rest \in [Index \ {1} -> {s \in Section : Buildable(s) /\ s.kind # "BootHeader"}] :
            sections = [i \in Index |-> IF i = 1 THEN first ELSE rest[i]]
    /\ WellOrdered(sections)
    /\ Address = [i \in Index |-> sections[i].Offset]
    /\ placed = 0
    /\ running = BaseAddress
    /\ reserved = 0
    /\ sizes = NoSizes
    /\ TotalSize = 0
    /\ status = "stacking"
    /\ wrapped = FALSE

-----------------------------------------------------------------------------
\* Mutant: the reservation is never skipped.
StartIgnoringReserve(i) == running

\* runningAddress once the reservation before section i is skipped.
Start(i) ==
    IF ~sections[i].continuation /\ running < reserved THEN reserved ELSE running

\* Mutant: an offset equal to the running address is refused.
OverlapsOffByOne(i) == Address[i] # 0 /\ Start(i) >= Address[i]

Overlaps(i) == Address[i] # 0 /\ Start(i) > Address[i]

AddressOf(i) ==
    IF Address[i] # 0 THEN Address[i]
    ELSE IF sections[i].Alignment # 0 THEN AlignUp(Start(i), sections[i].Alignment)
    ELSE Start(i)

\* Options' header sizes: before is runningAddress when section i is met, after
\* when it is placed.
SizesOf(i, before, after) ==
    CASE sections[i].kind = "BootHeader" -> [sizes EXCEPT !.bootheader = after]
      [] sections[i].kind = "bootloader" ->
            [sizes EXCEPT !.totalHeaders = before,
                          !.allHeader = before - sizes.bootheader,
                          !.bootloader = after - before]
      [] sections[i].kind = "bootloaderAC" ->
            [sizes EXCEPT !.bootloader = @ + sections[i].Length]
      [] OTHER -> sizes

Place(i, addr) ==
    LET end   == (addr + sections[i].Length) % AddressModulus
        after == AlignUp(end, DefaultAlignment)
    IN  /\ Address' = [Address EXCEPT ![i] = addr]
        /\ running' = after
        /\ reserved' = IF sections[i].Reserve = 0 THEN reserved
                       ELSE (addr + sections[i].Reserve) % AddressModulus
        /\ sizes' = SizesOf(i, Start(i), after)
        /\ wrapped' = \/ wrapped
                      \/ /\ Address[i] = 0 /\ sections[i].Alignment # 0
                         /\ Cuts(Start(i), sections[i].Alignment)
                      \/ Cuts(addr + sections[i].Length, DefaultAlignment)
                      \/ addr + sections[i].Reserve >= AddressModulus

StackSection ==
    LET i == placed + 1
    IN  /\ status = "stacking"
        /\ placed < NumSections
        /\ ~Overlaps(i)
        /\ Place(i, AddressOf(i))
        /\ placed' = i
        /\ UNCHANGED <<sections, TotalSize, status>>

\* LOG_ERROR ends the program: no image is written.
OverlapError ==
    /\ status = "stacking"
    /\ placed < NumSections
    /\ Overlaps(placed + 1)
    /\ status' = "error"
    /\ UNCHANGED <<sections, Address, placed, running, reserved, sizes,
                   TotalSize, wrapped>>

Finish ==
    /\ status = "stacking"
    /\ placed = NumSections
    /\ TotalSize' = running
    /\ status' = "done"
    /\ UNCHANGED <<sections, Address, placed, running, reserved, sizes, wrapped>>

Next == StackSection \/ OverlapError \/ Finish

Spec == Init /\ [][Next]_vars

-----------------------------------------------------------------------------
TypeOK ==
    /\ sections \in [Index -> Section]
    /\ Address \in [Index -> Addresses]
    /\ placed \in 0 .. NumSections
    /\ {running, reserved, TotalSize} \subseteq Addresses
    /\ sizes \in [SizeFields -> Int]
    /\ status \in {"stacking", "done", "error"}
    /\ wrapped \in BOOLEAN

End(i) == Address[i] + sections[i].Length

\* Two sections never share a byte of the image, in whatever way offsets,
\* alignments, reservations and continuations are mixed, as long as no
\* alignment mask has cut an address to 32 bits.
SectionsDisjoint ==
    ~wrapped => \A i, j \in 1 .. placed : i < j => End(i) <= Address[j]

\* The space a partition reserves stays free of every later section but the
\* continuation of its own image.
ReserveKept ==
    ~wrapped => \A i, j \in 1 .. placed :
                    i < j /\ ~sections[j].continuation =>
                        Address[i] + sections[i].Reserve <= Address[j]

\* The overlap error is reported only for an offset that falls before the
\* image, in a placed section with its padding, or in a reservation.
ErrorIsJustified ==
    status = "error" /\ ~wrapped =>
        LET o == Address[placed + 1]
        IN  \/ o < BaseAddress
            \/ \E i \in 1 .. placed :
                    \/ o < AlignUp(End(i), DefaultAlignment)
                    \/ o < Address[i] + sections[i].Reserve

\* TotalSize covers every section (the output file and its parity are sized
\* from it).
TotalCoversSections ==
    status = "done" /\ ~wrapped => \A i \in Index : End(i) <= TotalSize

\* The error text of the loop: a section placed by [offset] never "overlaps
\* with prior section end address".
OffsetNeverOverlaps ==
    \A i, j \in 1 .. placed : i < j /\ sections[j].Offset # 0 =>
        End(i) <= Address[j]
=============================================================================
