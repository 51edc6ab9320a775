---------------------------- MODULE VersalLayout ----------------------------
(***************************************************************************)
(* Where the sections of a Versal boot image go, and what the file holds.  *)
(* VersalBinary::StackAndAlign places the sections twice: in the order of  *)
(* the list, as Binary does, and then with the boot header, the bootloader *)
(* and its certificate in front.  The addresses are linked into the header *)
(* tables, and OutputVersal appends the sections to the file.              *)
(*                                                                         *)
(* An address has 64 bits, but the masks that align it and most fields it  *)
(* is linked into have 32, so MaskModulus (2^32) matters: an [offset] may  *)
(* well be above it.  No sum comes near 2^64.                              *)
(***************************************************************************)
EXTENDS Integers, SequencesExt

CONSTANTS
    SmapLength,         \* sizeof(VersalSmapWidthTable)
    DefaultAlignment,
    Alignments,         \* [alignment] attributes
    MaskModulus,        \* number of values of a uint32_t
    BitAnd(_, _)        \* the & of C on naturals

ASSUME LayoutAssumption ==
    /\ SmapLength \in Nat /\ DefaultAlignment \in Nat \ {0}
    /\ SmapLength % DefaultAlignment = 0
    /\ MaskModulus \in Nat
    /\ Alignments \cup {DefaultAlignment} \subseteq 1 .. (MaskModulus - 1)

\* What is used of the & of C: the mask ~(A - 1) clears some of the bits of A - 1 and
\* nothing more, and leaves none below the default alignment, a power of two that
\* divides A.
ASSUME MaskAssumption ==
    \A A \in Alignments \cup {DefaultAlignment}, x \in 0 .. (MaskModulus - 1) :
        /\ BitAnd(x, MaskModulus - A) \in 0 .. x
        /\ BitAnd(x, MaskModulus - A) % DefaultAlignment = 0

VARIABLES
    smap,        \* GetSmapWidth and pdiType of the BIF, GetSmapWidth of the last one
    stage,       \* the stage of BuildAndLink and Output
    sections,    \* the section list of the cache
    Address,     \* Section::Address
    visited,     \* the sections that the loops have visited
    running,     \* runningAddress
    reserved,    \* reservedAddress
    linked,      \* the addresses that the headers hold
    file,        \* what is written: section, or 0 for fill bytes, place and length
    folded       \* history: sections at which an address has lost its upper bits

layoutVars ==
    <<smap, stage, sections, Address, visited, running, reserved, linked, file, folded>>

BytesPerWord == 4

\* Sections that the second pass and the output take first; the certificate in
\* front is that of the bootloader.
FrontKinds == {"BootHeader", "acBootloader", "bootloader"}

OtherKinds == {"SmapHeader", "table", "certificate", "checksum", "metaheader", "partition"}

SectionType ==
    [kind : FrontKinds \cup OtherKinds, Length : Nat,
     Offset : Nat, Reserve : Nat, Alignment : {0} \cup Alignments, continuation : BOOLEAN]

SmapType == [width : {0, 8, 16, 32}, lastWidth : {0, 8, 16, 32}, slaveBoot : BOOLEAN]

\* (x + alignment - 1) & ~(alignment - 1).  The mask is computed in 32 bits and then
\* zero-extended, so of x only 32 bits are left.
AlignTo(x, alignment) ==
    BitAnd((x + alignment - 1) % MaskModulus, MaskModulus - alignment)

Aligned(x) == AlignTo(x, DefaultAlignment)

\* Section i is noted if rounding up x has lowered it.
Noted(i, x, rounded) == IF rounded < x THEN folded \cup {i} ELSE folded

Greater(a, b) == IF a >= b THEN a ELSE b

IsBootHeader(i) == sections[i].kind = "BootHeader"

InFront(i) == sections[i].kind \in FrontKinds

\* The loop of the second pass, and of the output, that takes section i.
Loop(i) ==
    CASE sections[i].kind = "BootHeader"   -> 1
      [] sections[i].kind = "acBootloader" -> 2
      [] sections[i].kind = "bootloader"   -> 3
      [] OTHER                             -> 4

Before(i, k) == Loop(i) < Loop(k) \/ (Loop(i) = Loop(k) /\ i < k)

\* Section i is the next one of the loops.
IsNext(i) ==
    /\ i \in DOMAIN sections \ visited
    /\ \A k \in DOMAIN sections \ visited : k = i \/ Before(i, k)

AllVisited == visited = DOMAIN sections

-----------------------------------------------------------------------------
(* The first pass.                                                         *)

\* runningAddress once the reservation before section i is skipped.
Start(i) ==
    IF ~sections[i].continuation /\ running < reserved THEN reserved ELSE running

Overlaps(i) == Address[i] # 0 /\ Start(i) > Address[i]

AddressOf(i) ==
    IF Address[i] # 0 THEN Address[i]
    ELSE IF sections[i].Alignment # 0 THEN AlignTo(Start(i), sections[i].Alignment)
    ELSE Start(i)

\* Section i is the next one of the list.
InList(i) ==
    /\ stage = "stacking" /\ i \in DOMAIN sections \ visited
    /\ \A k \in DOMAIN sections \ visited : i <= k

StackSection == \E i \in DOMAIN sections :
    /\ InList(i) /\ ~Overlaps(i)
    /\ Address' = [Address EXCEPT ![i] = AddressOf(i)]
    /\ running' = Aligned(AddressOf(i) + sections[i].Length)
    /\ reserved' = IF sections[i].Reserve = 0 THEN reserved
                   ELSE AddressOf(i) + sections[i].Reserve
    /\ visited' = visited \cup {i}
    /\ folded' = Noted(i, Start(i), AddressOf(i))
                    \cup Noted(i, AddressOf(i) + sections[i].Length, running')
    /\ UNCHANGED <<smap, stage, sections, linked, file>>

\* LOG_ERROR "overlaps with prior section end address"
OverlapError ==
    /\ \E i \in DOMAIN sections : InList(i) /\ Overlaps(i)
    /\ stage' = "failed"
    /\ UNCHANGED <<smap, sections, Address, visited, running, reserved, linked, file, folded>>

StartRestacking ==
    /\ stage = "stacking" /\ AllVisited
    /\ stage' = "restacking"
    /\ visited' = {} /\ running' = 0
    /\ UNCHANGED <<smap, sections, Address, reserved, linked, file, folded>>

-----------------------------------------------------------------------------
(* The second pass: the sections in front follow the boot header, the      *)
(* others are raised above what is before them.                            *)

\* Mutant: the other sections are not raised.
RestackedUnraised(i) == IF InFront(i) /\ ~IsBootHeader(i) THEN running ELSE Address[i]

Restacked(i) ==
    IF IsBootHeader(i) THEN Address[i]
    ELSE IF InFront(i) THEN running
    ELSE Greater(Address[i], running)

\* Mutant: the end of a raised section is not looked at.
RunningAfterReserveOnly(i, end) == Restacked(i) + sections[i].Reserve

\* runningAddress after section i, which ends at end.
RunningAfter(i, end) ==
    CASE sections[i].kind = "acBootloader" -> end
      [] sections[i].kind = "bootloader" /\ sections[i].Reserve # 0 -> end
      [] ~InFront(i) /\ sections[i].Reserve # 0 -> Restacked(i) + sections[i].Reserve
      [] OTHER -> Aligned(end)

RestackSection == \E i \in DOMAIN sections :
    LET end == Restacked(i) + sections[i].Length
    IN  /\ stage = "restacking" /\ IsNext(i)
        /\ Address' = [Address EXCEPT ![i] = Restacked(i)]
        /\ running' = RunningAfter(i, end)
        /\ visited' = visited \cup {i}
        /\ folded' = Noted(i, end, Aligned(end))
        /\ UNCHANGED <<smap, stage, sections, reserved, linked, file>>

\* Number of addresses a field of the headers tells apart: it has 32 bits, for words
\* if it is that of a checksum or a certificate.  SetPartitionWordOffset divides by
\* the size of a word what has been cut to 32 bits.
LinkModulus(i) ==
    IF sections[i].kind \in {"checksum", "certificate", "acBootloader"}
    THEN BytesPerWord * MaskModulus ELSE MaskModulus

\* SetPartitionWordOffset, SetAuthCertificateOffset, SetSourceOffset ...
Link ==
    /\ stage = "restacking" /\ AllVisited
    /\ linked' = [i \in DOMAIN sections |-> Address[i] % LinkModulus(i)]
    /\ folded' = folded \cup {i \in DOMAIN sections : linked'[i] # Address[i]}
    /\ stage' = "linked"
    /\ UNCHANGED <<smap, sections, Address, visited, running, reserved, file>>

-----------------------------------------------------------------------------
(* The file.                                                               *)

\* Without SMAP words the boot header loses their place, but not in the boot
\* image of a slave SLR.
Skipped(i) == IF IsBootHeader(i) /\ smap.width = 0 /\ ~smap.slaveBoot THEN SmapLength ELSE 0

EndOf(pieces) == IF pieces = <<>> THEN 0 ELSE Last(pieces).at + Last(pieces).length

\* The file is written from one end to the other, wherever a section belongs.
Appended(pieces, i, length) ==
    Append(pieces, [section |-> i, at |-> EndOf(pieces), length |-> length])

\* Mutant: gaps are filled only if the image itself has SMAP words.
FilledByOwnSmap(pieces, gap) ==
    IF gap > 0 /\ smap.width # 0 THEN Appended(pieces, 0, gap) ELSE pieces

\* Gaps are filled only if the last BIF has SMAP words.
Filled(pieces, gap) ==
    IF gap > 0 /\ smap.lastWidth # 0 THEN Appended(pieces, 0, gap) ELSE pieces

StartWriting ==
    /\ stage = "linked"
    /\ stage' = "writing"
    /\ visited' = {} /\ running' = 0
    /\ UNCHANGED <<smap, sections, Address, reserved, linked, file, folded>>

Backwards(i) == ~InFront(i) /\ Address[i] < running

\* The boot header, then a certificate and the bootloader at what is the end of
\* the image by then; no gap is filled behind the first two.
WriteInFront == \E i \in DOMAIN sections :
    LET addr == IF IsBootHeader(i) THEN Address[i] ELSE running
        size == sections[i].Length - Skipped(i)
        done == Appended(file, i, size)
    IN  /\ stage = "writing" /\ IsNext(i) /\ InFront(i)
        /\ Address' = [Address EXCEPT ![i] = addr]
        /\ running' = Aligned(addr + size)
        /\ file' = IF sections[i].kind = "bootloader"
                   THEN Filled(done, running' - (addr + size)) ELSE done
        /\ visited' = visited \cup {i}
        /\ folded' = Noted(i, addr + size, running')
        /\ UNCHANGED <<smap, stage, sections, reserved, linked>>

\* Any other section, with the gaps before and after it.
WriteSection == \E i \in DOMAIN sections :
    LET addr == Address[i]
        size == sections[i].Length
    IN  /\ stage = "writing" /\ IsNext(i) /\ ~InFront(i) /\ ~Backwards(i)
        /\ running' = Aligned(addr + size)
        /\ file' = Filled(Appended(Filled(file, addr - running), i, size),
                          running' - (addr + size))
        /\ visited' = visited \cup {i}
        /\ folded' = Noted(i, addr + size, running')
        /\ UNCHANGED <<smap, stage, sections, Address, reserved, linked>>

\* LOG_ERROR "Sequential addresses are going backwards!"
BackwardsError ==
    /\ stage = "writing" /\ \E i \in DOMAIN sections : IsNext(i) /\ Backwards(i)
    /\ stage' = "failed"
    /\ UNCHANGED <<smap, sections, Address, visited, running, reserved, linked, file, folded>>

Close ==
    /\ stage = "writing" /\ AllVisited
    /\ stage' = "written"
    /\ UNCHANGED <<smap, sections, Address, visited, running, reserved, linked, file, folded>>

-----------------------------------------------------------------------------
Stack == StackSection \/ OverlapError \/ StartRestacking

Restack == RestackSection \/ Link

Write == WriteInFront \/ WriteSection \/ BackwardsError \/ Close

LayoutNext == Stack \/ Restack \/ StartWriting \/ Write

\* A list of sections as Build leaves it: those in front are unique, and attributes
\* and the lengths of the boot header and of the bootloader's certificate are
\* multiples of the default alignment.  The boot header holds the SMAP words, which
\* only the images of slave SLRs have of a width of their own; those with a boot
\* header are boot images.
IsSectionList(list) ==
    /\ list \in Seq(SectionType)
    /\ \A i, k \in DOMAIN list :
          list[i].kind = list[k].kind /\ list[i].kind \in FrontKinds => i = k
    /\ \A i \in DOMAIN list :
          /\ \A v \in {list[i].Offset, list[i].Reserve, list[i].Alignment} :
                v % DefaultAlignment = 0
          /\ list[i].kind \in {"BootHeader", "acBootloader"} =>
                list[i].Length % DefaultAlignment = 0
          /\ list[i].kind = "BootHeader" =>
                /\ list[i].Length >= SmapLength
                /\ smap.slaveBoot \/ smap.width = smap.lastWidth

\* The sections of the list are to be placed.
LayoutInit ==
    /\ smap \in SmapType
    /\ stage = "stacking"
    /\ IsSectionList(sections)
    /\ Address = [i \in DOMAIN sections |-> sections[i].Offset]
    /\ visited = {} /\ running = 0 /\ reserved = 0
    /\ linked = <<>> /\ file = <<>> /\ folded = {}

LayoutSpec == LayoutInit /\ [][LayoutNext]_layoutVars

-----------------------------------------------------------------------------
Stages == {"building", "stacking", "restacking", "linked", "writing", "written", "failed"}

LayoutTypeOK ==
    /\ smap \in SmapType /\ stage \in Stages
    /\ IsSectionList(sections)
    /\ Address \in [DOMAIN sections -> Nat]
    /\ visited \subseteq DOMAIN sections
    /\ running \in Nat /\ reserved \in Nat
    /\ linked # <<>> => linked \in [DOMAIN sections -> Nat]
    /\ folded \subseteq DOMAIN sections

\* No section behind the bootloader is larger than what it reserves.
ReservesCover ==
    \A i \in DOMAIN sections :
        InFront(i) \/ sections[i].Reserve = 0 \/ sections[i].Length <= sections[i].Reserve

\* The bytes that section i takes in the linked image.  The bootloader's
\* reservation is given to the header tables.
Extent(i) ==
    IF InFront(i) THEN sections[i].Length
    ELSE Greater(sections[i].Length, sections[i].Reserve)

\* In the image that is linked no section lies in another or in what another
\* reserves, in whatever way the two passes mix offsets, alignments,
\* reservations and continuations; unless a partition outgrows its reservation, or
\* an address beyond 4 GB has been cut to 32 bits.
SectionsApart ==
    ReservesCover /\ folded = {} =>
        \A i, k \in DOMAIN linked : i # k =>
            linked[i] + Extent(i) <= linked[k] \/ linked[k] + Extent(k) <= linked[i]

\* What is in front, and the addresses it gets, stay below 4 GB.
FrontUncut == \A i \in folded : ~InFront(i)

\* An image that has been laid out is written, also if partitions have been placed
\* beyond 4 GB: the output meets no section below the running address, unless the
\* bootloader or what outgrows it has a reservation.
NeverBackwards ==
    stage = "writing" /\ ReservesCover /\ FrontUncut
        /\ (\A i \in DOMAIN sections : sections[i].kind = "bootloader" => sections[i].Reserve = 0)
    => \A i \in DOMAIN sections : IsNext(i) => ~Backwards(i)

Pieces == {k \in DOMAIN file : file[k].section # 0}

\* How far a piece of the file is from the address its header gives.
Shift(k) == linked[file[k].section] + Skipped(file[k].section) - file[k].at

\* Every section ends where the next begins.
Gapless ==
    \A i, k \in DOMAIN linked :
        Before(i, k) /\ (\A l \in DOMAIN linked \ {i, k} : ~(Before(i, l) /\ Before(l, k)))
            => linked[k] = linked[i] + sections[i].Length

\* Every section is in the file where the headers say, up to the SMAP words that
\* are left out at its start, if gaps are filled or there are none, and no address
\* has been cut to 32 bits.
FoundWhereLinked ==
    file # <<>> /\ folded = {} /\ (smap.lastWidth # 0 \/ Gapless) => \A k, l \in Pieces : Shift(k) = Shift(l)

=============================================================================
