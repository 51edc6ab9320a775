---------------------------- MODULE VersalImage ----------------------------
(***************************************************************************)
(* A Versal boot image from the BIF to the file.  KeyRolling builds the    *)
(* partitions; their sections, which the encryption and the hashes of the  *)
(* chunks have lengthened, join those of the header tables and are placed  *)
(* by VersalLayout; when the addresses are linked the meta header is       *)
(* encrypted, and the file is written.                                     *)
(***************************************************************************)
EXTENDS KeyRolling, VersalLayout

CONSTANTS
    BootHeaderLength,   \* sizeof(VersalBootHeaderStructure)
    TableLength,        \* image header table
    CertificateLength,  \* VERSAL_AC_SIZE
    SignLength,         \* SIGN_LENGTH_VERSAL
    ShaPad              \* SHA3_PAD_LENGTH

\* [offset], [alignment] and [reserve] of a partition, 0 for none.
Attributes == [offset : Nat, alignment : {0} \cup Alignments, reserve : Nat]

ASSUME ImageAssumption ==
    /\ {BootHeaderLength, TableLength, CertificateLength, SignLength} \subseteq Nat
    /\ ShaPad \in Nat \ {0}
    /\ SignLength <= CertificateLength /\ SmapLength <= BootHeaderLength
    /\ \A length \in {BootHeaderLength, CertificateLength} : length % DefaultAlignment = 0

\* The meta header comes last in the plan.  ParsePartitionDataToImage refuses a second
\* bootloader, and ImageHeader::Build attributes that are no multiples of the
\* default alignment, and [alignment] with [offset].  BIF_File::Process takes the
\* SMAP words of slave SLRs away, whose images are boot images if they have a
\* bootloader.
ASSUME AttributeAssumption ==
    \A input \in Inputs :
        /\ input.smap \in SmapType
        /\ input.parts \in Seq(Attributes)
        /\ Len(input.parts) = Len(input.plan)
        /\ \A i, j \in DOMAIN input.plan :
              input.plan[i].kind = "bootloader" /\ input.plan[j].kind = "bootloader" => i = j
        /\ \/ input.smap.slaveBoot \/ input.smap.width = input.smap.lastWidth
           \/ \A j \in DOMAIN input.plan : input.plan[j].kind # "bootloader"
        /\ \A j \in DOMAIN input.plan :
              LET a == input.parts[j]
              IN  /\ input.plan[j].kind = "metaheader" <=> j = Len(input.plan)
                  /\ \A v \in {a.offset, a.alignment, a.reserve} : v % DefaultAlignment = 0
                  /\ a.alignment # 0 => a.offset = 0

VARIABLE parts      \* the attributes of the partitions

-----------------------------------------------------------------------------
(* The section list.                                                       *)

Section(kind, length) ==
    [kind |-> kind, Length |-> length, Offset |-> 0, Reserve |-> 0, Alignment |-> 0,
     continuation |-> FALSE]

IsBootloader(j) == plan[j].kind = "bootloader"

HasBootloader == \E j \in DOMAIN plan : IsBootloader(j)

IsAuthenticated(j) == plan[j].authentication = "signed"

\* A signed or checksummed bootloader is padded for the hash, which covers its
\* certificate but for the signature.
BootloaderPad(j) ==
    LET hashed == SecuredLength(j) +
                  (IF IsAuthenticated(j) THEN CertificateLength - SignLength ELSE 0)
    IN  IF IsAuthenticated(j) \/ plan[j].checksum THEN ShaPad - (hashed % ShaPad) ELSE 0

\* Section::Length of a partition once it is built: with the padding and the
\* checksum of a bootloader, or with the hashes between the chunks.
BuiltLength(j) ==
    SecuredLength(j) +
    (IF IsBootloader(j)
     THEN BootloaderPad(j) + (IF plan[j].checksum THEN HashLength ELSE 0)
     ELSE IF Hashed(j) THEN HashLength * (Len(chunks[j]) - 1) ELSE 0)

\* The offset and reserve attributes apply to the first partition of an image;
\* alignment applies to all.
PartitionSection(j) ==
    LET first == \A i \in 1 .. (j - 1) : plan[i].image # plan[j].image
        a     == parts[j]
    IN  [Section(plan[j].kind, BuiltLength(j)) EXCEPT
            !.Offset = IF first THEN a.offset ELSE 0,
            !.Reserve = IF first THEN a.reserve ELSE 0,
            !.Alignment = a.alignment,
            !.continuation = ~first]

Certificate(j) ==
    IF ~IsAuthenticated(j) THEN <<>>
    ELSE <<Section(IF IsBootloader(j) THEN "acBootloader" ELSE "certificate",
                   CertificateLength)>>

\* VersalPartition::Build puts the checksum and the certificate before the
\* partition; the checksum of a bootloader is part of it.
PartitionSections(j) ==
    (IF plan[j].checksum /\ ~IsBootloader(j)
     THEN <<Section("checksum", HashLength)>> ELSE <<>>) \o
    Certificate(j) \o <<PartitionSection(j)>>

\* Without a bootloader there is no boot header, and without SMAP words nothing
\* stands for it.  The meta header is set aside with its overhead.
HeaderSections ==
    LET m      == Len(plan)
        length == Total(plan[m].lengths)
        secure == IF plan[m].encrypted
                  THEN (Len(BlocksList(m, length)) + 1) * Overhead ELSE 0
    IN  (IF HasBootloader THEN <<Section("BootHeader", BootHeaderLength)>>
         ELSE IF smap.width # 0 THEN <<Section("SmapHeader", SmapLength)>> ELSE <<>>) \o
        <<Section("table", TableLength)>> \o Certificate(m) \o
        <<Section("metaheader", length + secure)>>

CacheSections ==
    HeaderSections \o FlattenSeq([j \in 1 .. (Len(plan) - 1) |-> PartitionSections(j)])

-----------------------------------------------------------------------------
ImageInit ==
    /\ \E input \in Inputs : InitOf(input) /\ smap = input.smap /\ parts = input.parts
    /\ stage = "building"
    /\ sections = <<>> /\ Address = <<>>
    /\ visited = {} /\ running = 0 /\ reserved = 0
    /\ linked = <<>> /\ file = <<>> /\ folded = {}

\* All partitions are built and only the meta header is left.
PartitionsBuilt == At("start") /\ job = Len(plan)

BuildPartitions ==
    /\ stage = "building" /\ ~PartitionsBuilt
    /\ Next
    /\ UNCHANGED <<layoutVars, parts>>

StartStacking ==
    /\ stage = "building" /\ PartitionsBuilt
    /\ sections' = CacheSections
    /\ Address' = [i \in DOMAIN CacheSections |-> CacheSections[i].Offset]
    /\ stage' = "stacking"
    /\ UNCHANGED <<vars, parts, smap, visited, running, reserved, linked, file, folded>>

LayOut == (Stack \/ Restack) /\ UNCHANGED <<vars, parts>>

\* The meta header is encrypted when all its fields are linked.
EncryptMetaHeader ==
    /\ stage = "linked" /\ status = "building"
    /\ Next
    /\ UNCHANGED <<layoutVars, parts>>

Output ==
    /\ (StartWriting /\ status = "done") \/ Write
    /\ UNCHANGED <<vars, parts>>

Over == stage \in {"written", "failed"} \/ status \in {"error", "crashed"}

\* The process has ended.
Ended == Over /\ UNCHANGED <<vars, layoutVars, parts>>

ImageNext ==
    BuildPartitions \/ StartStacking \/ LayOut \/ EncryptMetaHeader \/ Output \/ Ended

ImageSpec == ImageInit /\ [][ImageNext]_<<vars, layoutVars, parts>>

-----------------------------------------------------------------------------
ImageTypeOK ==
    /\ KeyRollingTypeOK
    /\ stage # "building" => LayoutTypeOK
    /\ \A k \in DOMAIN file : file[k].section \in {0} \cup DOMAIN sections

=============================================================================
