----------------------------- MODULE OutputFile -----------------------------
(***************************************************************************)
(* Writing a laid-out boot image: OutputFile::Output walks the sections    *)
(* that SectionLayout has placed and makes one call of the File interface  *)
(* after the other: Fill for a gap, Write for a section, and the           *)
(* postscript at the end.  Three modes are modelled:                       *)
(*   - "normal": one image, which the Dual QSPI modes spread over the two  *)
(*     files of the two flash devices;                                     *)
(*   - "split": a file for each partition but the bootloader (split mode   *)
(*     normal), of which the loop ends one before it opens the next;       *)
(*   - "slaveboot": a boot file, a headers file and a partitions file,     *)
(*     among which the loop switches with Close and Append.                *)
(* BinFile and McsFile complete the module with the two implementations of *)
(* the File interface.                                                     *)
(***************************************************************************)
EXTENDS SectionLayout

CONSTANTS
    OutputModes,    \* modes explored: a subset of {"normal", "split", "slaveboot"}
    QspiModes,      \* a subset of {"none", "parallel", "stacked"}
    QspiSize,       \* bytes of one flash device
    FillOptions     \* values of the -fill option explored

ASSUME OutputAssumption ==
    /\ OutputModes \subseteq {"normal", "split", "slaveboot"}
    /\ QspiModes \subseteq {"none", "parallel", "stacked"}
    /\ QspiSize \in Nat \ {0}
    /\ FillOptions \subseteq BOOLEAN

\* The files of a run: fileIndex of the slave boot split, the file of the second
\* flash device, and the file of a partition, which takes its name from it.
Boot == 0
HeadersFile == 1
PartitionFile == 2
SecondFlash == 3
OwnFile(i) == SecondFlash + i
FileIds == {Boot, HeadersFile, PartitionFile, SecondFlash} \cup {OwnFile(i) : i \in Index}

VARIABLES
    mode,          \* OutputFile::mode
    qspi,          \* qspiDualMode
    doFill,        \* Options::doFill
    toSplit,       \* split: the sections that are partitions and not the FSBL
    phase,         \* "layout", "output", "closing", "closed" or "failed"
    cursor,        \* sections already written
    written,       \* runningAddress of the loop
    file,          \* the file the next call writes to
    splitOffset,   \* what the split mode subtracts from an address
    call           \* the call of the File interface in progress

options == <<mode, qspi, doFill, toSplit>>
outputVars == <<options, phase, cursor, written, file, splitOffset, call>>

NoCall == [op |-> "none", start |-> 0, length |-> 0]

OutputInit ==
    /\ Init
    /\ \A i, j \in Index :      \* the bootloader is the first partition
          /\ \E b \in Index : sections[b].kind = "bootloader"
          /\ sections[i].kind = "bootloader" /\ j < i =>
                sections[j].kind \in {"BootHeader", "header"}
    /\ mode \in OutputModes
    /\ qspi \in QspiModes
    /\ mode # "normal" => qspi = "none"
    /\ doFill \in FillOptions
    /\ toSplit \in SUBSET {i \in Index : sections[i].kind = "other"}
    /\ mode # "split" => toSplit = {}
    /\ phase = "layout"
    /\ cursor = 0
    /\ written = 0
    /\ file = Boot
    /\ splitOffset = 0
    /\ call = NoCall

\* The image is placed first; StackAndAlign is over when Output is called.
Layout ==
    /\ phase = "layout"
    /\ Next
    /\ UNCHANGED outputVars

Open ==
    /\ phase = "layout"
    /\ status = "done"
    /\ phase' = "output"
    /\ UNCHANGED <<vars, options, cursor, written, file, splitOffset, call>>

-----------------------------------------------------------------------------
\* Where ProcessSplitSlaveBootMode sends a section: what is neither a partition
\* nor a certificate goes with the headers.  And the offset of each file.
SlaveFile(i) ==
    CASE sections[i].kind \in {"BootHeader", "bootloader", "bootloaderAC"} -> Boot
      [] sections[i].kind \in {"header", "checksum"} -> HeadersFile
      [] OTHER -> PartitionFile

SlaveOffset(f) ==
    CASE f = Boot -> sizes.allHeader
      [] f = HeadersFile -> sizes.bootheader
      [] OTHER -> sizes.bootheader + sizes.bootloader + sizes.allHeader

Current == cursor + 1

InLoop == phase = "output" /\ call = NoCall /\ cursor < NumSections

BackwardsError ==
    /\ InLoop
    /\ Address[Current] < written
    /\ phase' = "failed"
    /\ UNCHANGED <<vars, options, cursor, written, file, splitOffset, call>>

\* Mutant: the gap before a section is filled after the switch of files.
FillAfterSwitch ==
    /\ InLoop
    /\ Address[Current] > written
    /\ call' = [op |-> "Fill", start |-> written, length |-> Address[Current] - written]
    /\ written' = Address[Current]
    /\ IF mode = "slaveboot"
       THEN file' = SlaveFile(Current) /\ splitOffset' = SlaveOffset(SlaveFile(Current))
       ELSE UNCHANGED <<file, splitOffset>>
    /\ UNCHANGED <<vars, options, phase, cursor>>

\* The gap is filled in the file of the section before it.
FillGap ==
    /\ InLoop
    /\ Address[Current] > written
    /\ call' = [op |-> "Fill", start |-> written, length |-> Address[Current] - written]
    /\ written' = Address[Current]
    /\ UNCHANGED <<vars, options, phase, cursor, file, splitOffset>>

EndCall == [op |-> "End", start |-> 0, length |-> 0]

\* ProcessSplitMode: a partition ends the file before it, ...
MustSplit == Current \in toSplit /\ file # OwnFile(Current)

EndSplitFile ==
    /\ InLoop
    /\ Address[Current] = written
    /\ MustSplit
    /\ call' = EndCall
    /\ phase' = "switching"
    /\ UNCHANGED <<vars, options, cursor, written, file, splitOffset>>

\* ... and opens one of its own.
OpenSplitFile ==
    /\ phase = "switching"
    /\ call = NoCall
    /\ phase' = "output"
    /\ file' = OwnFile(Current)
    /\ UNCHANGED <<vars, options, cursor, written, splitOffset, call>>

\* The boot header stays in the file that Open created; any other section of a
\* slave boot image closes the current file and appends to its own.
WriteSection ==
    /\ InLoop
    /\ Address[Current] = written
    /\ ~MustSplit
    /\ IF mode = "slaveboot" /\ sections[Current].kind # "BootHeader"
       THEN /\ file' = SlaveFile(Current)
            /\ splitOffset' = SlaveOffset(SlaveFile(Current))
       ELSE UNCHANGED <<file, splitOffset>>
    /\ call' = [op |-> "Write", start |-> Address[Current],
                length |-> sections[Current].Length]
    /\ written' = End(Current)
    /\ cursor' = Current
    /\ UNCHANGED <<vars, options, phase>>

\* WritePostscriptAndClose: the postscript goes to the file written last, ...
Postscript ==
    /\ phase = "output"
    /\ call = NoCall
    /\ cursor = NumSections
    /\ call' = EndCall
    /\ phase' = "closing"
    /\ UNCHANGED <<vars, options, cursor, written, file, splitOffset>>

\* ... then, in slave boot mode, to the boot file and to the headers file.
ClosePhases ==
    [p \in {"closing", "closingBoot", "closingHeaders"} |->
        CASE mode = "slaveboot" /\ p = "closing" ->
                [phase |-> "closingBoot", file |-> Boot]
          [] mode = "slaveboot" /\ p = "closingBoot" ->
                [phase |-> "closingHeaders", file |-> HeadersFile]
          [] OTHER -> [phase |-> "closed", file |-> file]]

CloseNext ==
    /\ phase \in DOMAIN ClosePhases
    /\ call = NoCall
    /\ phase' = ClosePhases[phase].phase
    /\ file' = ClosePhases[phase].file
    /\ call' = IF phase' = "closed" THEN NoCall ELSE EndCall
    /\ UNCHANGED <<vars, options, cursor, written, splitOffset>>

\* A call of the File interface returns.
Return == call' = NoCall

OutputNext ==
    \/ Layout \/ Open \/ BackwardsError \/ FillGap
    \/ EndSplitFile \/ OpenSplitFile \/ WriteSection \/ Postscript \/ CloseNext

\* The loop over any implementation of the File interface, of which it only
\* needs that a call returns.
CallReturns ==
    /\ call # NoCall
    /\ Return
    /\ UNCHANGED <<vars, options, phase, cursor, written, file, splitOffset>>

OutputSpec == OutputInit /\ [][OutputNext \/ CallReturns]_<<vars, outputVars>>

-----------------------------------------------------------------------------
BytesOf(i) == Address[i] .. (End(i) - 1)

\* The image fits the devices it is meant for.
FitsFlash == qspi = "stacked" => TotalSize <= 2 * QspiSize

\* What the header tables of a slave boot image subtract from the address of a
\* section they point to (Link of the boot header, the image header table and
\* the partition headers).
LinkedOffset(i) ==
    CASE sections[i].kind = "BootHeader" -> 0
      [] sections[i].kind \in {"bootloader", "bootloaderAC"} -> sizes.allHeader
      [] sections[i].kind \in {"header", "checksum"} -> sizes.bootheader
      [] OTHER -> sizes.bootheader + sizes.allHeader + sizes.bootloader

\* The partition that section i follows in a split: 0 if it is in the boot file.
Leading(i) ==
    CHOOSE p \in 0 .. i :
        /\ p \in toSplit \cup {0}
        /\ \A q \in toSplit : q <= i => q <= p

\* Where byte b of section i belongs: the file and the address in it.
HomeOf(i, b) ==
    CASE mode = "slaveboot" ->
            [file |-> SlaveFile(i), at |-> b - LinkedOffset(i)]
      [] mode = "split" /\ Leading(i) # 0 ->
            [file |-> OwnFile(Leading(i)), at |-> b]
      [] qspi = "parallel" ->
            [file |-> IF b % 2 = 0 THEN Boot ELSE SecondFlash, at |-> b \div 2]
      [] qspi = "stacked" /\ b >= QspiSize ->
            [file |-> SecondFlash, at |-> b - QspiSize]
      [] OTHER -> [file |-> Boot, at |-> b]

\* The layout and the writer agree: the writer never meets a section that starts
\* before the end of the one it has written ("Sequential addresses are going
\* backwards!").
NeverBackwards == ~wrapped => phase # "failed"
=============================================================================
