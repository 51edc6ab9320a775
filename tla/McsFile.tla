------------------------------ MODULE McsFile ------------------------------
(***************************************************************************)
(* The MCS implementation of the File interface.  A call is cut into       *)
(* records of at most LineLength bytes; a record carries an address of 16  *)
(* bits (here: below PageSize), and an extended linear address record is   *)
(* written whenever the upper part, pageAddress, changes.  In stacked mode *)
(* the loop itself notices that it has reached the end of the first device *)
(* and goes on at address 0 of the second file.                            *)
(*                                                                         *)
(* What is kept of a file is what a programmer of the flash device makes   *)
(* of it: the current page, the bytes it has put at each position, and the *)
(* end-of-file records.  A byte of the image stands for itself by its      *)
(* image address.                                                          *)
(***************************************************************************)
EXTENDS OutputFile, FiniteSets

CONSTANTS
    LineLength,    \* bytes of a record; twice as many in the parallel mode
    PageSize       \* addresses below one page address

ASSUME McsAssumption ==
    /\ LineLength \in Nat \ {0}
    /\ PageSize \in Nat \ {0}

VARIABLES
    files,         \* per file: its page, bytes at positions, end-of-file records
    busy,          \* the loop of Fill or Write is running
    lineAddress,
    endAddress,
    length,        \* bytes of the buffer left (Write)
    pageAddress,
    filePageAddr,  \* pageAddress of the files of a split that are not open
    newFile,       \* the second file of the stacked mode is being written
    eofrWritten

loopVars == <<busy, lineAddress, endAddress, length>>
mcsVars == <<vars, outputVars, files, loopVars, pageAddress, filePageAddr,
             newFile, eofrWritten>>

NoPage == -1
FillByte == -1

Parallel == qspi = "parallel"
Stacked == qspi = "stacked"

Line == IF Parallel THEN 2 * LineLength ELSE LineLength

McsInit ==
    /\ OutputInit
    /\ files = [f \in FileIds |-> [page |-> 0, data |-> {}, ends |-> 0, late |-> FALSE]]
    /\ busy = FALSE
    /\ lineAddress = 0 /\ endAddress = 0 /\ length = 0
    /\ pageAddress = NoPage
    /\ filePageAddr = [f \in {Boot, HeadersFile, PartitionFile} |-> NoPage]
    /\ newFile = FALSE /\ eofrWritten = FALSE

-----------------------------------------------------------------------------
\* Close saves the page address of the file it closes; Append restores that of
\* the file it opens, Open forgets them all.
SwitchPage ==
    CASE file' = file -> UNCHANGED <<pageAddress, filePageAddr>>
      [] file' # file /\ mode = "split" ->
            /\ pageAddress' = NoPage
            /\ filePageAddr' = [f \in DOMAIN filePageAddr |-> NoPage]
      [] OTHER ->
            /\ filePageAddr' = [filePageAddr EXCEPT ![file] = pageAddress]
            /\ pageAddress' = filePageAddr'[file']

Output ==
    /\ OutputNext
    /\ ~busy
    /\ SwitchPage
    /\ UNCHANGED <<files, loopVars, newFile, eofrWritten>>

\* A byte of the image at index k of the records of this call.
SourceByte(k) ==
    IF call.op = "Fill" THEN FillByte ELSE call.start + call.length - length + k

\* The address of a call in its own file.
InFile(address) == (address - splitOffset) % AddressModulus

\* Fill and Write up to their loop.  Fill moves the start of the gap by the
\* offset of the file, not its end, and is asked for by -fill only.
BeginCall ==
    /\ call.op \in {"Fill", "Write"}
    /\ ~busy
    /\ IF call.op = "Fill" /\ ~doFill
       THEN /\ Return
            /\ UNCHANGED loopVars
       ELSE /\ busy' = TRUE
            /\ lineAddress' = InFile(call.start)
            /\ endAddress' =
                 IF call.op = "Fill" THEN call.start + call.length
                 ELSE (InFile(call.start) + call.length) % AddressModulus
            /\ length' = call.length
            /\ UNCHANGED call
    /\ UNCHANGED <<vars, options, phase, cursor, written, file, splitOffset,
                   files, pageAddress, filePageAddr, newFile, eofrWritten>>

\* The loop has reached the end of the first device.
Crossing == Stacked /\ lineAddress >= QspiSize

LineAt == IF Crossing THEN lineAddress - QspiSize ELSE lineAddress

\* The end of the loop after a crossing: Write takes what is left of the buffer
\* from the start of the call.
EndAt ==
    IF ~Crossing THEN endAddress
    ELSE IF call.op = "Fill" THEN (endAddress - QspiSize) % AddressModulus
    ELSE (InFile(call.start) + length - QspiSize) % AddressModulus

Least(x, y) == IF x <= y THEN x ELSE y

\* Mutant: every record has the full length.
BytesToWriteLine == Line

\* Mutant: only whole words are written.
BytesToWriteWords ==
    LET n == Least(Line, IF call.op = "Fill" THEN EndAt - LineAt ELSE length)
    IN  n - (n % 4)

BytesToWrite ==
    LET n == Least(Line, IF call.op = "Fill" THEN EndAt - LineAt ELSE length)
    IN  IF Stacked /\ LineAt + n > QspiSize THEN QspiSize - LineAt ELSE n

PageShift == IF Parallel THEN 2 * PageSize ELSE PageSize

\* Mutant: the page is not halved for the two devices of the parallel mode.
NewPageUnshifted == LineAt \div PageSize

NewPage == LineAt \div PageShift

\* Mutant: the address is halved after it was cut to a page.
RecordAddressCut ==
    IF Parallel THEN (LineAt % PageSize) \div 2 ELSE LineAt % PageSize

\* The address field of a record: masked (with 18 bits in the parallel mode,
\* where 17 would do), halved there, and cut to its two bytes.
RecordAddress ==
    IF Parallel THEN ((LineAt % (4 * PageSize)) \div 2) % PageSize
    ELSE LineAt % PageSize

\* The file of the next record; the parallel mode writes to both files.
RecordFile == IF newFile' THEN SecondFlash ELSE file

\* A data record of n bytes, preceded by a page record if paged: byte(k) is its
\* k-th byte.
Recorded(f, base, paged, n, byte(_)) ==
    LET page == IF paged THEN NewPage ELSE files[f].page
    IN  [files[f] EXCEPT
            !.page = page,
            !.late = @ \/ (n > 0 /\ base.ends > 0),
            !.data = @ \cup {<<page * PageSize + RecordAddress + k, byte(k)>> :
                                k \in 0 .. (n - 1)}]

Ended(f) == [files[f] EXCEPT !.ends = @ + 1]

\* One turn of the loop.
Record ==
    /\ busy
    /\ lineAddress < endAddress
    /\ LET n     == BytesToWrite
           paged == NewPage # pageAddress
           f     == RecordFile
       IN  /\ newFile' = (newFile \/ Crossing)
           /\ eofrWritten' = (eofrWritten \/ Crossing)
           /\ files' =
                IF Parallel
                THEN [files EXCEPT
                        ![file] = Recorded(file, files[file], paged, n \div 2,
                                           LAMBDA k : SourceByte(2 * k)),
                        ![SecondFlash] = Recorded(SecondFlash, files[SecondFlash], paged,
                                                  n \div 2, LAMBDA k : SourceByte(2 * k + 1))]
                ELSE [g \in FileIds |->
                        CASE g = f -> Recorded(g, files[g], paged, n, SourceByte)
                          [] g = file /\ Crossing /\ ~eofrWritten -> Ended(g)
                          [] OTHER -> files[g]]
           /\ pageAddress' = NewPage
           /\ lineAddress' = LineAt + n
           /\ endAddress' = EndAt
           /\ length' = IF call.op = "Fill" THEN length ELSE length - n
    /\ UNCHANGED <<vars, outputVars, busy, filePageAddr>>

EndOfCall ==
    /\ busy
    /\ lineAddress >= endAddress
    /\ busy' = FALSE
    /\ Return
    /\ UNCHANGED <<vars, options, phase, cursor, written, file, splitOffset,
                   files, lineAddress, endAddress, length, pageAddress,
                   filePageAddr, newFile, eofrWritten>>

\* Mutant: the second device gets no end-of-file record.
EndFileFirstOnly ==
    /\ call.op = "End"
    /\ files' = [files EXCEPT ![file] = Ended(file)]
    /\ Return
    /\ UNCHANGED <<vars, options, phase, cursor, written, file, splitOffset,
                   loopVars, pageAddress, filePageAddr, newFile, eofrWritten>>

\* WritePostscript: the end-of-file record.
EndFile ==
    /\ call.op = "End"
    /\ files' =
         IF Parallel
         THEN [files EXCEPT ![file] = Ended(file), ![SecondFlash] = Ended(SecondFlash)]
         ELSE LET f == IF newFile THEN SecondFlash ELSE file
              IN  [files EXCEPT ![f] = Ended(f)]
    /\ Return
    /\ UNCHANGED <<vars, options, phase, cursor, written, file, splitOffset,
                   loopVars, pageAddress, filePageAddr, newFile, eofrWritten>>

McsNext == Output \/ BeginCall \/ Record \/ EndOfCall \/ EndFile

McsSpec == McsInit /\ [][McsNext]_mcsVars

\* One thread runs to the end: it is never kept from its next step.
McsFairSpec == McsSpec /\ WF_mcsVars(McsNext)

-----------------------------------------------------------------------------
\* What programming the devices with file f leaves at a position.
ReadBack(f, at) == {x[2] : x \in {y \in files[f].data : y[1] = at}}

\* Programming the files gives back every byte of every section at the address
\* the layout gave it, whatever the pages and records the loop has cut it into,
\* and no other record, of data or of filling, claims that place, as long as no
\* alignment mask has cut an address.  (-fill in a slave boot split is apart: see
\* SplitFillsGapsOnly.)
ImageReadBack ==
    FitsFlash /\ phase = "closed" /\ ~wrapped /\ ~(mode = "slaveboot" /\ doFill) =>
        \A i \in Index : \A b \in BytesOf(i) :
            ReadBack(HomeOf(i, b).file, HomeOf(i, b).at) = {b}

\* The same of the stacked mode alone.  help.h on dual_qspi_mode: "Two files are
\* generated boot_1.bin & boot_2.bin of 64MB & 56MB" for an image of 120MB, and
\* "Both the flashes can then be programmed independently."
StackedReadBack == qspi = "stacked" => ImageReadBack

\* Not one data record puts a byte of the image anywhere but at its own place,
\* at any time.  (A cut address can lie before the offset that is subtracted from
\* it in a slave boot split.)
NothingAstray ==
    (mode = "slaveboot" => ~wrapped) => \A f \in FileIds : \A x \in files[f].data :
        x[2] # FillByte =>
            \E i \in Index :
                /\ x[2] \in BytesOf(i)
                /\ HomeOf(i, x[2]) = [file |-> f, at |-> x[1]]

FillStaysInGaps ==
    status = "done" /\ ~wrapped => \A i \in Index : \A b \in BytesOf(i) :
        FillByte \notin ReadBack(HomeOf(i, b).file, HomeOf(i, b).at)

\* The comment on Fill in the loop of Output: "Fill the gap(if any) between
\* sections": a fill record never covers the place of a section's byte, which the
\* bounds of the last record of a gap could let happen.  (Slave boot is apart.)
FillsGapsOnly == mode # "slaveboot" => FillStaysInGaps

\* The same promise in a slave boot split.
SplitFillsGapsOnly == mode = "slaveboot" => FillStaysInGaps

EndedOnce ==
    phase = "closed" =>
        \A f \in FileIds :
            /\ files[f].data # {} => files[f].ends = 1
            /\ files[f].ends <= 1
            /\ ~files[f].late

\* WritePostscriptAndClose ends each file of a single image, both of them in the
\* parallel mode, and ProcessSplitMode those of a split, with one end-of-file
\* record, after every other record.
EndsOnce == mode # "slaveboot" => EndedOnce

\* The loop of the output ends, with the files closed, unless the layout has
\* been refused.
Terminates == <>(phase \in {"closed", "failed"} \/ status = "error")
=============================================================================
