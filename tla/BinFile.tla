------------------------------ MODULE BinFile ------------------------------
(***************************************************************************)
(* The BIN implementation of the File interface: a file is a stream, so a  *)
(* byte's position is how many bytes were put before it, whatever address  *)
(* the caller names.  A byte of the image stands for itself by its image   *)
(* address; FillByte is the fill byte.                                     *)
(***************************************************************************)
EXTENDS OutputFile

VARIABLE files    \* per file: its size, and the bytes at their positions

binVars == <<vars, outputVars, files>>

FillByte == -1

Dual == qspi = "parallel" \/ (qspi = "stacked" /\ TotalSize > QspiSize)

BinInit ==
    /\ OutputInit
    /\ files = [f \in FileIds |-> [size |-> 0, data |-> {}]]

\* The n bytes that a call puts in a file: byte(k) is the k-th of them.
Put(f, n, byte(_)) ==
    [size |-> files[f].size + n,
     data |-> files[f].data \cup {<<files[f].size + k, byte(k)>> : k \in 0 .. (n - 1)}]

\* The byte of the caller's buffer at index k.
Buffer(k) == IF call.op = "Fill" THEN FillByte ELSE call.start + k

\* Mutant: the part for the second device starts again from the buffer's start.
RestFromStart(k, first) == Buffer(k)

Rest(k, first) == Buffer(first + k)

\* Mutant: the whole call goes to the device where it starts.
FirstPartUnsplit == IF call.start < QspiSize THEN call.length ELSE 0

\* How much of a stacked call goes to the first device.
FirstPart ==
    IF call.start + call.length <= QspiSize THEN call.length
    ELSE IF call.start <= QspiSize THEN QspiSize - call.start
    ELSE 0

PutCall ==
    /\ call.op \in {"Fill", "Write"}
    /\ files' =
         LET n     == call.length
             first == FirstPart
         IN  CASE qspi = "parallel" ->
                    [files EXCEPT
                        ![file] = Put(file, n \div 2, LAMBDA k : Buffer(2 * k)),
                        ![SecondFlash] =
                            Put(SecondFlash, n \div 2, LAMBDA k : Buffer(2 * k + 1))]
               [] qspi = "stacked" ->
                    [files EXCEPT
                        ![file] = Put(file, first, Buffer),
                        ![SecondFlash] = Put(SecondFlash, n - first,
                                             LAMBDA k : Rest(k, first))]
               [] OTHER -> [files EXCEPT ![file] = Put(file, n, Buffer)]
    /\ Return
    /\ UNCHANGED <<vars, options, phase, cursor, written, file, splitOffset>>

\* WritePostscript does nothing.
EndFile ==
    /\ call.op = "End"
    /\ Return
    /\ UNCHANGED <<vars, options, phase, cursor, written, file,
                   splitOffset, files>>

BinNext ==
    \/ OutputNext /\ UNCHANGED files
    \/ PutCall
    \/ EndFile

BinSpec == BinInit /\ [][BinNext]_binVars

-----------------------------------------------------------------------------
\* A stream does not name addresses: the file of a partition starts with it.
StreamHome(i, b) ==
    IF mode = "split" /\ Leading(i) # 0
    THEN [HomeOf(i, b) EXCEPT !.at = b - Address[Leading(i)]]
    ELSE HomeOf(i, b)

\* In a single image, in both Dual QSPI modes and in the files of a split every
\* byte written so far is at the place the flash device reads it from, gaps and
\* boundary crossings included, and no byte is anywhere else.
BytesAtHome ==
    mode # "slaveboot" /\ FitsFlash /\ call = NoCall =>
        \A i \in 1 .. cursor : \A b \in BytesOf(i) :
            LET h == StreamHome(i, b)
            IN  \A f \in FileIds, at \in 0 .. TotalSize :
                    <<at, b>> \in files[f].data <=> f = h.file /\ at = h.at

\* help.h on dual_qspi_mode: the files of the two devices hold half of the image
\* each in parallel, the first size bytes and the rest when stacked; nothing is
\* written to a second file that Open has not created.
DeviceSizes ==
    mode = "normal" /\ phase = "closed" /\ ~wrapped =>
        CASE qspi = "parallel" -> files[SecondFlash].size = files[Boot].size
          [] qspi = "stacked" /\ Dual /\ written > QspiSize -> files[Boot].size = QspiSize
          [] OTHER -> files[SecondFlash].size = 0

NoUserGaps == \A i \in Index :
    sections[i].Offset = 0 /\ sections[i].Reserve = 0 /\ sections[i].Alignment = 0

\* In a slave boot split the headers' and partitions' offsets that the header
\* tables record (the image address less the offset of the file) are their
\* positions in the file, as long as no attribute opens a gap between partitions
\* and no alignment mask has cut an address.
\* (Checksums are apart: they are appended to the headers file.)
SplitOffsetsHold ==
    mode = "slaveboot" /\ NoUserGaps /\ ~wrapped /\ call = NoCall =>
        \A i \in {j \in 1 .. cursor : sections[j].kind # "checksum"} :
        \A b \in BytesOf(i) :
            LET h == HomeOf(i, b) IN <<h.at, b>> \in files[h.file].data

=============================================================================
