---------------------------- MODULE McsFileProofs ----------------------------
(***************************************************************************)
(* The MCS writer, for every image, length of a record and size of a page. *)
(* Each file ends once in every mode but slave boot, the stacked mode      *)
(* included.  Without the stacked mode, no record puts a byte astray, fill *)
(* records stay in the gaps, and programming the files gives the image     *)
(* back.                                                                   *)
(***************************************************************************)
EXTENDS McsFile, OutputFileProofs, WellFoundedInduction

\* The MCS writer is an implementation of the File interface: it runs the loop.
THEOREM McsRunsLoop == McsSpec => OutputSpec
  <1>1. McsInit => OutputInit
    BY DEF McsInit
  <1>2. [McsNext]_mcsVars => [OutputNext \/ CallReturns]_<<vars, outputVars>>
    <2>1. Output => OutputNext
      BY DEF Output
    <2>2. BeginCall => CallReturns \/ UNCHANGED <<vars, outputVars>>
      BY DEF BeginCall, CallReturns, NoCall, outputVars
    <2>3. Record => UNCHANGED <<vars, outputVars>>
      BY DEF Record
    <2>4. EndOfCall => CallReturns \/ UNCHANGED <<vars, outputVars>>
      BY DEF EndOfCall, CallReturns, Return, outputVars
    <2>5. EndFile => CallReturns
      BY DEF EndFile, CallReturns, NoCall
    <2> QED BY <2>1, <2>2, <2>3, <2>4, <2>5 DEF McsNext, mcsVars
  <1> QED BY <1>1, <1>2, PTL DEF McsSpec, OutputSpec

\* So an MCS image that the layout has accepted is never given up half written.
THEOREM McsForward == McsSpec => []NeverBackwards
  BY McsRunsLoop, Forward, PTL

-----------------------------------------------------------------------------
(* Types.                                                                  *)

SlaveFiles == {Boot, HeadersFile, PartitionFile}

Contents == [page : Nat, data : SUBSET (Nat \X Int), ends : Nat, late : BOOLEAN]

McsTypeOK ==
    /\ files \in [FileIds -> Contents]
    /\ busy \in BOOLEAN /\ newFile \in BOOLEAN /\ eofrWritten \in BOOLEAN
    /\ lineAddress \in Nat /\ endAddress \in Nat /\ length \in Nat
    /\ pageAddress \in Int
    /\ filePageAddr \in [SlaveFiles -> Int]
    /\ splitOffset \in Int
    /\ busy => call.op \in {"Fill", "Write"}
    /\ call.op = "End" =>
          phase \in {"switching", "closing", "closingBoot", "closingHeaders"}

-----------------------------------------------------------------------------
(* One turn of the loop.                                                   *)

\* What a turn works with are numbers.
LEMMA TurnNumbers ==
    ASSUME LoopInv, McsTypeOK, busy, lineAddress < endAddress
    PROVE  /\ LineAt \in Nat /\ EndAt \in Nat /\ BytesToWrite \in Int
           /\ LineAt + BytesToWrite \in Nat
           /\ NewPage \in Nat /\ RecordAddress \in Nat
           /\ call.op = "Write" => length - BytesToWrite \in Nat
           /\ \A k \in Int : SourceByte(k) \in Int
  <1> USE SizeAssumption, OutputAssumption, McsAssumption
  <1>0. AddressModulus \in Nat \ {0}
    BY DEF Addresses
  <1>1. LineAt \in Nat
    BY DEF LineAt, Crossing, McsTypeOK
  <1>2. call.start \in Nat /\ call.length \in Nat /\ call.op \in {"Fill", "Write"}
    BY CallNames DEF McsTypeOK, LoopInv, CallInv, CallOK
  <1>3. InFile(call.start) \in Nat
    <2>1. call.start - splitOffset \in Int
      BY <1>2 DEF McsTypeOK
    <2> QED BY <1>0, <2>1 DEF InFile
  <1>4. EndAt \in Nat
    <2>1. endAddress - QspiSize \in Int /\ (InFile(call.start) + length) - QspiSize \in Int
      BY <1>3 DEF McsTypeOK
    <2>2. (endAddress - QspiSize) % AddressModulus \in Nat
      BY <1>0, <2>1
    <2>3. (InFile(call.start) + length - QspiSize) % AddressModulus \in Nat
      BY <1>0, <1>3, <2>1 DEF McsTypeOK
    <2> QED BY <2>2, <2>3 DEF EndAt, McsTypeOK
  <1>5. Line \in Nat \ {0}
    BY DEF Line
  <1> DEFINE n == Least(Line, IF call.op = "Fill" THEN EndAt - LineAt ELSE length)
  <1>6. n \in Int /\ LineAt + n \in Nat /\ (call.op = "Write" => n <= length)
    BY <1>1, <1>2, <1>4, <1>5 DEF Least, McsTypeOK
  <1>7. BytesToWrite = IF Stacked /\ LineAt + n > QspiSize THEN QspiSize - LineAt ELSE n
    BY DEF BytesToWrite
  <1> HIDE DEF n
  <1>8. /\ BytesToWrite \in Int /\ LineAt + BytesToWrite \in Nat
        /\ call.op = "Write" => length - BytesToWrite \in Nat
    BY <1>1, <1>6, <1>7 DEF McsTypeOK
  <1>9. PageShift \in Nat \ {0}
    BY DEF PageShift
  <1>10. NewPage \in Nat
    BY <1>1, <1>9 DEF NewPage
  <1>11. RecordAddress \in Nat
    <2>1. LineAt % (4 * PageSize) \in Nat
      BY <1>1
    <2>2. (LineAt % (4 * PageSize)) \div 2 \in Nat
      BY <2>1
    <2> QED BY <1>1, <2>2 DEF RecordAddress
  <1>12. \A k \in Int : SourceByte(k) \in Int
    BY <1>2 DEF SourceByte, FillByte, McsTypeOK
  <1> QED BY <1>1, <1>4, <1>8, <1>10, <1>11, <1>12

Paged == NewPage # pageAddress

\* Where the record of a turn starts in file f.
Base(f) == (IF Paged THEN NewPage ELSE files[f].page) * PageSize + RecordAddress

TurnFile == IF newFile \/ Crossing THEN SecondFlash ELSE file

\* What a data record with these bytes leaves of file f.
Gains(f, bytes) ==
    /\ files'[f].data = files[f].data \cup bytes
    /\ files'[f].page = IF Paged THEN NewPage ELSE files[f].page
    /\ files'[f].ends = files[f].ends
    /\ files[f].ends = 0 => files'[f].late = files[f].late

\* Outside the parallel mode a turn puts its bytes in one file, and may end the first.
LEMMA PlainTurn ==
    ASSUME LoopInv, McsTypeOK, Record, ~Parallel
    PROVE  /\ files' \in [FileIds -> Contents]
           /\ TurnFile \in FileIds
           /\ Gains(TurnFile, {<<Base(TurnFile) + k, SourceByte(k)>> : k \in 0 .. (BytesToWrite - 1)})
           /\ \A g \in FileIds \ {TurnFile} :
                 files'[g] = IF g = file /\ Crossing /\ ~eofrWritten THEN Ended(g) ELSE files[g]
  <1> DEFINE f == TurnFile
             n == BytesToWrite
             bytes == {<<Base(f) + k, SourceByte(k)>> : k \in 0 .. (n - 1)}
             page == IF Paged THEN NewPage ELSE files[f].page
             late == files[f].late \/ (n > 0 /\ files[f].ends > 0)
             new == [files[f] EXCEPT !.page = page, !.late = late, !.data = @ \cup bytes]
  <1> USE McsAssumption
  <1>1. f \in FileIds
    BY FileNames DEF TurnFile
  <1>2. /\ files' = [g \in FileIds |-> files'[g]]
        /\ files'[f] = new
        /\ \A g \in FileIds \ {f} :
              files'[g] = IF g = file /\ Crossing /\ ~eofrWritten THEN Ended(g) ELSE files[g]
    <2>1. RecordFile = f
      BY DEF Record, RecordFile, TurnFile
    <2>2. Recorded(f, files[f], Paged, n, SourceByte) = new
      BY DEF Recorded, Base
    <2>3. files' = [g \in FileIds |->
                    CASE g = f -> Recorded(g, files[g], Paged, n, SourceByte)
                      [] g = file /\ Crossing /\ ~eofrWritten -> Ended(g)
                      [] OTHER -> files[g]]
      BY <2>1 DEF Record, Paged
    <2>4. files' = [g \in FileIds |-> files'[g]]
      BY <2>3
    <2>5. f = file => ~Crossing
      BY FileNames DEF TurnFile
    <2>6. files'[f] = Recorded(f, files[f], Paged, n, SourceByte)
      BY <1>1, <2>3, <2>5
    <2>7. \A g \in FileIds \ {f} :
              files'[g] = IF g = file /\ Crossing /\ ~eofrWritten THEN Ended(g) ELSE files[g]
      BY <2>3
    <2> QED BY <2>2, <2>4, <2>6, <2>7
  <1>3. bytes \subseteq Nat \X Int /\ page \in Nat /\ n \in Int
    <2>1. NewPage \in Nat /\ RecordAddress \in Nat /\ n \in Int /\ \A k \in Int : SourceByte(k) \in Int
      BY TurnNumbers DEF Record
    <2>2. page \in Nat
      BY <1>1, <2>1 DEF McsTypeOK, Contents
    <2>3. page * PageSize \in Nat
      BY <2>2
    <2>4. Base(f) \in Nat
      BY <2>1, <2>3 DEF Base
    <2>5. ASSUME NEW k \in 0 .. (n - 1) PROVE <<Base(f) + k, SourceByte(k)>> \in Nat \X Int
      BY <2>1, <2>4
    <2> QED BY <2>1, <2>2, <2>5
  <1>4. files[f] \in Contents
    BY <1>1 DEF McsTypeOK
  <1>10. late \in BOOLEAN /\ (files[f].ends = 0 => late = files[f].late)
    BY <1>4 DEF Contents
  <1> HIDE DEF bytes, page, late
  <1>5. /\ new \in Contents /\ new.data = files[f].data \cup bytes /\ new.page = page
        /\ new.ends = files[f].ends
        /\ files[f].ends = 0 => new.late = files[f].late
    <2>3. files[f].data \cup bytes \in SUBSET (Nat \X Int) /\ files[f].ends \in Nat
      BY <1>3, <1>4 DEF Contents
    <2>4. /\ new.data = files[f].data \cup bytes /\ new.page = page
          /\ new.ends = files[f].ends /\ new.late = late
      BY <1>4 DEF Contents
    <2>5. new \in Contents
      BY <1>3, <1>4, <1>10, <2>3 DEF Contents
    <2> QED BY <1>10, <2>4, <2>5
  <1> HIDE DEF new
  <1>7. Gains(f, bytes)
    BY <1>2, <1>5 DEF Gains, page
  <1>9. files' \in [FileIds -> Contents]
    <2>1. \A g \in FileIds : Ended(g) \in Contents /\ files[g] \in Contents
      BY DEF McsTypeOK, Contents, Ended
    <2> QED BY <1>2, <1>5, <2>1
  <1> QED BY <1>1, <1>2, <1>7, <1>9 DEF bytes

\* In the parallel mode a turn deals its bytes out to both files.
LEMMA ParallelTurn ==
    ASSUME LoopInv, McsTypeOK, Record, Parallel
    PROVE  LET half == BytesToWrite \div 2
           IN  /\ files' \in [FileIds -> Contents]
               /\ Gains(Boot, {<<Base(Boot) + k, SourceByte(2 * k)>> : k \in 0 .. (half - 1)})
               /\ Gains(SecondFlash, {<<Base(SecondFlash) + k, SourceByte(2 * k + 1)>> :
                                         k \in 0 .. (half - 1)})
               /\ \A g \in FileIds \ {Boot, SecondFlash} : files'[g] = files[g]
  <1> DEFINE n == BytesToWrite \div 2
             page(f) == IF Paged THEN NewPage ELSE files[f].page
             first == {<<Base(Boot) + k, SourceByte(2 * k)>> : k \in 0 .. (n - 1)}
             second == {<<Base(SecondFlash) + k, SourceByte(2 * k + 1)>> : k \in 0 .. (n - 1)}
             late(f) == files[f].late \/ (n > 0 /\ files[f].ends > 0)
             new(f, bytes) ==
                [files[f] EXCEPT !.page = page(f), !.late = late(f), !.data = @ \cup bytes]
  <1> USE McsAssumption
  <1>1. file = Boot /\ Boot \in FileIds /\ SecondFlash \in FileIds /\ Boot # SecondFlash
    BY FileNames DEF Parallel
  <1>2. files' = [files EXCEPT ![Boot] = new(Boot, first), ![SecondFlash] = new(SecondFlash, second)]
    <2>1. Recorded(Boot, files[Boot], Paged, n, LAMBDA k : SourceByte(2 * k)) = new(Boot, first)
      BY DEF Recorded, Base
    <2>2. Recorded(SecondFlash, files[SecondFlash], Paged, n, LAMBDA k : SourceByte(2 * k + 1))
             = new(SecondFlash, second)
      BY DEF Recorded, Base
    <2>3. files' = [files EXCEPT
                     ![Boot] = Recorded(Boot, files[Boot], Paged, n, LAMBDA k : SourceByte(2 * k)),
                     ![SecondFlash] = Recorded(SecondFlash, files[SecondFlash], Paged, n,
                                               LAMBDA k : SourceByte(2 * k + 1))]
      BY <1>1 DEF Record, Paged
    <2> QED BY <2>1, <2>2, <2>3
  <1>3. /\ first \subseteq Nat \X Int /\ second \subseteq Nat \X Int /\ n \in Int
        /\ page(Boot) \in Nat /\ page(SecondFlash) \in Nat
    <2>1. /\ NewPage \in Nat /\ RecordAddress \in Nat /\ n \in Int
          /\ \A k \in Int : SourceByte(k) \in Int
      BY TurnNumbers DEF Record
    <2>2. page(Boot) \in Nat /\ page(SecondFlash) \in Nat
      BY <1>1, <2>1 DEF McsTypeOK, Contents
    <2>3. page(Boot) * PageSize \in Nat /\ page(SecondFlash) * PageSize \in Nat
      BY <2>2
    <2>4. Base(Boot) \in Nat /\ Base(SecondFlash) \in Nat
      BY <2>1, <2>3 DEF Base
    <2>5. ASSUME NEW k \in 0 .. (n - 1)
          PROVE  /\ <<Base(Boot) + k, SourceByte(2 * k)>> \in Nat \X Int
                 /\ <<Base(SecondFlash) + k, SourceByte(2 * k + 1)>> \in Nat \X Int
      <3>1. 2 * k \in Int /\ 2 * k + 1 \in Int
        BY <2>1
      <3> QED BY <2>1, <2>4, <3>1
    <2> QED BY <2>1, <2>2, <2>5
  <1>10. ASSUME NEW f \in {Boot, SecondFlash}
         PROVE  late(f) \in BOOLEAN /\ (files[f].ends = 0 => late(f) = files[f].late)
    BY <1>1 DEF McsTypeOK, Contents
  <1> HIDE DEF first, second, page, n, late
  <1>5. ASSUME NEW f \in {Boot, SecondFlash}, NEW bytes \in SUBSET (Nat \X Int)
        PROVE  /\ new(f, bytes) \in Contents
               /\ new(f, bytes).data = files[f].data \cup bytes
               /\ new(f, bytes).page = page(f)
               /\ new(f, bytes).ends = files[f].ends
               /\ files[f].ends = 0 => new(f, bytes).late = files[f].late
    <2>0. files[f] \in Contents /\ page(f) \in Nat
      BY <1>1, <1>3 DEF McsTypeOK
    <2>3. files[f].data \cup bytes \in SUBSET (Nat \X Int) /\ files[f].ends \in Nat
      BY <1>5, <2>0 DEF Contents
    <2>4. /\ new(f, bytes).data = files[f].data \cup bytes
          /\ new(f, bytes).page = page(f)
          /\ new(f, bytes).ends = files[f].ends /\ new(f, bytes).late = late(f)
      BY <2>0 DEF Contents
    <2>5. new(f, bytes) \in Contents
      BY <1>10, <2>0, <2>3 DEF Contents
    <2> QED BY <1>10, <2>4, <2>5
  <1> HIDE DEF new
  <1>6. files'[Boot] = new(Boot, first) /\ files'[SecondFlash] = new(SecondFlash, second)
    BY <1>1, <1>2 DEF McsTypeOK
  <1>7. Gains(Boot, first) /\ Gains(SecondFlash, second)
    BY <1>3, <1>5, <1>6 DEF Gains, page
  <1>8. \A g \in FileIds \ {Boot, SecondFlash} : files'[g] = files[g]
    BY <1>2 DEF McsTypeOK
  <1>9. files' \in [FileIds -> Contents]
    BY <1>1, <1>2, <1>3, <1>5 DEF McsTypeOK
  <1> QED BY <1>7, <1>8, <1>9 DEF first, second, n

\* The types hold in the beginning, ...
LEMMA McsTypeInit == McsInit => McsTypeOK
  <1> SUFFICES ASSUME McsInit PROVE McsTypeOK
    OBVIOUS
  <1>1. [page |-> 0, data |-> {}, ends |-> 0, late |-> FALSE] \in Contents
    BY DEF Contents
  <1>2. call = NoCall /\ splitOffset = 0
    BY DEF McsInit, OutputInit
  <1>3. files \in [FileIds -> Contents] /\ filePageAddr \in [SlaveFiles -> Int]
    BY <1>1 DEF McsInit, SlaveFiles, NoPage
  <1>4. ~busy /\ call.op = "none"
    BY <1>2, CallNames DEF McsInit
  <1>5. busy \in BOOLEAN /\ newFile \in BOOLEAN /\ eofrWritten \in BOOLEAN
    BY DEF McsInit
  <1>6. /\ lineAddress = 0 /\ endAddress = 0 /\ length = 0 /\ pageAddress \in Int
        /\ splitOffset \in Int
    BY <1>2 DEF McsInit, NoPage
  <1> QED BY <1>3, <1>4, <1>5, <1>6 DEF McsTypeOK

\* ... when the loop of the output makes its next call, ...
LEMMA OutputTypes ==
    ASSUME LoopInv, McsTypeOK, Output
    PROVE  McsTypeOK'
  <1> USE CallNames
  <1>1. /\ UNCHANGED <<files, loopVars, newFile, eofrWritten>> /\ OutputNext /\ ~busy /\ SwitchPage
        /\ busy' = busy
    BY DEF Output, loopVars
  <1>2. splitOffset' \in Int
    <2>1. CASE WriteSection
      <3>1. \A f : SlaveOffset(f) \in Int
        BY DEF SlaveOffset, LoopInv, TypeOK, SizeFields
      <3> QED BY <2>1, <3>1 DEF WriteSection, McsTypeOK
    <2>2. CASE splitOffset' = splitOffset
      BY <2>2 DEF McsTypeOK
    <2> QED BY <1>1, <2>1, <2>2 DEF OutputNext, Layout, outputVars, Open, BackwardsError, FillGap,
              EndSplitFile, OpenSplitFile, Postscript, CloseNext
  <1>3. call'.op = "End" =>
            phase' \in {"switching", "closing", "closingBoot", "closingHeaders"}
    <2>1. CASE CloseNext
      BY <2>1 DEF CloseNext, ClosePhases
    <2>2. CASE FillGap \/ WriteSection
      BY <2>2 DEF FillGap, WriteSection
    <2>3. CASE EndSplitFile \/ Postscript
      BY <2>3 DEF EndSplitFile, Postscript
    <2>4. CASE Layout
      BY <2>4 DEF Layout, outputVars, McsTypeOK
    <2>5. CASE Open
      BY <2>5 DEF Open, LoopInv, CallInv, PhaseOK
    <2>6. CASE BackwardsError \/ OpenSplitFile
      BY <2>6 DEF BackwardsError, InLoop, OpenSplitFile
    <2> QED BY <1>1, <2>1, <2>2, <2>3, <2>4, <2>5, <2>6 DEF OutputNext
  <1>4. pageAddress' \in Int /\ filePageAddr' \in [SlaveFiles -> Int]
    <2>1. CASE file' = file
      BY <1>1, <2>1 DEF SwitchPage, McsTypeOK
    <2>2. CASE file' # file /\ mode = "split"
      BY <1>1, <2>2 DEF SwitchPage, McsTypeOK, NoPage
    <2>3. CASE file' # file /\ mode # "split"
      <3>1. /\ filePageAddr' = [filePageAddr EXCEPT ![file] = pageAddress]
            /\ pageAddress' = filePageAddr'[file']
        BY <1>1, <2>3 DEF SwitchPage
      <3>2. file' \in SlaveFiles
        <4>1. CASE WriteSection
          BY <2>3, <4>1 DEF WriteSection, SlaveFile, SlaveFiles
        <4>2. CASE CloseNext
          BY <2>3, <4>2 DEF CloseNext, ClosePhases, SlaveFiles
        <4>3. CASE OpenSplitFile
          BY <2>3, <4>3 DEF OpenSplitFile, LoopInv, CallInv, SwitchOK
        <4> QED BY <1>1, <2>3, <4>1, <4>2, <4>3 DEF OutputNext, Layout, outputVars, Open, BackwardsError,
                FillGap, EndSplitFile, Postscript
      <3>3. filePageAddr' \in [SlaveFiles -> Int]
        BY <3>1 DEF McsTypeOK
      <3> QED BY <3>1, <3>2, <3>3
    <2> QED BY <2>1, <2>2, <2>3
  <1> QED BY <1>1, <1>2, <1>3, <1>4 DEF McsTypeOK, loopVars

\* ... and when the writer carries one out.
LEMMA McsTypeStep ==
    ASSUME LoopInv, LoopInv', McsTypeOK, [McsNext]_mcsVars
    PROVE  McsTypeOK'
  <1> USE CallNames
  <1>1. CASE Output
    BY <1>1, OutputTypes
  <1>2. CASE BeginCall
    <2>1. AddressModulus \in Nat \ {0} /\ call.start \in Nat /\ call.length \in Nat
      BY <1>2, SizeAssumption DEF BeginCall, LoopInv, CallInv, CallOK, Addresses
    <2>2. InFile(call.start) \in Nat
      <3>1. call.start - splitOffset \in Int
        BY <2>1 DEF McsTypeOK
      <3> QED BY <2>1, <3>1 DEF InFile
    <2>3. /\ (InFile(call.start) + call.length) % AddressModulus \in Nat
          /\ call.start + call.length \in Nat
      BY <2>1, <2>2
    <2>4. /\ busy' \in BOOLEAN /\ lineAddress' \in Nat /\ endAddress' \in Nat /\ length' \in Nat
          /\ busy' => call'.op \in {"Fill", "Write"}
          /\ call' \in {NoCall, call} /\ call.op # "End"
      BY <1>2, <2>1, <2>2, <2>3 DEF BeginCall, Return, loopVars, McsTypeOK
    <2> QED BY <1>2, <2>4 DEF BeginCall, McsTypeOK
  <1>3. CASE Record
    <2>1. /\ lineAddress' \in Nat /\ endAddress' \in Nat /\ length' \in Nat /\ pageAddress' \in Int
      BY <1>3, TurnNumbers DEF Record, McsTypeOK
    <2>2. files' \in [FileIds -> Contents]
      BY <1>3, PlainTurn, ParallelTurn
    <2>3. newFile' \in BOOLEAN /\ eofrWritten' \in BOOLEAN
      BY <1>3 DEF Record
    <2> QED BY <1>3, <2>1, <2>2, <2>3 DEF Record, McsTypeOK, outputVars
  <1>4. CASE EndOfCall
    BY <1>4 DEF EndOfCall, Return, McsTypeOK
  <1>5. CASE EndFile
    <2>1. \A f \in FileIds : Ended(f) \in Contents
      BY DEF McsTypeOK, Contents, Ended
    <2>2. files' \in [FileIds -> Contents]
      BY <1>5, <2>1 DEF EndFile, McsTypeOK
    <2>3. ~busy
      BY <1>5 DEF EndFile, McsTypeOK
    <2> QED BY <1>5, <2>2, <2>3 DEF EndFile, Return, McsTypeOK, loopVars
  <1>6. CASE UNCHANGED mcsVars
    BY <1>6 DEF mcsVars, outputVars, loopVars, McsTypeOK
  <1> QED BY <1>1, <1>2, <1>3, <1>4, <1>5, <1>6 DEF McsNext

\* The types of the writer, on top of what the loop of the output promises.
LEMMA McsTypes == McsSpec => [](Inv /\ Origins /\ LoopInv /\ McsTypeOK)
  <1>1. McsSpec => [](Inv /\ Origins /\ LoopInv)
    <2>1. Inv /\ Origins /\ OutputInv /\ CallInv => Inv /\ Origins /\ LoopInv
      BY DEF Inv, LoopInv
    <2> QED BY <2>1, McsRunsLoop, CallsInvariant, PTL
  <1> QED BY <1>1, McsTypeInit, McsTypeStep, PTL DEF McsSpec

-----------------------------------------------------------------------------
(* The end-of-file records.                                                *)

\* The file the loop writes to has its end-of-file record, and gets no more.
Finished ==
    \/ phase = "closed"
    \/ phase \in {"switching", "closing"} /\ call = NoCall

Untouched(f) == files[f].data = {} /\ files[f].ends = 0

EndInv ==
    /\ newFile = eofrWritten
    /\ newFile => Stacked
    /\ mode # "slaveboot" =>
          /\ \A f \in FileIds : ~files[f].late
          /\ \A f \in FileIds \ {file, SecondFlash} : Untouched(f) \/ files[f].ends = 1
          /\ \A q \in toSplit : cursor < q /\ file # OwnFile(q) => Untouched(OwnFile(q))
          /\ files[file].ends = IF newFile \/ Finished THEN 1 ELSE 0
          /\ IF Parallel \/ newFile
             THEN files[SecondFlash].ends = IF Finished THEN 1 ELSE 0
             ELSE Untouched(SecondFlash)

\* No call is made in the end.
LEMMA EndInit == McsInit => EndInv
  <1> SUFFICES ASSUME McsInit PROVE EndInv
    OBVIOUS
  <1>1. /\ files = [f \in FileIds |-> [page |-> 0, data |-> {}, ends |-> 0, late |-> FALSE]]
        /\ newFile = FALSE /\ eofrWritten = FALSE /\ phase = "layout" /\ file = Boot
        /\ toSplit \subseteq Index
    BY DEF McsInit, OutputInit
  <1>2. Boot \in FileIds /\ SecondFlash \in FileIds /\ \A q \in toSplit : OwnFile(q) \in FileIds
    BY <1>1 DEF FileIds
  <1> QED BY <1>1, <1>2 DEF EndInv, Untouched, Finished

\* The loop of the output opens a file after it has ended the one before.
LEMMA EndOutput ==
    ASSUME LoopInv, LoopInv', McsTypeOK, EndInv, Output
    PROVE  EndInv'
  <1> USE CallNames
  <1>1. /\ UNCHANGED <<files, newFile, eofrWritten>> /\ OutputNext /\ UNCHANGED options
        /\ \A f : (Untouched(f))' = Untouched(f)
    BY LoopStep DEF Output, Untouched
  <1>2. mode' = mode /\ toSplit' = toSplit /\ Parallel' = Parallel /\ Stacked' = Stacked
    BY <1>1 DEF options, Parallel, Stacked
  <1> SUFFICES ASSUME mode # "slaveboot"
               PROVE  /\ \A f \in FileIds \ {file', SecondFlash} :
                            Untouched(f) \/ files[f].ends = 1
                      /\ \A q \in toSplit : cursor' < q /\ file' # OwnFile(q) => Untouched(OwnFile(q))
                      /\ files[file'].ends = IF newFile \/ Finished' THEN 1 ELSE 0
                      /\ IF Parallel \/ newFile
                         THEN files[SecondFlash].ends = IF Finished' THEN 1 ELSE 0
                         ELSE Untouched(SecondFlash)
    BY <1>1, <1>2 DEF EndInv
  <1>3. cursor \in Nat /\ \A q \in toSplit : q \in Nat
    BY FileNames, SizeAssumption DEF LoopInv, OutputInv
  <1>4. CASE file' = file /\ (Finished' <=> Finished) /\ cursor' \in {cursor, cursor + 1}
    BY <1>3, <1>4 DEF EndInv
  <1>5. CASE Layout
    BY <1>4, <1>5 DEF Layout, outputVars, Finished
  <1>6. CASE Open \/ BackwardsError \/ FillGap
    <2>1. phase # "closed" /\ phase' # "closed" /\ phase \in {"layout", "output"}
          /\ phase' \in {"output", "failed"}
      BY <1>6 DEF Open, BackwardsError, FillGap, InLoop
    <2> QED BY <1>4, <1>6, <2>1 DEF Open, BackwardsError, FillGap, Finished
  <1>7. CASE WriteSection
    <2>1. phase = "output" /\ phase' = "output" /\ file' = file
      BY <1>7 DEF WriteSection, InLoop
    <2> QED BY <1>4, <1>7, <2>1 DEF WriteSection, Current, Finished
  <1>8. CASE EndSplitFile \/ Postscript
    <2>1. /\ phase = "output" /\ phase' \in {"switching", "closing"} /\ call' # NoCall
          /\ file' = file /\ cursor' = cursor
      BY <1>8 DEF EndSplitFile, Postscript, InLoop
    <2> QED BY <1>4, <2>1 DEF Finished
  <1>9. CASE OpenSplitFile
    <2>1. /\ phase = "switching" /\ call = NoCall /\ phase' = "output"
          /\ file' = OwnFile(Current) /\ cursor' = cursor
          /\ mode = "split" /\ MustSplit
      BY <1>9 DEF OpenSplitFile, LoopInv, CallInv, SwitchOK
    <2>2. Finished /\ ~Finished'
      BY <2>1 DEF Finished
    <2>3. ~newFile /\ ~Parallel
      BY <2>1 DEF LoopInv, CallInv, OptionsOK, EndInv, Parallel, Stacked
    <2>4. Current \in toSplit /\ file # OwnFile(Current) /\ cursor < Current /\ Current \in Index
      BY <1>3, <2>1, FileNames DEF MustSplit, Current
    <2>5. Untouched(OwnFile(Current))
      BY <2>1, <2>4 DEF EndInv
    <2>6. \A q \in toSplit : cursor < q => file # OwnFile(q)
      <3>1. PICK p \in 0 .. NumSections : file = LeadFile(p) /\ p <= cursor
        BY <2>1 DEF LoopInv, CallInv, FileOK, IsLead
      <3> QED BY <1>3, <3>1, LeadNames, FileNames, SizeAssumption
    <2>7. files[file].ends = 1 /\ Untouched(SecondFlash)
      BY <2>1, <2>2, <2>3 DEF EndInv
    <2> QED BY <2>1, <2>2, <2>3, <2>4, <2>5, <2>6, <2>7 DEF EndInv, Untouched
  <1>10. CASE CloseNext
    <2>1. phase = "closing" /\ call = NoCall
      BY <1>10 DEF CloseNext, ClosePhases, LoopInv, CallInv, PhaseOK
    <2>2. phase' = "closed" /\ file' = file /\ cursor' = cursor
      BY <1>10, <2>1 DEF CloseNext, ClosePhases
    <2> QED BY <1>4, <2>1, <2>2 DEF Finished
  <1> QED BY <1>1, <1>5, <1>6, <1>7, <1>8, <1>9, <1>10 DEF OutputNext

\* A turn of the loop ends the first file of the stacked mode when it leaves it
\* for the second.
LEMMA EndRecord ==
    ASSUME LoopInv, LoopInv', McsTypeOK, EndInv, Record
    PROVE  EndInv'
  <1> USE CallNames
  <1>1. /\ phase = "output" /\ ~Finished /\ ~Finished'
        /\ UNCHANGED <<mode, qspi, toSplit, cursor, file, phase, call>>
    BY DEF Record, outputVars, options, McsTypeOK, LoopInv, CallInv, CallOK, Finished
  <1>2. /\ newFile' = (newFile \/ Crossing) /\ eofrWritten' = (eofrWritten \/ Crossing)
        /\ Crossing => Stacked
        /\ Parallel' = Parallel /\ Stacked' = Stacked /\ ~(Parallel /\ Stacked)
    BY <1>1 DEF Record, Crossing, Parallel, Stacked
  <1>3. file \in FileIds /\ SecondFlash \in FileIds /\ file # SecondFlash
        /\ Boot # SecondFlash /\ Boot \in FileIds
        /\ \A q \in toSplit : OwnFile(q) \in FileIds /\ OwnFile(q) # SecondFlash
    BY FileNames
  <1> SUFFICES ASSUME mode # "slaveboot"
               PROVE  /\ \A f \in FileIds : ~files'[f].late
                      /\ \A f \in FileIds \ {file, SecondFlash} : files'[f] = files[f]
                      /\ files'[file].ends = IF newFile' THEN 1 ELSE 0
                      /\ IF Parallel \/ newFile'
                         THEN files'[SecondFlash].ends = 0
                         ELSE files'[SecondFlash] = files[SecondFlash]
    BY <1>1, <1>2, <1>3 DEF EndInv, Untouched
  <1>4. /\ \A f \in FileIds : ~files[f].late
        /\ files[file].ends = IF newFile THEN 1 ELSE 0
        /\ IF Parallel \/ newFile
           THEN files[SecondFlash].ends = 0
           ELSE Untouched(SecondFlash)
    BY <1>1 DEF EndInv
  <1>5. CASE Parallel
    <2>1. file = Boot /\ ~newFile /\ ~Crossing
      BY <1>2, <1>5, FileNames DEF EndInv, Parallel
    <2>2. /\ files'[Boot].ends = files[Boot].ends
          /\ files[Boot].ends = 0 => files'[Boot].late = files[Boot].late
          /\ files'[SecondFlash].ends = files[SecondFlash].ends
          /\ files[SecondFlash].ends = 0 => files'[SecondFlash].late = files[SecondFlash].late
          /\ \A g \in FileIds \ {Boot, SecondFlash} : files'[g] = files[g]
      BY <1>5, ParallelTurn DEF Gains
    <2> QED BY <1>2, <1>3, <1>4, <1>5, <2>1, <2>2
  <1>6. CASE ~Parallel
    <2>1. /\ TurnFile = IF newFile' THEN SecondFlash ELSE file
          /\ files'[TurnFile].ends = files[TurnFile].ends
          /\ files[TurnFile].ends = 0 => files'[TurnFile].late = files[TurnFile].late
          /\ \A g \in FileIds \ {TurnFile} :
                files'[g] = IF g = file /\ Crossing /\ ~eofrWritten THEN Ended(g) ELSE files[g]
      BY <1>2, <1>6, PlainTurn DEF Gains, TurnFile
    <2>2. CASE ~newFile'
      BY <1>2, <1>3, <1>4, <1>6, <2>1, <2>2
    <2>3. CASE newFile'
      <3>1. files[SecondFlash].ends = 0
        BY <1>4 DEF Untouched
      <3>2. files'[file] = IF newFile THEN files[file] ELSE Ended(file)
        BY <1>2, <1>3, <2>1, <2>3 DEF EndInv
      <3>3. Ended(file).ends = files[file].ends + 1 /\ Ended(file).late = files[file].late
        BY <1>3 DEF Ended, McsTypeOK, Contents
      <3>4. files'[file].ends = 1 /\ ~files'[file].late
        BY <1>3, <1>4, <3>2, <3>3
      <3>5. \A f \in FileIds \ {file, SecondFlash} : files'[f] = files[f]
        BY <2>1, <2>3
      <3>6. files'[SecondFlash].ends = 0 /\ ~files'[SecondFlash].late
        BY <1>3, <1>4, <2>1, <2>3, <3>1
      <3> QED BY <1>3, <1>4, <2>3, <3>4, <3>5, <3>6
    <2> QED BY <2>2, <2>3
  <1> QED BY <1>5, <1>6

\* The postscript ends the file in use, or both.
LEMMA EndPostscript ==
    ASSUME LoopInv, LoopInv', McsTypeOK, EndInv, EndFile
    PROVE  EndInv'
  <1> USE CallNames
  <1>1. /\ call.op = "End" /\ call' = NoCall
        /\ UNCHANGED <<mode, qspi, toSplit, cursor, file, phase, newFile, eofrWritten>>
    BY DEF EndFile, Return, options
  <1>2. phase \in {"switching", "closing", "closingBoot", "closingHeaders"}
    BY <1>1 DEF McsTypeOK
  <1>3. Parallel' = Parallel /\ Stacked' = Stacked /\ ~(Parallel /\ Stacked)
    BY <1>1 DEF Parallel, Stacked
  <1>4. file \in FileIds /\ SecondFlash \in FileIds /\ file # SecondFlash
        /\ \A q \in toSplit : OwnFile(q) \in FileIds /\ OwnFile(q) # SecondFlash
    BY FileNames
  <1>5. ASSUME NEW f \in FileIds
        PROVE  Ended(f).ends = files[f].ends + 1 /\ Ended(f).late = files[f].late
    BY DEF Ended, McsTypeOK, Contents
  <1> SUFFICES ASSUME mode # "slaveboot"
               PROVE  /\ \A f \in FileIds : ~files'[f].late
                      /\ \A f \in FileIds \ {file, SecondFlash} : files'[f] = files[f]
                      /\ files'[file].ends = 1
                      /\ IF Parallel \/ newFile
                         THEN files'[SecondFlash].ends = 1
                         ELSE files'[SecondFlash] = files[SecondFlash]
    <2>1. mode # "slaveboot" => Finished'
      BY <1>1, <1>2 DEF Finished, LoopInv, CallInv, PhaseOK
    <2> QED BY <1>1, <1>3, <1>4, <2>1 DEF EndInv, Untouched
  <1>6. ~Finished
    BY <1>1, <1>2 DEF Finished
  <1>7. /\ \A f \in FileIds : ~files[f].late
        /\ files[file].ends = IF newFile THEN 1 ELSE 0
        /\ Parallel \/ newFile => files[SecondFlash].ends = 0
    BY <1>6 DEF EndInv
  <1>8. CASE Parallel
    <2>1. ~newFile
      BY <1>3, <1>8 DEF EndInv
    <2>2. files' = [files EXCEPT ![file] = Ended(file), ![SecondFlash] = Ended(SecondFlash)]
      BY <1>8 DEF EndFile
    <2>3. /\ files'[file] = Ended(file) /\ files'[SecondFlash] = Ended(SecondFlash)
          /\ \A f \in FileIds \ {file, SecondFlash} : files'[f] = files[f]
      BY <1>4, <2>2 DEF McsTypeOK
    <2> QED BY <1>4, <1>5, <1>7, <1>8, <2>1, <2>3
  <1>9. CASE ~Parallel
    <2>1. files' = [files EXCEPT ![IF newFile THEN SecondFlash ELSE file] =
                                    Ended(IF newFile THEN SecondFlash ELSE file)]
      BY <1>9 DEF EndFile
    <2>2. CASE newFile
      BY <1>4, <1>5, <1>7, <2>1, <2>2 DEF McsTypeOK
    <2>3. CASE ~newFile
      BY <1>4, <1>5, <1>7, <1>9, <2>1, <2>3 DEF McsTypeOK
    <2> QED BY <2>2, <2>3
  <1> QED BY <1>8, <1>9

LEMMA EndStep ==
    ASSUME LoopInv, LoopInv', McsTypeOK, EndInv, [McsNext]_mcsVars
    PROVE  EndInv'
  <1> USE CallNames
  <1>1. CASE Output
    BY <1>1, EndOutput
  <1>2. CASE BeginCall \/ EndOfCall
    <2>1. phase = "output" /\ phase' = "output"
      BY <1>2 DEF BeginCall, EndOfCall, McsTypeOK, LoopInv, CallInv, CallOK
    <2>2. UNCHANGED <<files, newFile, eofrWritten, mode, qspi, toSplit, cursor, file>>
      BY <1>2 DEF BeginCall, EndOfCall, options
    <2>3. (Finished' <=> Finished) /\ Parallel' = Parallel /\ Stacked' = Stacked
          /\ \A f : (Untouched(f))' = Untouched(f)
      BY <2>1, <2>2 DEF Finished, Parallel, Stacked, Untouched
    <2> QED BY <2>2, <2>3 DEF EndInv
  <1>3. CASE Record
    BY <1>3, EndRecord
  <1>4. CASE EndFile
    BY <1>4, EndPostscript
  <1>5. CASE UNCHANGED mcsVars
    BY <1>5 DEF mcsVars, outputVars, options, EndInv, Finished, Parallel, Stacked, Untouched
  <1> QED BY <1>1, <1>2, <1>3, <1>4, <1>5 DEF McsNext

\* Whatever the image and the flash devices, each file of a closed image that is
\* no slave boot image has one end-of-file record, after every other record, and
\* a file that is not used has none.
THEOREM FilesEndOnce == McsSpec => []EndsOnce
  <1>1. LoopInv /\ McsTypeOK /\ EndInv => EndsOnce
    <2> SUFFICES ASSUME LoopInv, McsTypeOK, EndInv, mode # "slaveboot", phase = "closed",
                        NEW f \in FileIds
                 PROVE  /\ files[f].data # {} => files[f].ends = 1
                        /\ files[f].ends <= 1
                        /\ ~files[f].late
      BY DEF EndsOnce, EndedOnce
    <2>1. Finished
      BY DEF Finished
    <2> QED BY <2>1 DEF EndInv, Untouched
  <1> QED BY <1>1, EndInit, EndStep, McsTypes, PTL DEF McsSpec

-----------------------------------------------------------------------------
(* Where the records of a file go, without the stacked mode.               *)

\* The page the writer remembers is that of the file, unless it has forgotten it.
PageInv ==
    /\ pageAddress # NoPage =>
          /\ files[file].page = pageAddress
          /\ Parallel => files[SecondFlash].page = pageAddress
    /\ mode = "slaveboot" =>
          \A g \in SlaveFiles \ {file} : filePageAddr[g] \in {NoPage, files[g].page}

\* A section is written with the offset that the header tables subtract from it.
OffsetInv ==
    /\ mode # "slaveboot" => splitOffset = 0
    /\ mode = "slaveboot" /\ cursor = 0 => file = Boot /\ splitOffset = 0
    /\ mode = "slaveboot" /\ call.op = "Write" =>
          file = SlaveFile(cursor) /\ splitOffset = LinkedOffset(cursor)

\* A gap starts behind every section before it.
GapInv ==
    /\ call.start < AddressModulus
    /\ call.op = "Fill" => \A i \in 1 .. cursor : End(i) <= call.start

\* The line of a Write has advanced by what is gone of the buffer; that of a Fill
\* stays in the gap.
LineInv ==
    busy =>
        /\ call.op = "Write" =>
              /\ length <= call.length
              /\ lineAddress = InFile(call.start) + (call.length - length)
              /\ endAddress = (InFile(call.start) + call.length) % AddressModulus
        /\ call.op = "Fill" =>
              doFill /\ lineAddress >= InFile(call.start) /\ endAddress = written

\* In the parallel mode everything is even.
EvenInv ==
    Parallel =>
        /\ written % 2 = 0 /\ call.start % 2 = 0 /\ call.length % 2 = 0
        /\ busy => lineAddress % 2 = 0 /\ length % 2 = 0

PlaceInv == PageInv /\ OffsetInv /\ GapInv /\ LineInv /\ EvenInv

\* The image address that a place of a file stands for.
AddressAt(f, at) ==
    IF Parallel THEN 2 * at + (IF f = SecondFlash THEN 1 ELSE 0) ELSE at

\* Records of filling come from -fill and lie between the sections, ...
Filled ==
    \A f \in FileIds : \A x \in files[f].data : x[2] = FillByte =>
        /\ doFill
        /\ mode # "slaveboot" =>
              /\ AddressAt(f, x[1]) < written
              /\ \A i \in 1 .. cursor : AddressAt(f, x[1]) \notin BytesOf(i)

\* ... every other byte is one of a section, at home, ...
Sound ==
    (mode = "slaveboot" => ~wrapped) =>
        \A f \in FileIds : \A x \in files[f].data : x[2] # FillByte =>
            \E i \in 1 .. cursor :
                /\ x[2] \in BytesOf(i)
                /\ HomeOf(i, x[2]) = [file |-> f, at |-> x[1]]

\* ... and every byte of the sections written so far is there.
AtHome(i, b) ==
    /\ HomeOf(i, b).file \in FileIds
    /\ <<HomeOf(i, b).at, b>> \in files[HomeOf(i, b).file].data

Complete ==
    ~wrapped =>
        /\ \A i \in 1 .. Flushed : \A b \in BytesOf(i) : AtHome(i, b)
        /\ busy /\ call.op = "Write" =>
              \A b \in BytesOf(cursor) :
                  b < call.start + (call.length - length) => AtHome(cursor, b)

McsContents == Filled /\ Sound /\ Complete

\* The modes of the theorems that follow: not the stacked one, and the parallel
\* one with sections it can deal out.
SimpleModes ==
    /\ "stacked" \notin QspiModes
    /\ "parallel" \in QspiModes => EvenImage

LEMMA SimpleLoop ==
    ASSUME SimpleModes, LoopInv, McsTypeOK, EndInv
    PROVE  /\ qspi \in {"none", "parallel"} /\ ~Stacked /\ ~newFile /\ ~Crossing
           /\ LineAt = lineAddress /\ EndAt = endAddress /\ TurnFile = file
           /\ BytesToWrite =
                Least(Line, IF call.op = "Fill" THEN endAddress - lineAddress ELSE length)
           /\ Parallel => EvenImage /\ mode = "normal" /\ file = Boot
  <1>1. qspi \in QspiModes /\ qspi \in {"none", "parallel", "stacked"}
    BY DEF LoopInv, CallInv, OptionsOK
  <1>2. qspi # "stacked"
    BY <1>1 DEF SimpleModes
  <1>3. ~Stacked /\ ~newFile /\ ~Crossing
    BY <1>2 DEF Stacked, EndInv, Crossing
  <1>4. Parallel => EvenImage /\ mode = "normal" /\ file = Boot
    BY <1>1, FileNames DEF Parallel, SimpleModes
  <1> QED BY <1>1, <1>2, <1>3, <1>4 DEF LineAt, EndAt, TurnFile, BytesToWrite

\* A number has one quotient and one remainder.
LEMMA DivisionUnique ==
    ASSUME NEW d \in Nat \ {0}, NEW q \in Nat, NEW r \in 0 .. (d - 1), NEW x \in Nat, x = d * q + r
    PROVE  x \div d = q /\ x % d = r
  <1>1. PICK p \in Int, s \in 0 .. (d - 1) :
            p = x \div d /\ s = x % d /\ x = d * p + s
    OBVIOUS
  <1>2. PICK e \in Int : e = p - q
    OBVIOUS
  <1>3. d * e = r - s
    BY <1>1, <1>2
  <1>4. CASE e >= 1
    <2>1. d * e >= d
      BY <1>4
    <2> QED BY <1>3, <2>1
  <1>5. CASE e <= -1
    <2>1. d * e <= -d
      BY <1>5
    <2> QED BY <1>3, <2>1
  <1>6. CASE e = 0
    BY <1>1, <1>2, <1>3, <1>6
  <1> QED BY <1>4, <1>5, <1>6

\* The page and the address of a record make up the address of the line, or half
\* of it in the parallel mode.
LEMMA PageAndAddress ==
    ASSUME SimpleModes, LoopInv, McsTypeOK, EndInv
    PROVE  /\ NewPage \in Nat
           /\ ~Parallel => NewPage * PageSize + RecordAddress = lineAddress
           /\ Parallel /\ lineAddress % 2 = 0 =>
                 NewPage * PageSize + RecordAddress = lineAddress \div 2
  <1> USE McsAssumption
  <1>1. PICK P \in Nat \ {0}, L \in Nat : P = PageSize /\ L = lineAddress
    BY DEF McsTypeOK
  <1>2. LineAt = L
    BY <1>1, SimpleLoop
  <1>3. PICK q \in Nat, s \in 0 .. (P - 1) :
            L = P * q + s /\ L \div P = q /\ L % P = s
    <2>1. L = P * (L \div P) + (L % P) /\ L \div P \in Nat /\ L % P \in 0 .. (P - 1)
      OBVIOUS
    <2> QED BY <2>1
  <1>4. CASE ~Parallel
    <2>1. NewPage = q /\ RecordAddress = s
      BY <1>1, <1>2, <1>3, <1>4 DEF NewPage, PageShift, RecordAddress
    <2> QED BY <1>1, <1>3, <1>4, <2>1
  <1>5. CASE Parallel
    <2>0. NewPage = L \div (2 * P) /\ L \div (2 * P) \in Nat
      <3>1. 2 * P \in Nat \ {0}
        OBVIOUS
      <3> QED BY <1>1, <1>2, <1>5, <3>1 DEF NewPage, PageShift
    <2> SUFFICES ASSUME L % 2 = 0
                 PROVE  NewPage * PageSize + RecordAddress = L \div 2
      BY <1>1, <1>5, <2>0
    <2>1. PICK h \in Nat : L = 2 * h /\ L \div 2 = h
      OBVIOUS
    <2>2. PICK a \in Nat, b \in 0 .. (P - 1) : h = P * a + b
      <3>1. h = P * (h \div P) + (h % P) /\ h \div P \in Nat /\ h % P \in 0 .. (P - 1)
        OBVIOUS
      <3> QED BY <3>1
    <2>3. L \div (2 * P) = a
      <3>1. L = (2 * P) * a + 2 * b /\ 2 * b \in 0 .. (2 * P - 1) /\ 2 * P \in Nat \ {0}
        BY <2>1, <2>2
      <3> QED BY <3>1, DivisionUnique
    <2>4. ((L % (4 * P)) \div 2) % P = b
      <3>1. PICK t \in Nat, r \in Nat : L = (4 * P) * t + r /\ r = L % (4 * P)
        <4>1. 4 * P \in Nat \ {0}
          OBVIOUS
        <4>2. L = (4 * P) * (L \div (4 * P)) + (L % (4 * P)) /\ L \div (4 * P) \in Nat
              /\ L % (4 * P) \in Nat
          BY <4>1
        <4> QED BY <4>2
      <3>2. PICK w \in Nat : w = P * t
        OBVIOUS
      <3>3. L = 4 * w + r
        BY <3>1, <3>2
      <3>4. PICK u \in Nat : r = 2 * u /\ r \div 2 = u
        BY <2>1, <3>3
      <3>5. h = 2 * w + u
        BY <2>1, <3>3, <3>4
      <3>6. PICK c \in Nat, v \in 0 .. (P - 1) : u = P * c + v /\ u % P = v
        <4>1. u = P * (u \div P) + (u % P) /\ u \div P \in Nat /\ u % P \in 0 .. (P - 1)
          OBVIOUS
        <4> QED BY <4>1
      <3>7. PICK d \in Nat : h = P * d + v
        <4>1. h = P * (2 * t + c) + v /\ 2 * t + c \in Nat
          BY <3>2, <3>5, <3>6
        <4> QED BY <4>1
      <3>8. h % P = v /\ h % P = b
        <4>1. h % P = v
          BY <3>7, DivisionUnique
        <4> QED BY <2>2, <4>1, DivisionUnique
      <3> QED BY <3>1, <3>4, <3>6, <3>8
    <2>5. NewPage = a /\ RecordAddress = b
      BY <1>1, <1>2, <1>5, <2>0, <2>3, <2>4 DEF RecordAddress
    <2> QED BY <1>1, <2>1, <2>2, <2>5
  <1> QED BY <1>4, <1>5

\* The options never change, and the layout only before anything is written.
LEMMA McsFrame ==
    ASSUME LoopInv, LoopInv', McsTypeOK, [McsNext]_mcsVars
    PROVE  /\ UNCHANGED options /\ Parallel' = Parallel /\ Stacked' = Stacked /\ mode' = mode
           /\ \/ UNCHANGED vars
              \/ /\ cursor = 0 /\ cursor' = 0 /\ call = NoCall /\ file = Boot
                 /\ UNCHANGED <<cursor, written, file, call>>
           /\ Output \/ UNCHANGED <<vars, written, cursor, file, splitOffset, phase>>
  <1>1. CASE Output
    BY <1>1, LoopStep DEF Output, options, Parallel, Stacked
  <1>2. CASE ~Output
    BY <1>2 DEF McsNext, mcsVars, BeginCall, Record, EndOfCall, EndFile, outputVars, options,
                Parallel, Stacked
  <1> QED BY <1>1, <1>2

\* The first page record of a file comes before its first data record.
LEMMA PageStep ==
    ASSUME SimpleModes, LoopInv, LoopInv', McsTypeOK, McsTypeOK', EndInv, PageInv,
           [McsNext]_mcsVars
    PROVE  PageInv'
  <1>1. mode' = mode /\ Parallel' = Parallel
    BY McsFrame
  <1>2. /\ file \in FileIds /\ SecondFlash \in FileIds /\ file # SecondFlash /\ Boot # SecondFlash
        /\ SlaveFiles \subseteq FileIds
    BY FileNames DEF SlaveFiles, FileIds
  <1>3. CASE Output
    <2>1. files' = files /\ SwitchPage
      BY <1>3 DEF Output
    <2>2. CASE file' = file
      <3>1. UNCHANGED <<pageAddress, filePageAddr>>
        BY <2>1, <2>2 DEF SwitchPage
      <3> QED BY <1>1, <2>1, <2>2, <3>1 DEF PageInv
    <2>3. CASE file' # file /\ mode = "split"
      <3>1. pageAddress' = NoPage
        BY <2>1, <2>3 DEF SwitchPage
      <3> QED BY <1>1, <2>3, <3>1 DEF PageInv
    <2>4. CASE file' # file /\ mode # "split"
      <3>1. mode = "slaveboot"
        BY <1>1, <2>4, FileNames DEF LoopInv, CallInv, OptionsOK, FileOK
      <3>2. file \in SlaveFiles /\ file' \in SlaveFiles /\ ~Parallel
        BY <1>1, <3>1 DEF LoopInv, CallInv, OptionsOK, FileOK, SlaveFiles, Parallel
      <3>3. /\ filePageAddr' = [filePageAddr EXCEPT ![file] = pageAddress]
            /\ pageAddress' = filePageAddr'[file']
        BY <2>1, <2>4 DEF SwitchPage
      <3>4. /\ filePageAddr'[file] = pageAddress
            /\ \A g \in SlaveFiles \ {file} : filePageAddr'[g] = filePageAddr[g]
        BY <3>2, <3>3 DEF McsTypeOK
      <3>5. \A g \in SlaveFiles : filePageAddr'[g] \in {NoPage, files[g].page}
        BY <3>1, <3>4 DEF PageInv
      <3> QED BY <1>1, <2>1, <3>2, <3>3, <3>5 DEF PageInv
    <2> QED BY <2>2, <2>3, <2>4
  <1>4. CASE Record
    <2>1. /\ UNCHANGED <<file, filePageAddr>> /\ pageAddress' = NewPage /\ NewPage # NoPage
          /\ NewPage \in Nat
      BY <1>4, PageAndAddress DEF Record, outputVars, NoPage
    <2>2. CASE Parallel
      <3>1. file = Boot /\ mode = "normal"
        BY <2>2, SimpleLoop
      <3>2. \A f \in {Boot, SecondFlash} :
                files'[f].page = IF Paged THEN NewPage ELSE files[f].page
        BY <1>4, <2>2, ParallelTurn DEF Gains
      <3>3. \A f \in {Boot, SecondFlash} : files'[f].page = NewPage
        BY <2>1, <2>2, <3>1, <3>2 DEF Paged, PageInv
      <3> QED BY <1>1, <2>1, <3>1, <3>3 DEF PageInv
    <2>3. CASE ~Parallel
      <3>1. /\ files'[file].page = IF Paged THEN NewPage ELSE files[file].page
            /\ \A g \in FileIds \ {file} : files'[g] = files[g]
        BY <1>4, <2>3, SimpleLoop, PlainTurn DEF Gains
      <3>2. files'[file].page = NewPage
        BY <2>1, <3>1 DEF Paged, PageInv
      <3> QED BY <1>1, <1>2, <2>1, <2>3, <3>1, <3>2 DEF PageInv
    <2> QED BY <2>2, <2>3
  <1>5. CASE EndFile
    <2>1. \A f \in FileIds : Ended(f).page = files[f].page
      BY DEF Ended, McsTypeOK, Contents
    <2>2. \A f \in FileIds : files'[f].page = files[f].page
      BY <1>2, <1>5, <2>1 DEF EndFile, McsTypeOK
    <2> QED BY <1>1, <1>2, <1>5, <2>2 DEF EndFile, PageInv
  <1>6. CASE BeginCall \/ EndOfCall \/ UNCHANGED mcsVars
    <2>1. UNCHANGED <<files, file, pageAddress, filePageAddr>>
      BY <1>6 DEF BeginCall, EndOfCall, mcsVars, outputVars
    <2> QED BY <1>1, <2>1 DEF PageInv
  <1> QED BY <1>3, <1>4, <1>5, <1>6 DEF McsNext

\* The offset of a file is that of the section that goes to it.
LEMMA OffsetStep ==
    ASSUME LoopInv, LoopInv', McsTypeOK, Listed, OffsetInv, [McsNext]_mcsVars
    PROVE  OffsetInv'
  <1> USE CallNames, SizeAssumption
  <1>1. mode' = mode
    BY McsFrame
  <1>2. CASE Output
    <2>1. OutputNext /\ cursor \in Nat
      BY <1>2 DEF Output, LoopInv, OutputInv
    <2>2. CASE WriteSection
      <3>1. Current \in Index /\ cursor' = Current /\ cursor' # 0
            /\ UNCHANGED <<sections, sizes>>
        BY <2>2 DEF WriteSection, InLoop, LoopInv, OutputInv, Current, Index, vars
      <3>2. CASE mode # "slaveboot"
        BY <1>1, <2>2, <3>2 DEF WriteSection, OffsetInv
      <3>3. CASE mode = "slaveboot" /\ sections[Current].kind # "BootHeader"
        <4>1. /\ file' = SlaveFile(Current)
              /\ splitOffset' = SlaveOffset(SlaveFile(Current))
          BY <2>2, <3>3 DEF WriteSection
        <4>2. SlaveOffset(SlaveFile(Current)) = LinkedOffset(Current)
          <5>1. CASE sections[Current].kind \in {"bootloader", "bootloaderAC"}
            BY <5>1 DEF SlaveOffset, SlaveFile, LinkedOffset, Boot, HeadersFile
          <5>2. CASE sections[Current].kind \in {"header", "checksum"}
            BY <5>2 DEF SlaveOffset, SlaveFile, LinkedOffset, Boot, HeadersFile
          <5>3. CASE sections[Current].kind \notin
                        {"BootHeader", "bootloader", "bootloaderAC", "header", "checksum"}
            <6>1. /\ sizes.bootheader \in Int /\ sizes.allHeader \in Int
                  /\ sizes.bootloader \in Int
              BY DEF LoopInv, TypeOK, SizeFields
            <6>2. /\ LinkedOffset(Current) = sizes.bootheader + sizes.allHeader + sizes.bootloader
                  /\ SlaveFile(Current) = PartitionFile
              BY <5>3 DEF SlaveFile, LinkedOffset
            <6>3. SlaveOffset(PartitionFile)
                    = sizes.bootheader + sizes.bootloader + sizes.allHeader
              BY DEF SlaveOffset, Boot, HeadersFile, PartitionFile
            <6> QED BY <6>1, <6>2, <6>3
          <5> QED BY <3>3, <5>1, <5>2, <5>3
        <4>3. SlaveFile(cursor)' = SlaveFile(Current) /\ LinkedOffset(cursor)' = LinkedOffset(Current)
          BY <3>1 DEF SlaveFile, LinkedOffset
        <4> QED BY <1>1, <3>1, <3>3, <4>1, <4>2, <4>3 DEF OffsetInv
      <3>4. CASE mode = "slaveboot" /\ sections[Current].kind = "BootHeader"
        <4>1. cursor = 0
          BY <2>1, <3>1, <3>4 DEF Listed, Current
        <4>2. file' = Boot /\ splitOffset' = 0
          BY <2>2, <3>4, <4>1 DEF WriteSection, OffsetInv
        <4>3. SlaveFile(cursor)' = Boot /\ LinkedOffset(cursor)' = 0
          BY <3>1, <3>4 DEF SlaveFile, LinkedOffset
        <4> QED BY <1>1, <3>1, <3>4, <4>2, <4>3 DEF OffsetInv
      <3> QED BY <3>2, <3>3, <3>4
    <2>3. CASE ~WriteSection
      <3>1. /\ splitOffset' = splitOffset /\ cursor' = cursor
            /\ mode = "slaveboot" /\ cursor = 0 => file' = file
        BY <2>1, <2>3 DEF OutputNext, Layout, outputVars, Open, BackwardsError, FillGap,
              EndSplitFile, OpenSplitFile, Postscript, CloseNext, ClosePhases, LoopInv, CallInv,
              SwitchOK, PhaseOK
      <3>2. call'.op # "Write"
        BY <2>1, <2>3 DEF OutputNext, Layout, outputVars, Open, BackwardsError, FillGap, InLoop,
              EndSplitFile, OpenSplitFile, Postscript, CloseNext, LoopInv, CallInv, PhaseOK
      <3> QED BY <1>1, <3>1, <3>2 DEF OffsetInv
    <2> QED BY <2>2, <2>3
  <1>3. CASE ~Output
    <2>1. /\ UNCHANGED <<vars, cursor, file, splitOffset>>
          /\ call' \in {call, NoCall}
      BY <1>3, McsFrame DEF McsNext, mcsVars, BeginCall, Record, EndOfCall, EndFile, outputVars, Return
    <2> QED BY <1>1, <2>1 DEF OffsetInv, SlaveFile, LinkedOffset, vars
  <1> QED BY <1>2, <1>3

\* The call of a gap starts behind the sections before it.
LEMMA GapStep ==
    ASSUME LoopInv, LoopInv', McsTypeOK, GapInv, [McsNext]_mcsVars
    PROVE  GapInv'
  <1> USE CallNames, SizeAssumption
  <1>0. 0 < AddressModulus
    BY DEF Addresses
  <1>1. CASE Output
    <2>1. OutputNext
      BY <1>1 DEF Output
    <2>2. CASE FillGap
      <3>1. /\ call'.op = "Fill" /\ call'.start = written /\ cursor' = cursor
            /\ written < Address[Current] /\ UNCHANGED <<sections, Address>> /\ Current \in Index
        BY <2>2 DEF FillGap, InLoop, LoopInv, OutputInv, Current, Index, vars
      <3>2. written < AddressModulus
        BY <3>1 DEF LoopInv, TypeOK, OutputInv, Addresses
      <3>3. \A i \in 1 .. cursor : End(i)' <= written
        BY <3>1 DEF LoopInv, CallInv, Ordered, End
      <3> QED BY <3>1, <3>2, <3>3 DEF GapInv
    <2>3. CASE WriteSection
      <3>1. call'.op = "Write" /\ call'.start = Address[Current] /\ Current \in Index
        BY <2>3 DEF WriteSection, InLoop, LoopInv, OutputInv, Current, Index
      <3> QED BY <3>1 DEF GapInv, LoopInv, TypeOK, Addresses
    <2>4. CASE ~FillGap /\ ~WriteSection
      <3>1. call' \in {NoCall, EndCall}
        BY <2>1, <2>4 DEF OutputNext, Layout, outputVars, Open, BackwardsError, InLoop,
              EndSplitFile, OpenSplitFile, Postscript, CloseNext, LoopInv, CallInv, PhaseOK
      <3> QED BY <1>0, <3>1 DEF GapInv
    <2> QED BY <2>2, <2>3, <2>4
  <1>2. CASE ~Output
    <2>1. UNCHANGED <<vars, cursor>> /\ call' \in {call, NoCall}
      BY <1>2, McsFrame DEF McsNext, mcsVars, BeginCall, Record, EndOfCall, EndFile, outputVars, Return
    <2> QED BY <1>0, <2>1 DEF GapInv, End, vars
  <1> QED BY <1>1, <1>2

\* Outside a slave boot split a call starts at its address in the file.
LEMMA StartInFile ==
    ASSUME LoopInv, GapInv, OffsetInv, mode # "slaveboot"
    PROVE  InFile(call.start) = call.start /\ call.start \in Nat
  <1>1. call.start \in Nat /\ call.start < AddressModulus
    BY CallNames DEF LoopInv, CallInv, CallOK, GapInv
  <1>2. splitOffset = 0
    BY DEF OffsetInv
  <1>3. call.start - splitOffset = call.start
    BY <1>1, <1>2
  <1> QED BY <1>1, <1>3, SizeAssumption, SmallRemainder DEF InFile

\* A turn advances the line by what it takes from the buffer, and not past the end.
LEMMA LineStep ==
    ASSUME SimpleModes, LoopInv, LoopInv', McsTypeOK, McsTypeOK', EndInv, LineInv,
           [McsNext]_mcsVars
    PROVE  LineInv'
  <1> USE CallNames, SizeAssumption
  <1>1. CASE Output \/ EndOfCall \/ EndFile
    <2>1. ~busy'
      BY <1>1 DEF Output, loopVars, EndOfCall, EndFile, McsTypeOK
    <2> QED BY <2>1 DEF LineInv
  <1>2. CASE BeginCall
    <2>1. CASE call.op = "Fill" /\ ~doFill
      BY <1>2, <2>1 DEF BeginCall, loopVars, LineInv
    <2>2. CASE ~(call.op = "Fill" /\ ~doFill)
      <3>1. /\ UNCHANGED <<call, splitOffset, written, doFill>>
            /\ lineAddress' = InFile(call.start)
            /\ endAddress' = IF call.op = "Fill" THEN call.start + call.length
                             ELSE (InFile(call.start) + call.length) % AddressModulus
            /\ length' = call.length
        BY <1>2, <2>2 DEF BeginCall, options
      <3>2. /\ call.start \in Nat /\ call.length \in Nat /\ call.start + call.length = written
        BY <1>2 DEF BeginCall, LoopInv, CallInv, CallOK
      <3>3. InFile(call.start)' = InFile(call.start) /\ InFile(call.start) \in Nat
        BY <3>1 DEF InFile, McsTypeOK
      <3>4. InFile(call.start) + (call.length - call.length) = InFile(call.start)
        BY <3>2, <3>3
      <3>5. call.op = "Fill" => doFill
        BY <2>2 DEF LoopInv, CallInv, OptionsOK
      <3> QED BY <3>1, <3>2, <3>3, <3>4, <3>5 DEF LineInv
    <2> QED BY <2>1, <2>2
  <1>3. CASE Record
    <2> DEFINE n == BytesToWrite
    <2>1. /\ UNCHANGED <<call, splitOffset, written, doFill, busy>> /\ busy
          /\ lineAddress < endAddress
          /\ lineAddress' = lineAddress + n /\ endAddress' = endAddress
          /\ length' = IF call.op = "Fill" THEN length ELSE length - n
          /\ n = Least(Line, IF call.op = "Fill" THEN endAddress - lineAddress ELSE length)
      BY <1>3, SimpleLoop DEF Record, outputVars, options
    <2>2. InFile(call.start)' = InFile(call.start)
      BY <2>1 DEF InFile
    <2>3. call.op \in {"Fill", "Write"} /\ call.length \in Nat /\ call.start \in Nat
      BY <2>1 DEF McsTypeOK, LoopInv, CallInv, CallOK
    <2>4. /\ Line \in Nat /\ lineAddress \in Nat /\ endAddress \in Nat /\ length \in Nat
      BY McsAssumption DEF Line, McsTypeOK
    <2>5. n \in Nat /\ (call.op = "Write" => n <= length)
      BY <2>1, <2>3, <2>4 DEF Least
    <2>6. InFile(call.start) \in Nat
      <3>1. call.start - splitOffset \in Int /\ AddressModulus \in Nat \ {0}
        BY <2>3 DEF McsTypeOK, Addresses
      <3> QED BY <3>1 DEF InFile
    <2> HIDE DEF n
    <2>7. CASE call.op = "Write"
      <3>1. /\ length <= call.length
            /\ lineAddress = InFile(call.start) + (call.length - length)
            /\ endAddress = (InFile(call.start) + call.length) % AddressModulus
        BY <2>1, <2>7 DEF LineInv
      <3>2. /\ length' <= call.length
            /\ lineAddress' = InFile(call.start) + (call.length - length')
        BY <2>1, <2>3, <2>4, <2>5, <2>6, <2>7, <3>1
      <3> QED BY <2>1, <2>2, <2>7, <3>1, <3>2 DEF LineInv
    <2>8. CASE call.op = "Fill"
      <3>1. doFill /\ lineAddress >= InFile(call.start) /\ endAddress = written
        BY <2>1, <2>8 DEF LineInv
      <3>2. lineAddress' >= InFile(call.start)
        BY <2>1, <2>4, <2>5, <2>6, <3>1
      <3> QED BY <2>1, <2>2, <2>8, <3>1, <3>2 DEF LineInv
    <2> QED BY <2>3, <2>7, <2>8
  <1>4. CASE UNCHANGED mcsVars
    BY <1>4 DEF mcsVars, outputVars, options, loopVars, LineInv, InFile
  <1> QED BY <1>1, <1>2, <1>3, <1>4 DEF McsNext

\* Sums and differences of even numbers are even.
LEMMA EvenSums ==
    ASSUME NEW x \in Nat, NEW y \in Nat, x % 2 = 0, y % 2 = 0
    PROVE  (x + y) % 2 = 0 /\ (x - y) % 2 = 0
  OBVIOUS

\* With sections of even length the parallel mode only meets even numbers.
LEMMA EvenStep ==
    ASSUME SimpleModes, LoopInv, LoopInv', McsTypeOK, McsTypeOK', EndInv, Aligned,
           OffsetInv, GapInv, LineInv, EvenInv, [McsNext]_mcsVars
    PROVE  EvenInv'
  <1> USE CallNames, SizeAssumption
  <1> SUFFICES ASSUME Parallel
               PROVE  /\ written' % 2 = 0 /\ call'.start % 2 = 0 /\ call'.length % 2 = 0
                      /\ busy' => lineAddress' % 2 = 0 /\ length' % 2 = 0
    BY McsFrame DEF EvenInv
  <1>1. EvenImage /\ mode = "normal"
    BY SimpleLoop
  <1>2. \A i \in Index : /\ Address[i] \in Nat /\ Address[i] % 2 = 0
                         /\ sections[i].Length \in Nat /\ sections[i].Length % 2 = 0
    <2> TAKE i \in Index
    <2>1. Address[i] \in Nat /\ sections[i].Length \in Nat /\ sections[i].Length \in Lengths
      BY SectionNumbers DEF LoopInv, TypeOK, Section
    <2> QED BY <1>1, <2>1, EvenAligned DEF Aligned, EvenImage, Words
  <1>3. /\ written % 2 = 0 /\ call.start % 2 = 0 /\ call.length % 2 = 0
        /\ busy => lineAddress % 2 = 0 /\ length % 2 = 0
        /\ written \in Nat /\ call.start \in Nat /\ call.length \in Nat
    BY DEF EvenInv, LoopInv, OutputInv, CallInv, CallOK
  <1>4. NoCall.start % 2 = 0 /\ NoCall.length % 2 = 0 /\ EndCall.start % 2 = 0 /\ EndCall.length % 2 = 0
    OBVIOUS
  <1>5. CASE Output
    <2>1. OutputNext /\ ~busy'
      BY <1>5 DEF Output, loopVars
    <2>2. CASE FillGap
      <3>1. /\ call'.start = written /\ call'.length = Address[Current] - written
            /\ written' = Address[Current] /\ Current \in Index
        BY <2>2 DEF FillGap, InLoop, LoopInv, OutputInv, Current, Index
      <3> QED BY <1>2, <1>3, <2>1, <3>1, EvenSums
    <2>3. CASE WriteSection
      <3>1. /\ call'.start = Address[Current] /\ call'.length = sections[Current].Length
            /\ written' = Address[Current] + sections[Current].Length /\ Current \in Index
        BY <2>3 DEF WriteSection, InLoop, LoopInv, OutputInv, Current, Index, End
      <3> QED BY <1>2, <1>3, <2>1, <3>1, EvenSums
    <2>4. CASE ~FillGap /\ ~WriteSection
      <3>1. call' \in {NoCall, EndCall} /\ written' = written
        BY <2>1, <2>4 DEF OutputNext, Layout, outputVars, Open, BackwardsError, InLoop,
              EndSplitFile, OpenSplitFile, Postscript, CloseNext, LoopInv, CallInv, PhaseOK
      <3> QED BY <1>3, <1>4, <2>1, <3>1
    <2> QED BY <2>2, <2>3, <2>4
  <1>6. CASE BeginCall
    <2>1. call' \in {NoCall, call} /\ written' = written
      BY <1>6 DEF BeginCall, Return
    <2>2. busy' => lineAddress' = InFile(call.start) /\ length' = call.length
      BY <1>6 DEF BeginCall, loopVars, McsTypeOK
    <2>3. InFile(call.start) = call.start
      BY <1>1, StartInFile
    <2> QED BY <1>3, <1>4, <2>1, <2>2, <2>3
  <1>7. CASE Record
    <2> DEFINE n == BytesToWrite
    <2>1. /\ UNCHANGED <<call, written>> /\ busy /\ lineAddress < endAddress
          /\ lineAddress' = lineAddress + n
          /\ length' = IF call.op = "Fill" THEN length ELSE length - n
          /\ n = Least(Line, IF call.op = "Fill" THEN endAddress - lineAddress ELSE length)
      BY <1>7, SimpleLoop DEF Record, outputVars
    <2>2. /\ lineAddress \in Nat /\ endAddress \in Nat /\ length \in Nat
          /\ call.op = "Fill" => endAddress = written
          /\ call.op \in {"Fill", "Write"}
      BY <2>1 DEF McsTypeOK, LineInv
    <2>3. Line \in Nat /\ Line % 2 = 0
      BY McsAssumption DEF Line
    <2>4. n \in Nat /\ n % 2 = 0
      <3>1. CASE call.op = "Fill"
        <4>1. (endAddress - lineAddress) \in Nat /\ (endAddress - lineAddress) % 2 = 0
          BY <1>3, <2>1, <2>2, <3>1, EvenSums
        <4> QED BY <2>1, <2>3, <3>1, <4>1 DEF Least
      <3>2. CASE call.op = "Write"
        BY <1>3, <2>1, <2>2, <2>3, <3>2 DEF Least
      <3> QED BY <2>2, <3>1, <3>2
    <2> HIDE DEF n
    <2>5. (lineAddress + n) % 2 = 0 /\ (length - n) % 2 = 0
      BY <1>3, <2>1, <2>2, <2>4, EvenSums
    <2> QED BY <1>3, <2>1, <2>5
  <1>8. CASE EndOfCall \/ EndFile
    <2>1. call' = NoCall /\ written' = written /\ ~busy'
      BY <1>8 DEF EndOfCall, EndFile, Return, McsTypeOK
    <2> QED BY <1>3, <1>4, <2>1
  <1>9. CASE UNCHANGED mcsVars
    BY <1>3, <1>9 DEF mcsVars, outputVars, loopVars
  <1> QED BY <1>5, <1>6, <1>7, <1>8, <1>9 DEF McsNext

McsLoop == LoopInv /\ McsTypeOK /\ EndInv /\ PlaceInv

LEMMA PlaceInit == McsInit => PlaceInv
  <1> SUFFICES ASSUME McsInit PROVE PlaceInv
    OBVIOUS
  <1>1. /\ pageAddress = NoPage /\ filePageAddr = [f \in SlaveFiles |-> NoPage]
        /\ splitOffset = 0 /\ file = Boot /\ call = NoCall /\ busy = FALSE /\ written = 0
        /\ cursor = 0
    BY DEF McsInit, OutputInit, SlaveFiles
  <1>2. PageInv
    BY <1>1 DEF PageInv
  <1>3. GapInv
    BY <1>1, CallNames, SizeAssumption DEF GapInv, Addresses
  <1> QED BY <1>1, <1>2, <1>3, CallNames DEF PlaceInv, OffsetInv, LineInv, EvenInv

\* Where the next record of the writer goes, at every point.
LEMMA PlacesInvariant ==
    ASSUME SimpleModes
    PROVE  McsSpec => [](Inv /\ Origins /\ Listed /\ HeadersBelow /\ McsLoop)
  <1>1. McsSpec => [](Aligned /\ Listed /\ HeadersBelow)
    BY McsRunsLoop, OutputKeepsLayout, AlignedInvariant, HeadersInvariant, PTL
  <1>2. /\ LoopInv /\ LoopInv' /\ McsTypeOK /\ McsTypeOK' /\ EndInv /\ Aligned /\ Listed
        /\ PlaceInv /\ [McsNext]_mcsVars
        => PlaceInv'
    BY PageStep, OffsetStep, GapStep, LineStep, EvenStep DEF PlaceInv
  <1>3. McsSpec => []EndInv
    BY EndInit, EndStep, McsTypes, PTL DEF McsSpec
  <1>4. McsSpec => []PlaceInv
    BY <1>1, <1>2, <1>3, PlaceInit, McsTypes, PTL DEF McsSpec
  <1> QED BY <1>1, <1>3, <1>4, McsTypes, PTL DEF McsLoop

-----------------------------------------------------------------------------
(* What is in the files, without the stacked mode.                         *)

\* The file and the place of the byte at address p of a call.
Slot(p) ==
    IF Parallel
    THEN [file |-> IF p % 2 = 0 THEN Boot ELSE SecondFlash, at |-> p \div 2]
    ELSE [file |-> file, at |-> p]

\* A turn puts its bytes one after the other from the address of the line.
LEMMA TurnPuts ==
    ASSUME SimpleModes, McsLoop, Record
    PROVE  /\ BytesToWrite \in Nat /\ lineAddress \in Nat
           /\ lineAddress + BytesToWrite <= endAddress \/ call.op = "Write"
           /\ call.op = "Write" => BytesToWrite <= length
           /\ \A f \in FileIds, at \in Nat, v \in Int :
                 <<at, v>> \in files'[f].data <=>
                    \/ <<at, v>> \in files[f].data
                    \/ \E j \in 0 .. (BytesToWrite - 1) :
                          Slot(lineAddress + j) = [file |-> f, at |-> at] /\ v = SourceByte(j)
  <1> USE SizeAssumption
  <1>0. LoopInv /\ McsTypeOK /\ EndInv /\ PlaceInv
    BY DEF McsLoop
  <1>1. PICK L \in Nat : L = lineAddress
    BY <1>0 DEF McsTypeOK
  <1>2. PICK n \in Nat : /\ n = BytesToWrite
                         /\ call.op = "Write" => n <= length
                         /\ L + n <= endAddress \/ call.op = "Write"
                         /\ Parallel => n % 2 = 0
    <2>1. /\ BytesToWrite =
                Least(Line, IF call.op = "Fill" THEN endAddress - lineAddress ELSE length)
          /\ busy /\ lineAddress < endAddress
      BY <1>0, SimpleLoop DEF Record
    <2>2. /\ endAddress \in Nat /\ length \in Nat /\ Line \in Nat /\ (Parallel => Line % 2 = 0)
          /\ call.op \in {"Fill", "Write"}
      BY <1>0, <2>1, McsAssumption DEF McsTypeOK, Line
    <2>3. Parallel => length % 2 = 0 /\ L % 2 = 0 /\ (call.op = "Fill" => endAddress % 2 = 0)
      BY <1>0, <1>1, <2>1 DEF PlaceInv, EvenInv, LineInv
    <2>4. Parallel /\ call.op = "Fill" => (endAddress - L) % 2 = 0
      BY <1>1, <2>2, <2>3, EvenSums
    <2>5. CASE call.op = "Fill"
      <3>1. endAddress - L \in Nat
        BY <1>1, <2>1, <2>2
      <3> QED BY <1>1, <2>1, <2>2, <2>4, <2>5, <3>1 DEF Least
    <2>6. CASE call.op = "Write"
      BY <1>1, <2>1, <2>2, <2>3, <2>6 DEF Least
    <2> QED BY <2>2, <2>5, <2>6
  <1>3. file \in FileIds /\ Boot \in FileIds /\ SecondFlash \in FileIds /\ Boot # SecondFlash
    BY <1>0, FileNames
  <1>4. CASE ~Parallel
    <2>1. Base(file) = L
      <3>1. NewPage \in Nat /\ NewPage * PageSize + RecordAddress = L
        BY <1>0, <1>1, <1>4, PageAndAddress
      <3>2. ~Paged => files[file].page = NewPage
        BY <1>0, <3>1 DEF Paged, PlaceInv, PageInv, NoPage
      <3> QED BY <3>1, <3>2 DEF Base
    <2>2. /\ files'[file].data = files[file].data
                                    \cup {<<L + k, SourceByte(k)>> : k \in 0 .. (n - 1)}
          /\ \A g \in FileIds \ {file} : files'[g] = files[g]
      BY <1>0, <1>2, <1>4, <2>1, SimpleLoop, PlainTurn DEF Gains
    <2> SUFFICES ASSUME NEW f \in FileIds, NEW at \in Nat, NEW v \in Int
                 PROVE  <<at, v>> \in files'[f].data <=>
                            \/ <<at, v>> \in files[f].data
                            \/ \E j \in 0 .. (n - 1) :
                                  Slot(L + j) = [file |-> f, at |-> at] /\ v = SourceByte(j)
      BY <1>1, <1>2
    <2>3. \A j \in 0 .. (n - 1) : Slot(L + j) = [file |-> f, at |-> at] <=> f = file /\ at = L + j
      BY <1>4 DEF Slot
    <2> QED BY <2>2, <2>3
  <1>5. CASE Parallel
    <2>0. file = Boot
      BY <1>0, <1>5, SimpleLoop
    <2>1. PICK s \in Nat, h \in Nat : L = 2 * s /\ L \div 2 = s /\ n = 2 * h /\ n \div 2 = h
      <3>1. L % 2 = 0 /\ n % 2 = 0
        BY <1>0, <1>1, <1>2, <1>5 DEF Record, PlaceInv, EvenInv
      <3> QED BY <3>1
    <2>2. Base(Boot) = s /\ Base(SecondFlash) = s
      <3>1. NewPage \in Nat /\ NewPage * PageSize + RecordAddress = s
        BY <1>0, <1>1, <1>5, <2>1, PageAndAddress DEF PlaceInv, EvenInv, Record
      <3>2. ~Paged => files[Boot].page = NewPage /\ files[SecondFlash].page = NewPage
        BY <1>0, <1>5, <2>0, <3>1 DEF Paged, PlaceInv, PageInv, NoPage
      <3> QED BY <3>1, <3>2 DEF Base
    <2>3. /\ files'[Boot].data = files[Boot].data
                    \cup {<<s + k, SourceByte(2 * k)>> : k \in 0 .. (h - 1)}
          /\ files'[SecondFlash].data = files[SecondFlash].data
                    \cup {<<s + k, SourceByte(2 * k + 1)>> : k \in 0 .. (h - 1)}
          /\ \A g \in FileIds \ {Boot, SecondFlash} : files'[g] = files[g]
      BY <1>0, <1>2, <1>5, <2>1, <2>2, ParallelTurn DEF Gains
    <2> SUFFICES ASSUME NEW f \in FileIds, NEW at \in Nat, NEW v \in Int
                 PROVE  <<at, v>> \in files'[f].data <=>
                            \/ <<at, v>> \in files[f].data
                            \/ \E j \in 0 .. (n - 1) :
                                  Slot(L + j) = [file |-> f, at |-> at] /\ v = SourceByte(j)
      BY <1>1, <1>2
    <2>4. \A j \in 0 .. (n - 1) :
            Slot(L + j) = [file |-> f, at |-> at] <=>
                /\ at = (L + j) \div 2
                /\ f = IF (L + j) % 2 = 0 THEN Boot ELSE SecondFlash
      BY <1>5 DEF Slot
    <2>5. \A j \in 0 .. (n - 1) :
            /\ (L + j) % 2 = 0 => \E k \in 0 .. (h - 1) : j = 2 * k /\ (L + j) \div 2 = s + k
            /\ (L + j) % 2 # 0 => \E k \in 0 .. (h - 1) : j = 2 * k + 1 /\ (L + j) \div 2 = s + k
      <3> TAKE j \in 0 .. (n - 1)
      <3>1. PICK k \in Nat : j = 2 * k \/ j = 2 * k + 1
        <4>1. j \div 2 \in Nat /\ (j = 2 * (j \div 2) \/ j = 2 * (j \div 2) + 1)
          OBVIOUS
        <4> QED BY <4>1
      <3>2. k \in 0 .. (h - 1)
        BY <2>1, <3>1
      <3> QED BY <2>1, <3>1, <3>2
    <2>6. \A k \in 0 .. (h - 1) :
            /\ 2 * k \in 0 .. (n - 1) /\ 2 * k + 1 \in 0 .. (n - 1)
            /\ (L + 2 * k) % 2 = 0 /\ (L + 2 * k) \div 2 = s + k
            /\ (L + (2 * k + 1)) % 2 # 0 /\ (L + (2 * k + 1)) \div 2 = s + k
      BY <2>1
    <2>7. CASE f = Boot
      <3>1. (\E j \in 0 .. (n - 1) : Slot(L + j) = [file |-> f, at |-> at] /\ v = SourceByte(j))
                <=> \E k \in 0 .. (h - 1) : at = s + k /\ v = SourceByte(2 * k)
        <4>1. ASSUME NEW j \in 0 .. (n - 1), Slot(L + j) = [file |-> f, at |-> at],
                     v = SourceByte(j)
              PROVE  \E k \in 0 .. (h - 1) : at = s + k /\ v = SourceByte(2 * k)
          <5>1. at = (L + j) \div 2 /\ (L + j) % 2 = 0
            BY <1>3, <2>4, <2>7, <4>1
          <5>2. PICK k \in 0 .. (h - 1) : j = 2 * k /\ (L + j) \div 2 = s + k
            BY <2>5, <5>1
          <5> QED BY <4>1, <5>1, <5>2
        <4>2. ASSUME NEW k \in 0 .. (h - 1), at = s + k, v = SourceByte(2 * k)
              PROVE  \E j \in 0 .. (n - 1) :
                        Slot(L + j) = [file |-> f, at |-> at] /\ v = SourceByte(j)
          <5>1. PICK j \in 0 .. (n - 1) : j = 2 * k
            BY <2>6
          <5>2. Slot(L + j) = [file |-> f, at |-> at]
            BY <2>4, <2>6, <2>7, <4>2, <5>1
          <5> QED BY <4>2, <5>1, <5>2
        <4> QED BY <4>1, <4>2
      <3> QED BY <2>3, <2>7, <3>1
    <2>8. CASE f = SecondFlash
      <3>1. (\E j \in 0 .. (n - 1) : Slot(L + j) = [file |-> f, at |-> at] /\ v = SourceByte(j))
                <=> \E k \in 0 .. (h - 1) : at = s + k /\ v = SourceByte(2 * k + 1)
        <4>1. ASSUME NEW j \in 0 .. (n - 1), Slot(L + j) = [file |-> f, at |-> at],
                     v = SourceByte(j)
              PROVE  \E k \in 0 .. (h - 1) : at = s + k /\ v = SourceByte(2 * k + 1)
          <5>1. at = (L + j) \div 2 /\ (L + j) % 2 # 0
            BY <1>3, <2>4, <2>8, <4>1
          <5>2. PICK k \in 0 .. (h - 1) : j = 2 * k + 1 /\ (L + j) \div 2 = s + k
            BY <2>5, <5>1
          <5> QED BY <4>1, <5>1, <5>2
        <4>2. ASSUME NEW k \in 0 .. (h - 1), at = s + k, v = SourceByte(2 * k + 1)
              PROVE  \E j \in 0 .. (n - 1) :
                        Slot(L + j) = [file |-> f, at |-> at] /\ v = SourceByte(j)
          <5>1. PICK j \in 0 .. (n - 1) : j = 2 * k + 1
            BY <2>6
          <5>2. Slot(L + j) = [file |-> f, at |-> at]
            BY <2>4, <2>6, <2>8, <4>2, <5>1
          <5> QED BY <4>2, <5>1, <5>2
        <4> QED BY <4>1, <4>2
      <3> QED BY <2>3, <2>8, <3>1
    <2>9. CASE f \notin {Boot, SecondFlash}
      BY <2>3, <2>4, <2>9
    <2> QED BY <2>7, <2>8, <2>9
  <1> QED BY <1>1, <1>2, <1>4, <1>5

\* The home of a byte of the section that is being written is its slot.
LEMMA WriteHome ==
    ASSUME SimpleModes, McsLoop, call.op = "Write", NEW b \in Nat
    PROVE  HomeOf(cursor, b) = Slot(b - splitOffset)
  <1>0. LoopInv /\ McsTypeOK /\ EndInv /\ PlaceInv
    BY DEF McsLoop
  <1>1. cursor \in Index /\ cursor \in Nat /\ call # NoCall /\ mode \in {"normal", "split", "slaveboot"}
    BY <1>0, CallNames DEF LoopInv, OutputInv, CallInv, CallOK, OptionsOK, Index
  <1>2. qspi \in {"none", "parallel"}
    BY <1>0, SimpleLoop
  <1>3. mode # "slaveboot" => splitOffset = 0 /\ b - splitOffset = b
    BY <1>0 DEF PlaceInv, OffsetInv
  <1>4. CASE mode = "slaveboot"
    <2>1. /\ file = SlaveFile(cursor) /\ splitOffset = LinkedOffset(cursor)
          /\ ~Parallel /\ qspi = "none"
      BY <1>0, <1>4 DEF PlaceInv, OffsetInv, Parallel, LoopInv, CallInv, OptionsOK
    <2> QED BY <1>4, <2>1 DEF HomeOf, Slot
  <1>5. CASE mode = "split"
    <2>1. PICK p \in 0 .. NumSections : file = LeadFile(p) /\ IsLead(p, cursor)
      BY <1>0, <1>1, <1>5 DEF LoopInv, CallInv, FileOK
    <2>2. Leading(cursor) = p
      BY <1>0, <1>1, <2>1, LeadingIs
    <2>3. ~Parallel /\ qspi = "none"
      BY <1>0, <1>5 DEF Parallel, LoopInv, CallInv, OptionsOK
    <2>4. HomeOf(cursor, b) = [file |-> file, at |-> b]
      BY <1>5, <2>1, <2>2, <2>3 DEF HomeOf, LeadFile
    <2> QED BY <1>3, <1>5, <2>3, <2>4 DEF Slot
  <1>6. CASE mode = "normal"
    <2>1. file = Boot
      BY <1>0, <1>6, FileNames
    <2>2. CASE qspi = "parallel"
      BY <1>3, <1>6, <2>1, <2>2 DEF HomeOf, Slot, Parallel
    <2>3. CASE qspi = "none"
      BY <1>3, <1>6, <2>1, <2>3 DEF HomeOf, Slot, Parallel
    <2> QED BY <1>2, <2>2, <2>3
  <1> QED BY <1>1, <1>4, <1>5, <1>6

\* Home is where the layout and the options say, and both stay.
LEMMA HomeKept ==
    ASSUME UNCHANGED <<vars, options>>
    PROVE  \A i, b : HomeOf(i, b)' = HomeOf(i, b) /\ BytesOf(i)' = BytesOf(i)
  <1> USE DEF vars, options
  <1>1. \A i : (Leading(i))' = Leading(i)
    BY DEF Leading
  <1> QED BY <1>1 DEF HomeOf, SlaveFile, LinkedOffset, BytesOf, End

\* The steps that leave the bytes of the files alone.
LEMMA OtherSteps ==
    ASSUME LoopInv, McsTypeOK, [McsNext]_mcsVars, ~Record
    PROVE  \A f \in FileIds : files'[f].data = files[f].data
  <1>1. CASE EndFile
    <2>1. \A f \in FileIds : Ended(f).data = files[f].data
      BY DEF Ended, McsTypeOK, Contents
    <2> QED BY <1>1, <2>1, FileNames DEF EndFile, McsTypeOK
  <1>2. CASE ~EndFile
    BY <1>2 DEF McsNext, mcsVars, Output, BeginCall, EndOfCall
  <1> QED BY <1>1, <1>2

\* A byte of a file is a pair of a place and a value.
LEMMA PairsOnly ==
    ASSUME McsTypeOK
    PROVE  \A f \in FileIds : \A x \in files[f].data :
                x[1] \in Nat /\ x[2] \in Int /\ x = <<x[1], x[2]>>
  BY DEF McsTypeOK, Contents

\* The place of a slot stands for its address.
LEMMA SlotAddress ==
    ASSUME LoopInv, NEW p \in Nat
    PROVE  /\ AddressAt(Slot(p).file, Slot(p).at) = p
           /\ Slot(p).file \in FileIds /\ Slot(p).at \in Nat
  <1>1. file \in FileIds /\ file # SecondFlash /\ Boot # SecondFlash
        /\ Boot \in FileIds /\ SecondFlash \in FileIds
    BY FileNames
  <1>2. CASE Parallel
    <2>1. Slot(p) = [file |-> IF p % 2 = 0 THEN Boot ELSE SecondFlash, at |-> p \div 2]
      BY <1>2 DEF Slot
    <2>2. p \div 2 \in Nat /\ p = 2 * (p \div 2) + (IF p % 2 = 0 THEN 0 ELSE 1)
      OBVIOUS
    <2> QED BY <1>1, <1>2, <2>1, <2>2 DEF AddressAt
  <1>3. CASE ~Parallel
    BY <1>1, <1>3 DEF Slot, AddressAt
  <1> QED BY <1>2, <1>3

\* The byte of a turn: one of the section for a Write.
LEMMA TurnBytes ==
    ASSUME SimpleModes, McsLoop, Record, NEW j \in 0 .. (BytesToWrite - 1)
    PROVE  /\ call.op = "Fill" => SourceByte(j) = FillByte
           /\ call.op = "Write" =>
                 /\ SourceByte(j) = call.start + (call.length - length) + j
                 /\ SourceByte(j) \in BytesOf(cursor) /\ SourceByte(j) \in Nat
                 /\ SourceByte(j) # FillByte
           /\ call.op \in {"Fill", "Write"}
  <1>1. LoopInv /\ McsTypeOK /\ PlaceInv /\ busy
    BY DEF McsLoop, Record
  <1>2. call.op \in {"Fill", "Write"}
    BY <1>1 DEF McsTypeOK
  <1>3. CASE call.op = "Write"
    <2>1. /\ call.start \in Nat /\ call.length \in Nat /\ length \in Nat /\ length <= call.length
          /\ call.start = Address[cursor] /\ call.length = sections[cursor].Length
      BY <1>1, <1>3, CallNames DEF LoopInv, CallInv, CallOK, PlaceInv, LineInv, McsTypeOK
    <2>2. BytesToWrite \in Nat /\ BytesToWrite <= length
      BY <1>3, TurnPuts
    <2>3. SourceByte(j) = call.start + (call.length - length) + j
      BY <1>3, <2>1 DEF SourceByte
    <2>4. BytesOf(cursor) = call.start .. (call.start + call.length - 1)
      BY <2>1 DEF BytesOf, End
    <2> QED BY <1>2, <1>3, <2>1, <2>2, <2>3, <2>4 DEF FillByte
  <1> QED BY <1>2, <1>3 DEF SourceByte

\* Filling stays in the gaps.
LEMMA FilledStep ==
    ASSUME SimpleModes, McsLoop, McsLoop', Filled, [McsNext]_mcsVars
    PROVE  Filled'
  <1> USE SizeAssumption
  <1>0. LoopInv /\ LoopInv' /\ McsTypeOK /\ McsTypeOK' /\ EndInv /\ PlaceInv
    BY DEF McsLoop
  <1>1. /\ UNCHANGED options /\ Parallel' = Parallel /\ mode' = mode /\ doFill' = doFill
        /\ \A f, at : AddressAt(f, at)' = AddressAt(f, at)
    BY <1>0, McsFrame DEF options, AddressAt
  <1>2. cursor \in Nat /\ written \in Nat /\ cursor <= NumSections
    BY <1>0 DEF LoopInv, OutputInv
  <1>3. CASE ~Record
    <2>1. \A f \in FileIds : files'[f].data = files[f].data
      BY <1>0, <1>3, OtherSteps
    <2> SUFFICES ASSUME NEW f \in FileIds, NEW x \in files[f].data, x[2] = FillByte,
                        mode # "slaveboot"
                 PROVE  /\ AddressAt(f, x[1]) < written'
                        /\ \A i \in 1 .. cursor' : AddressAt(f, x[1]) \notin BytesOf(i)'
      BY <1>1, <2>1 DEF Filled
    <2>2. x[1] \in Nat
      BY <1>0, PairsOnly
    <2>3. PICK a \in Nat : a = AddressAt(f, x[1])
      BY <2>2 DEF AddressAt
    <2>4. a < written /\ \A i \in 1 .. cursor : a \notin BytesOf(i)
      BY <2>3 DEF Filled
    <2>5. CASE FillGap
      <3>1. /\ written' = Address[Current] /\ Address[Current] > written /\ cursor' = cursor
            /\ UNCHANGED vars /\ Current \in Index
        BY <2>5, <1>2 DEF FillGap, InLoop, Current, Index
      <3>2. Address[Current] \in Nat
        BY <1>0, <3>1, SectionNumbers DEF LoopInv
      <3> QED BY <1>1, <1>2, <2>3, <2>4, <3>1, <3>2, HomeKept
    <2>6. CASE WriteSection
      <3>1. /\ written' = End(Current) /\ Address[Current] = written /\ cursor' = Current
            /\ UNCHANGED vars /\ Current \in Index
        BY <2>6, <1>2 DEF WriteSection, InLoop, Current, Index
      <3>2. Address[Current] \in Nat /\ End(Current) \in Nat /\ Address[Current] <= End(Current)
        BY <1>0, <3>1, SectionNumbers DEF LoopInv
      <3>3. a \notin BytesOf(Current) /\ a < End(Current)
        BY <2>4, <3>1, <3>2 DEF BytesOf
      <3>4. \A i \in 1 .. Current : i \in 1 .. cursor \/ i = Current
        BY <1>2 DEF Current
      <3> QED BY <1>1, <2>3, <2>4, <3>1, <3>3, <3>4, HomeKept
    <2>7. CASE ~FillGap /\ ~WriteSection
      <3>1. written' = written /\ cursor' = cursor
        BY <1>0, <1>3, <2>7, McsFrame DEF McsNext, Output, OutputNext, Layout, outputVars, Open,
              BackwardsError, EndSplitFile, OpenSplitFile, Postscript, CloseNext
      <3>2. cursor = 0 \/ UNCHANGED vars
        BY <1>0, McsFrame
      <3>3. CASE cursor = 0
        BY <2>3, <2>4, <3>1, <3>3
      <3>4. CASE UNCHANGED vars
        BY <1>1, <2>3, <2>4, <3>1, <3>4, HomeKept
      <3> QED BY <3>2, <3>3, <3>4
    <2> QED BY <2>5, <2>6, <2>7
  <1>4. CASE Record
    <2>1. UNCHANGED <<vars, written, cursor>>
      BY <1>4 DEF Record, outputVars
    <2>2. \A i : BytesOf(i)' = BytesOf(i)
      BY <1>1, <2>1, HomeKept
    <2> SUFFICES ASSUME NEW f \in FileIds, NEW x \in files'[f].data, x[2] = FillByte
                 PROVE  /\ doFill
                        /\ mode # "slaveboot" =>
                              /\ AddressAt(f, x[1]) < written
                              /\ \A i \in 1 .. cursor : AddressAt(f, x[1]) \notin BytesOf(i)
      BY <1>1, <2>1, <2>2 DEF Filled
    <2>3. x[1] \in Nat /\ x[2] \in Int /\ x = <<x[1], x[2]>>
      <3>1. \A g \in FileIds : files'[g].data \subseteq Nat \X Int
        BY <1>0 DEF McsTypeOK, Contents
      <3> QED BY <3>1
    <2>4. CASE x \in files[f].data
      BY <2>4 DEF Filled
    <2>5. CASE x \notin files[f].data
      <3>1. PICK j \in 0 .. (BytesToWrite - 1) :
                Slot(lineAddress + j) = [file |-> f, at |-> x[1]] /\ x[2] = SourceByte(j)
        BY <1>4, <2>3, <2>5, TurnPuts
      <3>2. call.op = "Fill"
        BY <1>4, <3>1, TurnBytes
      <3>3. doFill /\ lineAddress >= InFile(call.start) /\ endAddress = written
        BY <1>0, <1>4, <3>2 DEF Record, PlaceInv, LineInv
      <3>4. CASE mode # "slaveboot"
        <4>1. InFile(call.start) = call.start /\ call.start \in Nat
          BY <1>0, <3>4, StartInFile DEF PlaceInv
        <4>2. PICK p \in Nat : p = lineAddress + j /\ p < written /\ call.start <= p
          <5>1. lineAddress \in Nat /\ BytesToWrite \in Nat /\ lineAddress + BytesToWrite <= endAddress
            BY <1>4, <3>2, TurnPuts
          <5>2. lineAddress + j \in Nat /\ lineAddress + j < endAddress
            BY <1>0, <5>1 DEF McsTypeOK
          <5> QED BY <1>2, <3>3, <4>1, <5>1, <5>2
        <4>3. AddressAt(f, x[1]) = p
          <5>1. Slot(p).file = f /\ Slot(p).at = x[1]
            BY <3>1, <4>2
          <5> QED BY <1>0, <5>1, SlotAddress
        <4>4. \A i \in 1 .. cursor : p \notin BytesOf(i)
          <5> TAKE i \in 1 .. cursor
          <5>1. End(i) <= call.start
            BY <1>0, <3>2 DEF PlaceInv, GapInv
          <5>2. i \in Index
            BY <1>2 DEF Index
          <5>3. End(i) \in Nat /\ Address[i] \in Nat
            BY <1>0, <5>2, SectionNumbers DEF LoopInv
          <5> QED BY <4>1, <4>2, <5>1, <5>3 DEF BytesOf
        <4> QED BY <3>3, <4>2, <4>3, <4>4
      <3> QED BY <3>3, <3>4
    <2> QED BY <2>4, <2>5
  <1> QED BY <1>3, <1>4

\* A mask that has cut an address is remembered.
LEMMA CutsRemain ==
    ASSUME LoopInv, LoopInv', McsTypeOK, [McsNext]_mcsVars, ~wrapped'
    PROVE  ~wrapped
  <1>1. CASE Output
    <2>1. CASE Layout
      <3>1. StackSection \/ UNCHANGED wrapped
        BY <2>1 DEF Layout, Next, OverlapError, Finish
      <3>2. StackSection => ~wrapped
        BY StackFacts DEF LoopInv
      <3> QED BY <3>1, <3>2
    <2>2. CASE ~Layout
      <3>1. UNCHANGED vars
        BY <1>1, <2>2 DEF Output, OutputNext, Open, BackwardsError, FillGap, EndSplitFile,
              OpenSplitFile, WriteSection, Postscript, CloseNext
      <3> QED BY <3>1 DEF vars
    <2> QED BY <2>1, <2>2
  <1>2. CASE ~Output
    <2>1. UNCHANGED vars
      BY <1>2, McsFrame
    <2> QED BY <2>1 DEF vars
  <1> QED BY <1>1, <1>2

\* A section starts at or behind the offset of its file.
LEMMA StartPlace ==
    ASSUME McsLoop, HeadersBelow, call.op = "Write", mode = "slaveboot" => ~wrapped
    PROVE  /\ call.start \in Nat /\ splitOffset \in Int
           /\ InFile(call.start) = call.start - splitOffset
           /\ call.start - splitOffset \in Nat
  <1> USE SizeAssumption
  <1>0. LoopInv /\ McsTypeOK /\ PlaceInv
    BY DEF McsLoop
  <1>1. call.start \in Nat /\ splitOffset \in Int /\ call.start < AddressModulus
    BY <1>0, CallNames DEF LoopInv, CallInv, CallOK, McsTypeOK, PlaceInv, GapInv
  <1>2. CASE mode # "slaveboot"
    BY <1>0, <1>1, <1>2, StartInFile DEF PlaceInv, OffsetInv
  <1>3. CASE mode = "slaveboot"
    <2>1. cursor \in 1 .. placed
      <3>1. phase = "output" /\ cursor \in Index
        BY <1>0, CallNames DEF LoopInv, CallInv, CallOK
      <3> QED BY <1>0, <3>1 DEF LoopInv, OutputInv, Index
    <2>2. LinkedOffset(cursor) \in 0 .. Address[cursor] /\ splitOffset = LinkedOffset(cursor)
      BY <1>0, <1>3, <2>1 DEF HeadersBelow, PlaceInv, OffsetInv
    <2>3. call.start = Address[cursor]
      BY <1>0, CallNames DEF LoopInv, CallInv, CallOK
    <2>4. call.start - splitOffset \in Nat /\ call.start - splitOffset < AddressModulus
      BY <1>1, <2>2, <2>3
    <2> QED BY <1>1, <2>4, SmallRemainder DEF InFile
  <1> QED BY <1>2, <1>3

\* No step puts a byte of the image anywhere but at home.
LEMMA SoundStep ==
    ASSUME SimpleModes, McsLoop, McsLoop', HeadersBelow, Sound, [McsNext]_mcsVars
    PROVE  Sound'
  <1> USE SizeAssumption
  <1>0. LoopInv /\ LoopInv' /\ McsTypeOK /\ McsTypeOK' /\ EndInv /\ PlaceInv
    BY DEF McsLoop
  <1> SUFFICES ASSUME mode' = "slaveboot" => ~wrapped',
                      NEW f \in FileIds, NEW x \in files'[f].data, x[2] # FillByte
               PROVE  \E i \in 1 .. cursor' :
                        /\ x[2] \in BytesOf(i)'
                        /\ HomeOf(i, x[2])' = [file |-> f, at |-> x[1]]
    BY DEF Sound
  <1>1. /\ UNCHANGED options /\ mode' = mode
        /\ \/ UNCHANGED vars
           \/ cursor = 0
    BY <1>0, McsFrame
  <1>2. mode = "slaveboot" => ~wrapped
    BY <1>0, <1>1, CutsRemain
  <1>3. cursor \in Nat /\ cursor' \in Nat /\ cursor <= cursor'
    <2>1. cursor \in Nat /\ cursor' \in Nat
      BY <1>0 DEF LoopInv, OutputInv
    <2>2. cursor' \in {cursor, cursor + 1}
      BY <1>0, McsFrame DEF Output, OutputNext, Layout, outputVars, Open, BackwardsError,
            FillGap, EndSplitFile, OpenSplitFile, WriteSection, Current, Postscript, CloseNext
    <2> QED BY <2>1, <2>2
  <1>4. CASE x \in files[f].data
    <2>1. PICK i \in 1 .. cursor : /\ x[2] \in BytesOf(i)
                                   /\ HomeOf(i, x[2]) = [file |-> f, at |-> x[1]]
      BY <1>2, <1>4 DEF Sound
    <2>2. UNCHANGED vars
      BY <1>1, <2>1
    <2> QED BY <1>1, <1>3, <2>1, <2>2, HomeKept
  <1>5. CASE x \notin files[f].data
    <2>1. Record
      BY <1>0, <1>5, OtherSteps
    <2>2. UNCHANGED <<vars, cursor>>
      BY <2>1 DEF Record, outputVars
    <2>3. x[1] \in Nat /\ x[2] \in Int /\ x = <<x[1], x[2]>>
      <3>1. \A g \in FileIds : files'[g].data \subseteq Nat \X Int
        BY <1>0 DEF McsTypeOK, Contents
      <3> QED BY <3>1
    <2>4. PICK j \in 0 .. (BytesToWrite - 1) :
              Slot(lineAddress + j) = [file |-> f, at |-> x[1]] /\ x[2] = SourceByte(j)
      BY <1>5, <2>1, <2>3, TurnPuts
    <2>5. /\ call.op = "Write"
          /\ x[2] = call.start + (call.length - length) + j
          /\ x[2] \in BytesOf(cursor) /\ x[2] \in Nat
      BY <2>1, <2>4, TurnBytes
    <2>6. lineAddress = InFile(call.start) + (call.length - length)
      BY <1>0, <2>1, <2>5 DEF Record, PlaceInv, LineInv
    <2>7. x[2] - splitOffset = lineAddress + j
      <3>1. /\ call.start \in Nat /\ splitOffset \in Int /\ call.length \in Nat
            /\ InFile(call.start) = call.start - splitOffset /\ length \in Nat
        BY <1>0, <1>2, <2>5, CallNames, StartPlace DEF LoopInv, CallInv, CallOK, McsTypeOK
      <3>2. j \in Int
        BY <2>1, TurnPuts
      <3> QED BY <2>5, <2>6, <3>1, <3>2
    <2>8. HomeOf(cursor, x[2]) = [file |-> f, at |-> x[1]]
      BY <2>4, <2>5, <2>7, WriteHome
    <2>9. cursor \in 1 .. cursor
      BY <1>0, <2>5, CallNames DEF LoopInv, CallInv, CallOK, Index
    <2> QED BY <1>1, <2>2, <2>5, <2>8, <2>9, HomeKept
  <1> QED BY <1>4, <1>5

\* What a file has got it keeps.
LEMMA HomesStay ==
    ASSUME SimpleModes, McsLoop, McsLoop', [McsNext]_mcsVars, UNCHANGED vars
    PROVE  /\ \A i, b : BytesOf(i)' = BytesOf(i)
           /\ \A i, b : AtHome(i, b) => AtHome(i, b)'
  <1>0. LoopInv /\ LoopInv' /\ McsTypeOK
    BY DEF McsLoop
  <1>1. \A i, b : HomeOf(i, b)' = HomeOf(i, b) /\ BytesOf(i)' = BytesOf(i)
    BY <1>0, McsFrame, HomeKept
  <1>2. ASSUME NEW f \in FileIds, NEW at, NEW b, <<at, b>> \in files[f].data
        PROVE  <<at, b>> \in files'[f].data
    <2>0. at \in Nat /\ b \in Int
      BY <1>0, <1>2 DEF McsTypeOK, Contents
    <2>1. CASE Record
      BY <1>2, <2>0, <2>1, TurnPuts
    <2>2. CASE ~Record
      BY <1>0, <1>2, <2>2, OtherSteps
    <2> QED BY <2>1, <2>2
  <1>3. ASSUME NEW i, NEW b, AtHome(i, b)
        PROVE  AtHome(i, b)'
    <2>1. HomeOf(i, b)' = HomeOf(i, b)
      BY <1>1
    <2>2. HomeOf(i, b).file \in FileIds /\ <<HomeOf(i, b).at, b>> \in files[HomeOf(i, b).file].data
      BY <1>3 DEF AtHome
    <2>3. <<HomeOf(i, b).at, b>> \in files'[HomeOf(i, b).file].data
      BY <1>2, <2>2
    <2> QED BY <2>1, <2>2, <2>3 DEF AtHome
  <1> QED BY <1>1, <1>3

\* The end of a section that the layout has accepted is an address.
LEMMA EndFits ==
    ASSUME Inv, McsLoop, HeadersBelow, call.op = "Write", ~wrapped, busy
    PROVE  endAddress = InFile(call.start) + call.length
  <1> USE SizeAssumption
  <1>0. LoopInv /\ McsTypeOK /\ PlaceInv
    BY DEF McsLoop
  <1>1. /\ cursor \in Index /\ phase = "output" /\ call.start = Address[cursor]
        /\ call.length = sections[cursor].Length /\ call.length \in Nat
    BY <1>0, CallNames DEF LoopInv, CallInv, CallOK
  <1>2. cursor \in 1 .. placed
    BY <1>0, <1>1 DEF LoopInv, OutputInv, Index
  <1>3. End(cursor) <= running /\ running \in Addresses
    BY <1>2 DEF Inv, Frontier, TypeOK
  <1>4. InFile(call.start) = call.start - splitOffset /\ call.start \in Nat /\ splitOffset \in Int
        /\ call.start - splitOffset \in Nat
    BY StartPlace
  <1>5. splitOffset >= 0
    <2>1. CASE mode # "slaveboot"
      BY <1>0, <2>1 DEF PlaceInv, OffsetInv
    <2>2. CASE mode = "slaveboot"
      <3>1. splitOffset = LinkedOffset(cursor)
        BY <1>0, <2>2 DEF PlaceInv, OffsetInv
      <3>2. LinkedOffset(cursor) \in 0 .. Address[cursor]
        BY <1>2 DEF HeadersBelow
      <3> QED BY <1>1, <1>4, <3>1, <3>2
    <2> QED BY <2>1, <2>2
  <1>6. call.start + call.length < AddressModulus
    BY <1>1, <1>3, <1>4 DEF End, Addresses
  <1>7. endAddress = (InFile(call.start) + call.length) % AddressModulus
    BY <1>0 DEF PlaceInv, LineInv
  <1>8. InFile(call.start) + call.length \in Nat /\ InFile(call.start) + call.length < AddressModulus
    BY <1>1, <1>4, <1>5, <1>6
  <1> QED BY <1>7, <1>8, SmallRemainder

\* A section is in the files when the call that writes it is over.
LEMMA CompleteStep ==
    ASSUME SimpleModes, Inv, McsLoop, McsLoop', HeadersBelow, Sound, Complete, [McsNext]_mcsVars
    PROVE  Complete'
  <1> USE SizeAssumption, CallNames
  <1>0. LoopInv /\ LoopInv' /\ McsTypeOK /\ McsTypeOK' /\ EndInv /\ PlaceInv
    BY DEF McsLoop
  <1> SUFFICES ASSUME ~wrapped'
               PROVE  /\ \A i \in 1 .. Flushed' : \A b \in BytesOf(i)' : AtHome(i, b)'
                      /\ busy' /\ call'.op = "Write" =>
                            \A b \in BytesOf(cursor)' :
                                b < call'.start + (call'.length - length') => AtHome(cursor, b)'
    BY DEF Complete
  <1>1. ~wrapped
    BY <1>0, CutsRemain
  <1>2. CASE Output
    <2>1. ~busy' /\ Flushed' = Flushed
      BY <1>0, <1>2, LoopStep DEF Output, loopVars
    <2>2. CASE UNCHANGED vars
      <3>1. \A i \in 1 .. Flushed : \A b \in BytesOf(i) : AtHome(i, b)
        BY <1>1 DEF Complete
      <3>2. \A i \in 1 .. Flushed : \A b \in BytesOf(i)' : AtHome(i, b)'
        BY <2>2, <3>1, HomesStay
      <3> QED BY <2>1, <3>2
    <2>3. CASE cursor = 0
      <3>1. Flushed = 0
        BY <1>0, <2>3 DEF Flushed, LoopInv, CallInv, CallOK, Index
      <3> QED BY <2>1, <3>1
    <2> QED BY <1>0, <2>2, <2>3, McsFrame
  <1>3. CASE ~Output
    <2>1. UNCHANGED <<vars, cursor>>
      BY <1>0, <1>3, McsFrame
    <2>2. \A i \in 1 .. Flushed : \A b \in BytesOf(i)' : AtHome(i, b)'
      <3>1. \A i \in 1 .. Flushed : \A b \in BytesOf(i) : AtHome(i, b)
        BY <1>1 DEF Complete
      <3> QED BY <2>1, <3>1, HomesStay
    <2>3. CASE BeginCall
      <3>1. CASE busy'
        <4>1. UNCHANGED <<call, cursor>> /\ length' = call.length
          BY <1>0, <2>3, <3>1 DEF BeginCall, loopVars, McsTypeOK
        <4>2. Flushed' = Flushed
          BY <4>1 DEF Flushed
        <4>3. call.op = "Write" => \A b \in BytesOf(cursor)' :
                    ~(b < call.start + (call.length - call.length))
          <5> SUFFICES ASSUME call.op = "Write", NEW b \in BytesOf(cursor)'
                       PROVE  ~(b < call.start + (call.length - call.length))
            OBVIOUS
          <5>1. call.start = Address[cursor] /\ call.start \in Nat /\ call.length \in Nat
                /\ cursor \in Index
            BY <1>0 DEF LoopInv, CallInv, CallOK
          <5>2. BytesOf(cursor)' = BytesOf(cursor) /\ End(cursor) \in Nat
            BY <1>0, <2>1, <5>1, HomesStay, SectionNumbers DEF LoopInv
          <5>3. b \in BytesOf(cursor)
            BY <5>2
          <5>4. b \in Nat /\ b >= call.start
            BY <5>1, <5>2, <5>3 DEF BytesOf
          <5> QED BY <5>1, <5>4
        <4> QED BY <2>2, <4>1, <4>2, <4>3
      <3>2. CASE ~busy'
        <4>1. call.op = "Fill" /\ call' = NoCall
          BY <2>3, <3>2 DEF BeginCall, Return
        <4>2. Flushed' = Flushed
          BY <2>1, <4>1 DEF Flushed
        <4> QED BY <2>2, <3>2, <4>2
      <3> QED BY <3>1, <3>2
    <2>4. CASE Record
      <3>1. UNCHANGED <<call, cursor>> /\ busy
        BY <2>4 DEF Record, outputVars
      <3>2. Flushed' = Flushed
        BY <3>1 DEF Flushed
      <3> SUFFICES ASSUME call.op = "Write", NEW b \in BytesOf(cursor)',
                          b < call.start + (call.length - length')
                   PROVE  AtHome(cursor, b)'
        BY <2>2, <3>1, <3>2
      <3>3. b \in BytesOf(cursor) /\ b \in Nat
        <4>1. cursor \in Index
          BY <1>0 DEF LoopInv, CallInv, CallOK
        <4>2. Address[cursor] \in Nat /\ End(cursor) \in Nat
          BY <1>0, <4>1, SectionNumbers DEF LoopInv
        <4>3. b \in BytesOf(cursor)
          BY <2>1, HomesStay
        <4> QED BY <4>2, <4>3 DEF BytesOf
      <3>4. CASE b < call.start + (call.length - length)
        <4>1. AtHome(cursor, b)
          BY <1>1, <3>1, <3>3, <3>4 DEF Complete
        <4> QED BY <2>1, <3>1, <4>1, HomesStay
      <3>5. CASE ~(b < call.start + (call.length - length))
        <4>1. /\ BytesToWrite \in Nat /\ lineAddress \in Nat /\ length' = length - BytesToWrite
              /\ call.start \in Nat /\ call.length \in Nat /\ length \in Nat
          <5>1. length' = length - BytesToWrite
            BY <2>4 DEF Record
          <5> QED BY <1>0, <2>4, <5>1, TurnPuts DEF LoopInv, CallInv, CallOK, McsTypeOK
        <4>2. PICK j \in Int : j = b - (call.start + (call.length - length))
          BY <3>3, <4>1
        <4>3. j \in 0 .. (BytesToWrite - 1)
          BY <3>3, <3>5, <4>1, <4>2
        <4>4. b = SourceByte(j)
          BY <2>4, <3>3, <4>1, <4>2, <4>3, TurnBytes
        <4>5. b - splitOffset = lineAddress + j
          <5>1. lineAddress = InFile(call.start) + (call.length - length)
            BY <1>0, <3>1 DEF PlaceInv, LineInv
          <5>2. InFile(call.start) = call.start - splitOffset /\ splitOffset \in Int
            BY <1>1, StartPlace
          <5> QED BY <3>3, <4>1, <4>2, <5>1, <5>2
        <4>6. HomeOf(cursor, b) = Slot(lineAddress + j)
          BY <3>3, <4>5, WriteHome
        <4>7. lineAddress + j \in Nat
          BY <4>1, <4>3
        <4>8. Slot(lineAddress + j).file \in FileIds /\ Slot(lineAddress + j).at \in Nat
          BY <1>0, <4>7, SlotAddress
        <4>9. Slot(lineAddress + j) = [file |-> Slot(lineAddress + j).file,
                                       at |-> Slot(lineAddress + j).at]
          BY DEF Slot
        <4>10. <<Slot(lineAddress + j).at, b>> \in files'[Slot(lineAddress + j).file].data
          BY <2>4, <3>3, <4>3, <4>4, <4>8, <4>9, TurnPuts
        <4>11. HomeOf(cursor, b)' = HomeOf(cursor, b)
          BY <1>0, <2>1, McsFrame, HomeKept
        <4> QED BY <3>1, <4>6, <4>8, <4>10, <4>11 DEF AtHome
      <3> QED BY <3>4, <3>5
    <2>5. CASE EndOfCall
      <3>1. ~busy' /\ Flushed' = cursor
        BY <2>1, <2>5 DEF EndOfCall, Return, Flushed
      <3>2. CASE call.op # "Write"
        <4>1. Flushed = cursor
          BY <3>2 DEF Flushed
        <4> QED BY <2>2, <3>1, <4>1
      <3>3. CASE call.op = "Write"
        <4>1. busy /\ lineAddress >= endAddress
          BY <2>5 DEF EndOfCall
        <4>2. endAddress = InFile(call.start) + call.length
          BY <1>1, <3>3, <4>1, EndFits
        <4>3. /\ lineAddress = InFile(call.start) + (call.length - length)
              /\ length \in Nat /\ call.length \in Nat /\ call.start \in Nat
          BY <1>0, <3>3, <4>1 DEF PlaceInv, LineInv, McsTypeOK, LoopInv, CallInv, CallOK
        <4>4. InFile(call.start) \in Nat
          BY <1>1, <3>3, StartPlace
        <4>5. length = 0
          BY <4>1, <4>2, <4>3, <4>4
        <4>6. cursor \in Index /\ End(cursor) = call.start + call.length /\ Address[cursor] = call.start
          BY <1>0, <3>3 DEF LoopInv, CallInv, CallOK, End
        <4>7. \A b \in BytesOf(cursor) : AtHome(cursor, b)
          <5> TAKE b \in BytesOf(cursor)
          <5>1. b < call.start + (call.length - length)
            BY <4>3, <4>5, <4>6 DEF BytesOf
          <5> QED BY <1>1, <3>3, <4>1, <5>1 DEF Complete
        <4>8. PICK c \in Index : c = cursor
          BY <4>6
        <4>9. \A b \in BytesOf(c)' : AtHome(c, b)'
          BY <2>1, <4>7, <4>8, HomesStay
        <4>10. \A i \in 1 .. cursor : i \in 1 .. Flushed \/ i = c
          BY <3>3, <4>8 DEF Flushed, Index
        <4> QED BY <2>2, <3>1, <4>9, <4>10
      <3> QED BY <3>2, <3>3
    <2>6. CASE EndFile
      <3>1. ~busy' /\ call' = NoCall /\ call.op = "End"
        BY <1>0, <2>6 DEF EndFile, loopVars, Return, McsTypeOK
      <3>2. Flushed' = Flushed
        BY <2>1, <3>1 DEF Flushed
      <3> QED BY <2>2, <3>1, <3>2
    <2>7. CASE UNCHANGED mcsVars
      <3>1. UNCHANGED <<busy, call, cursor, length>>
        BY <2>7 DEF mcsVars, outputVars, loopVars
      <3>2. Flushed' = Flushed
        BY <3>1 DEF Flushed
      <3>3. busy /\ call.op = "Write" => \A b \in BytesOf(cursor)' :
                b < call.start + (call.length - length) => AtHome(cursor, b)'
        BY <1>1, <2>1, HomesStay DEF Complete
      <3> QED BY <2>2, <3>1, <3>2, <3>3
    <2> QED BY <1>3, <2>3, <2>4, <2>5, <2>6, <2>7 DEF McsNext
  <1> QED BY <1>2, <1>3

LEMMA ContentsInit == McsInit => McsContents
  <1> SUFFICES ASSUME McsInit PROVE McsContents
    OBVIOUS
  <1>1. cursor = 0 /\ call = NoCall /\ busy = FALSE
    BY DEF McsInit, OutputInit
  <1>2. \A f \in FileIds : files[f].data = {}
    BY DEF McsInit
  <1>3. Filled /\ Sound
    BY <1>2 DEF Filled, Sound
  <1>4. Complete
    BY <1>1, CallNames DEF Complete, Flushed
  <1> QED BY <1>3, <1>4 DEF McsContents

\* What is in the files, at every point.
LEMMA ContentsInvariant ==
    ASSUME SimpleModes
    PROVE  McsSpec => [](Inv /\ McsLoop /\ Listed /\ HeadersBelow /\ McsContents)
  <1>1. /\ Inv /\ HeadersBelow /\ McsLoop /\ McsLoop' /\ McsContents /\ [McsNext]_mcsVars
        => McsContents'
    BY FilledStep, SoundStep, CompleteStep DEF McsContents
  <1> QED BY <1>1, ContentsInit, PlacesInvariant, PTL DEF McsSpec

\* Every nonempty set of natural numbers has a least member.
LEMMA LeastMember ==
    ASSUME NEW S \in SUBSET Nat, S # {}
    PROVE  \E n \in S : \A m \in S : n <= m
  <1>1. IsWellFoundedOn(OpToRel(<, Nat), Nat)
    BY NatLessThanWellFounded
  <1> DEFINE R == {ss \in Nat \X Nat : ss[1] < ss[2]}
  <1>2. OpToRel(<, Nat) = R
    BY DEF OpToRel
  <1>3. IsWellFoundedOn(R, Nat)
    BY <1>1, <1>2
  <1> HIDE DEF R
  <1>4. PICK n \in S : \A m \in S : ~(<<m, n>> \in R)
    BY <1>3, WFMin
  <1>5. \A m \in S : ~(m < n)
    BY <1>4 DEF R
  <1> QED BY <1>5

\* Every section follows some partition of the split, or none.
LEMMA LeadExists ==
    ASSUME LoopInv, NEW i \in Index
    PROVE  \E p \in 0 .. NumSections : IsLead(p, i) /\ Leading(i) = p
  <1> USE SizeAssumption
  <1> DEFINE S == {k \in 0 .. i : i - k \in toSplit \cup {0}}
  <1>1. i \in Nat /\ i <= NumSections
    BY DEF Index
  <1>2. i \in S /\ S \subseteq Nat
    BY <1>1
  <1>3. PICK k \in S : \A m \in S : k <= m
    BY <1>2, LeastMember
  <1>4. PICK p \in 0 .. NumSections : p = i - k /\ p \in toSplit \cup {0} /\ p <= i
    BY <1>1, <1>3
  <1>5. \A q \in toSplit : q <= i => q <= p
    <2> SUFFICES ASSUME NEW q \in toSplit, q <= i PROVE q <= p
      OBVIOUS
    <2>1. q \in Nat
      BY FileNames
    <2>2. PICK m \in Nat : m = i - q /\ i - m = q
      BY <1>1, <2>1
    <2>3. m \in S
      BY <1>1, <2>1, <2>2
    <2> QED BY <1>1, <1>3, <1>4, <2>1, <2>2, <2>3
  <1>6. IsLead(p, i)
    BY <1>4, <1>5 DEF IsLead
  <1> QED BY <1>1, <1>6, LeadingIs

\* Outside a slave boot split the home of a byte stands for its address.
LEMMA HomeAddress ==
    ASSUME SimpleModes, McsLoop, mode # "slaveboot", NEW i \in Index, NEW b \in Nat
    PROVE  /\ HomeOf(i, b).file \in FileIds
           /\ AddressAt(HomeOf(i, b).file, HomeOf(i, b).at) = b
  <1>0. LoopInv /\ McsTypeOK /\ EndInv
    BY DEF McsLoop
  <1>1. qspi \in {"none", "parallel"} /\ (qspi = "parallel" => mode = "normal")
    BY <1>0, SimpleLoop DEF LoopInv, CallInv, OptionsOK
  <1>2. Boot \in FileIds /\ SecondFlash \in FileIds /\ Boot # SecondFlash
    BY <1>0, FileNames
  <1>3. CASE qspi = "parallel"
    <2>1. HomeOf(i, b) = [file |-> IF b % 2 = 0 THEN Boot ELSE SecondFlash, at |-> b \div 2]
      BY <1>1, <1>3 DEF HomeOf
    <2>2. b \div 2 \in Nat /\ b = 2 * (b \div 2) + (IF b % 2 = 0 THEN 0 ELSE 1)
      OBVIOUS
    <2> QED BY <1>2, <1>3, <2>1, <2>2 DEF AddressAt, Parallel
  <1>4. CASE qspi = "none"
    <2>1. ~Parallel
      BY <1>4 DEF Parallel
    <2>2. PICK p \in 0 .. NumSections : IsLead(p, i) /\ Leading(i) = p
      BY <1>0, LeadExists
    <2>3. CASE mode = "split" /\ p # 0
      <3>1. OwnFile(p) \in FileIds
        BY <1>0, <2>2, <2>3, FileNames DEF IsLead
      <3>2. HomeOf(i, b) = [file |-> OwnFile(p), at |-> b]
        BY <1>4, <2>2, <2>3 DEF HomeOf
      <3> QED BY <2>1, <3>1, <3>2 DEF AddressAt
    <2>4. CASE ~(mode = "split" /\ p # 0)
      <3>1. HomeOf(i, b) = [file |-> Boot, at |-> b]
        BY <1>4, <2>2, <2>4 DEF HomeOf
      <3> QED BY <1>2, <2>1, <3>1 DEF AddressAt
    <2> QED BY <2>3, <2>4
  <1> QED BY <1>1, <1>3, <1>4

\* Two bytes of the image have different homes.
LEMMA HomesApart ==
    ASSUME SimpleModes, McsLoop, Listed, HeadersBelow, ~wrapped, status = "done",
           NEW i \in Index, NEW j \in Index, NEW b \in BytesOf(i), NEW d \in BytesOf(j),
           HomeOf(i, b) = HomeOf(j, d)
    PROVE  b = d
  <1> USE SizeAssumption
  <1>0. LoopInv
    BY DEF McsLoop
  <1>1. /\ Address[i] \in Nat /\ End(i) \in Nat /\ Address[j] \in Nat /\ End(j) \in Nat
    BY <1>0, SectionNumbers DEF LoopInv
  <1>2. /\ b \in Nat /\ Address[i] <= b /\ b < End(i)
        /\ d \in Nat /\ Address[j] <= d /\ d < End(j)
    BY <1>1 DEF BytesOf
  <1>3. CASE mode # "slaveboot"
    <2>1. AddressAt(HomeOf(i, b).file, HomeOf(i, b).at) = b
      BY <1>2, <1>3, HomeAddress
    <2>2. AddressAt(HomeOf(j, d).file, HomeOf(j, d).at) = d
      BY <1>2, <1>3, HomeAddress
    <2> QED BY <2>1, <2>2
  <1>4. CASE mode = "slaveboot"
    <2>1. i \in 1 .. placed /\ j \in 1 .. placed /\ placed >= 1
      BY <1>0 DEF LoopInv, OutputInv, Index
    <2>2. SlaveFile(i) = SlaveFile(j) /\ b - LinkedOffset(i) = d - LinkedOffset(j)
      <3>1. qspi = "none"
        BY <1>0, <1>4 DEF LoopInv, CallInv, OptionsOK
      <3>2. HomeOf(i, b) = [file |-> SlaveFile(i), at |-> b - LinkedOffset(i)]
        BY <1>4, <3>1 DEF HomeOf
      <3>3. HomeOf(j, d) = [file |-> SlaveFile(j), at |-> d - LinkedOffset(j)]
        BY <1>4, <3>1 DEF HomeOf
      <3>4. HomeOf(i, b).file = SlaveFile(i) /\ HomeOf(i, b).at = b - LinkedOffset(i)
        BY <3>2
      <3>5. HomeOf(j, d).file = SlaveFile(j) /\ HomeOf(j, d).at = d - LinkedOffset(j)
        BY <3>3
      <3> QED BY <3>4, <3>5
    <2>3. /\ sizes.bootheader \in Nat /\ sizes.allHeader \in Nat /\ End(1) <= sizes.bootheader
          /\ LinkedOffset(i) \in Nat /\ LinkedOffset(j) \in Nat
      BY <2>1 DEF HeadersBelow
    <2>4. ASSUME NEW x \in Index, NEW y \in Index, sections[x].kind = "BootHeader",
                 sections[y].kind \in {"bootloader", "bootloaderAC"}, NEW u \in Nat, NEW v \in Nat,
                 u < End(x), Address[y] <= v
          PROVE  u - LinkedOffset(x) # v - LinkedOffset(y)
      <3>1. x = 1 /\ End(x) \in Nat /\ Address[y] \in Nat
        BY <1>0, <2>4, SectionNumbers DEF Listed, LoopInv
      <3>2. LinkedOffset(x) = 0 /\ LinkedOffset(y) = sizes.allHeader
        BY <2>4 DEF LinkedOffset
      <3>3. y \in 1 .. placed
        BY <1>0, <2>4 DEF LoopInv, OutputInv, Index
      <3>4. sizes.bootheader + sizes.allHeader <= Address[y]
        BY <2>4, <3>3 DEF HeadersBelow
      <3> QED BY <2>3, <2>4, <3>1, <3>2, <3>4
    <2>5. CASE sections[i].kind = "BootHeader" /\ sections[j].kind \in {"bootloader", "bootloaderAC"}
      BY <1>2, <2>2, <2>4, <2>5
    <2>6. CASE sections[j].kind = "BootHeader" /\ sections[i].kind \in {"bootloader", "bootloaderAC"}
      BY <1>2, <2>2, <2>4, <2>6
    <2>7. CASE ~ \/ sections[i].kind = "BootHeader" /\ sections[j].kind \in {"bootloader", "bootloaderAC"}
                 \/ sections[j].kind = "BootHeader" /\ sections[i].kind \in {"bootloader", "bootloaderAC"}
      <3>1. LinkedOffset(i) = LinkedOffset(j)
        BY <2>2, <2>7 DEF SlaveFile, LinkedOffset, Boot, HeadersFile, PartitionFile
      <3> QED BY <1>2, <2>2, <2>3, <3>1
    <2> QED BY <2>5, <2>6, <2>7
  <1> QED BY <1>3, <1>4

\* With -fill, no fill record covers a byte of any section, written or still to
\* be written.
LEMMA FillApart ==
    ASSUME SimpleModes, McsLoop, Filled, ~wrapped, mode # "slaveboot",
           NEW i \in Index, NEW b \in BytesOf(i)
    PROVE  FillByte \notin ReadBack(HomeOf(i, b).file, HomeOf(i, b).at)
  <1> USE SizeAssumption
  <1>0. LoopInv
    BY DEF McsLoop
  <1>1. b \in Nat /\ Address[i] \in Nat /\ Address[i] <= b
    <2>1. Address[i] \in Nat /\ End(i) \in Nat
      BY <1>0, SectionNumbers DEF LoopInv
    <2> QED BY <2>1 DEF BytesOf
  <1>2. /\ HomeOf(i, b).file \in FileIds
        /\ AddressAt(HomeOf(i, b).file, HomeOf(i, b).at) = b
    BY <1>1, HomeAddress
  <1> SUFFICES ASSUME NEW x \in files[HomeOf(i, b).file].data,
                      x[1] = HomeOf(i, b).at, x[2] = FillByte
               PROVE  FALSE
    BY DEF ReadBack
  <1>3. b < written /\ \A k \in 1 .. cursor : b \notin BytesOf(k)
    BY <1>2 DEF Filled
  <1>4. cursor < i
    BY <1>0, <1>3 DEF Index, LoopInv, OutputInv
  <1>5. phase # "layout" /\ written \in Nat
    BY <1>0, <1>1, <1>3 DEF LoopInv, OutputInv
  <1>6. written <= Address[i]
    BY <1>0, <1>4, <1>5 DEF LoopInv, OutputInv, WrittenBehind
  <1> QED BY <1>1, <1>3, <1>5, <1>6

\* Without the stacked mode no record puts a byte of the image anywhere but at
\* home, at any time.
THEOREM NoByteAstray ==
    ASSUME SimpleModes
    PROVE  McsSpec => []NothingAstray
  <1>1. McsLoop /\ Sound => NothingAstray
    <2> SUFFICES ASSUME McsLoop, Sound, mode = "slaveboot" => ~wrapped,
                        NEW f \in FileIds, NEW x \in files[f].data, x[2] # FillByte
                 PROVE  \E i \in Index :
                            /\ x[2] \in BytesOf(i)
                            /\ HomeOf(i, x[2]) = [file |-> f, at |-> x[1]]
      BY DEF NothingAstray
    <2>1. \A i \in 1 .. cursor : i \in Index
      BY SizeAssumption DEF McsLoop, LoopInv, OutputInv, Index
    <2> QED BY <2>1 DEF Sound
  <1> QED BY <1>1, ContentsInvariant, PTL DEF McsContents

\* Without the stacked mode -fill fills the gaps and nothing else.
THEOREM GapsFilled ==
    ASSUME SimpleModes
    PROVE  McsSpec => []FillsGapsOnly
  <1>1. McsLoop /\ Filled => FillsGapsOnly
    BY FillApart DEF FillsGapsOnly, FillStaysInGaps
  <1> QED BY <1>1, ContentsInvariant, PTL DEF McsContents

\* Without the stacked mode, programming the files gives the image back, byte for
\* byte, in every other mode.
THEOREM ImageComesBack ==
    ASSUME SimpleModes
    PROVE  McsSpec => []ImageReadBack
  <1>1. McsLoop /\ Listed /\ HeadersBelow /\ McsContents => ImageReadBack
    <2> SUFFICES ASSUME McsLoop, Listed, HeadersBelow, McsContents, phase = "closed", ~wrapped,
                        ~(mode = "slaveboot" /\ doFill), NEW i \in Index, NEW b \in BytesOf(i)
                 PROVE  ReadBack(HomeOf(i, b).file, HomeOf(i, b).at) = {b}
      BY DEF ImageReadBack
    <2>1. LoopInv /\ Filled /\ Sound /\ Complete
      BY DEF McsLoop, McsContents
    <2>2. status = "done" /\ cursor = NumSections /\ Flushed = cursor
      BY <2>1, CallNames DEF LoopInv, OutputInv, CallInv, PhaseOK, Flushed
    <2>3. AtHome(i, b)
      BY <2>1, <2>2 DEF Complete, Index
    <2>4. b \in ReadBack(HomeOf(i, b).file, HomeOf(i, b).at)
      BY <2>3 DEF AtHome, ReadBack
    <2>5. ASSUME NEW x \in files[HomeOf(i, b).file].data, x[1] = HomeOf(i, b).at
          PROVE  x[2] = b
      <3>1. HomeOf(i, b).file \in FileIds
        BY <2>3 DEF AtHome
      <3>2. x[2] # FillByte
        <4>1. CASE mode = "slaveboot"
          BY <2>1, <2>5, <3>1, <4>1 DEF Filled
        <4>2. CASE mode # "slaveboot"
          BY <2>1, <2>5, <4>2, FillApart DEF ReadBack
        <4> QED BY <4>1, <4>2
      <3>3. PICK k \in 1 .. cursor : /\ x[2] \in BytesOf(k)
                                     /\ HomeOf(k, x[2]) = [file |-> HomeOf(i, b).file, at |-> x[1]]
        BY <2>1, <3>1, <3>2 DEF Sound
      <3>4. HomeOf(i, b) = [file |-> HomeOf(i, b).file, at |-> HomeOf(i, b).at]
        BY DEF HomeOf
      <3>5. k \in Index
        BY <2>2 DEF Index
      <3> QED BY <2>2, <2>5, <3>3, <3>4, <3>5, HomesApart
    <2> QED BY <2>4, <2>5 DEF ReadBack
  <1> QED BY <1>1, ContentsInvariant, PTL
=============================================================================
