---------------------------- MODULE BinFileProofs ----------------------------
(***************************************************************************)
(* The BIN writer, for every image and every size of the flash devices.    *)
(***************************************************************************)
EXTENDS BinFile, OutputFileProofs

\* The BIN writer is an implementation of the File interface: it runs the loop.
THEOREM BinRunsLoop == BinSpec => OutputSpec
  <1>1. BinInit => OutputInit
    BY DEF BinInit
  <1>2. [BinNext]_binVars => [OutputNext \/ CallReturns]_<<vars, outputVars>>
    <2>1. PutCall => CallReturns
      BY DEF PutCall, CallReturns, NoCall
    <2>2. EndFile => CallReturns
      BY DEF EndFile, CallReturns, NoCall
    <2> QED BY <2>1, <2>2 DEF BinNext, binVars
  <1> QED BY <1>1, <1>2, PTL DEF BinSpec, OutputSpec

\* So a BIN image that the layout has accepted is never given up half written.
THEOREM BinForward == BinSpec => []NeverBackwards
  BY BinRunsLoop, Forward, PTL

-----------------------------------------------------------------------------
(* What is in the files.                                                   *)

\* Where the file of partition p starts in the image.
Origin(p) == IF p = 0 THEN 0 ELSE Address[p]

FileContents == [size : Nat, data : SUBSET (Nat \X Int)]

FilesOK == files \in [FileIds -> FileContents]

EndReached == cursor = NumSections => written = End(NumSections)

StackedSizes ==
    qspi = "stacked" =>
        /\ files[Boot].size = IF Done <= QspiSize THEN Done ELSE QspiSize
        /\ files[SecondFlash].size = IF Done <= QspiSize THEN 0 ELSE Done - QspiSize

SplitSizes ==
    mode = "split" =>
        /\ \A p \in 0 .. NumSections : file = LeadFile(p) =>
              Origin(p) <= Done /\ files[file].size = Done - Origin(p)
        /\ \A q \in toSplit : cursor < q /\ file # OwnFile(q) => files[OwnFile(q)].size = 0

Sizes ==
    /\ mode = "normal" /\ qspi = "none" =>
          files[Boot].size = Done /\ files[SecondFlash].size = 0
    /\ qspi = "parallel" => files[SecondFlash].size = files[Boot].size
    /\ StackedSizes
    /\ SplitSizes

SizeInv == FilesOK /\ EndReached /\ Sizes

\* In the parallel mode every call starts at an even byte and has an even length.
EvenCalls ==
    qspi = "parallel" =>
        Done % 2 = 0 /\ call.length % 2 = 0 /\ files[Boot].size = Done \div 2

AtHome(f, at, i, v) == f = StreamHome(i, v).file /\ at = StreamHome(i, v).at

\* No byte of a section is anywhere but at home, ...
Sound ==
    mode # "slaveboot" =>
        \A f \in FileIds : \A x \in files[f].data : x[2] \in Nat =>
            \E i \in 1 .. Flushed : x[2] \in BytesOf(i) /\ AtHome(f, x[1], i, x[2])

\* ... and every byte of the sections put so far is there.
Complete ==
    mode # "slaveboot" =>
        \A i \in 1 .. Flushed : \A v \in BytesOf(i) :
            \E f \in FileIds, at \in 0 .. v :
                AtHome(f, at, i, v) /\ <<at, v>> \in files[f].data

\* So far as the sizes go.
LEMMA LoopSizes ==
    ASSUME LoopInv, LoopInv', SizeInv, OutputNext, UNCHANGED files
    PROVE  SizeInv'
  <1> USE SizeAssumption
  <1>1. Done' = Done /\ UNCHANGED options
    BY LoopStep
  <1>2. FilesOK'
    BY DEF SizeInv, FilesOK
  <1>3. EndReached'
    <2>1. CASE WriteSection
      BY <2>1 DEF WriteSection, InLoop, vars, EndReached, End
    <2>2. CASE FillGap
      BY <2>2 DEF FillGap, InLoop, EndReached, LoopInv, OutputInv
    <2>3. CASE Layout
      BY <2>3 DEF Layout, outputVars, EndReached, LoopInv, OutputInv
    <2>4. CASE UNCHANGED <<vars, cursor, written>>
      BY <2>4 DEF vars, SizeInv, EndReached, End
    <2> QED BY <2>1, <2>2, <2>3, <2>4 DEF OutputNext, Open, BackwardsError, EndSplitFile,
                                          OpenSplitFile, Postscript, CloseNext
  <1>4. SplitSizes'
    <2> SUFFICES ASSUME mode = "split" PROVE SplitSizes'
      BY <1>1 DEF SplitSizes, options
    <2>1. CASE OpenSplitFile
      <3>1. /\ file' = OwnFile(Current) /\ Current \in toSplit /\ file # OwnFile(Current)
            /\ Address[Current] = written /\ cursor < NumSections /\ Done = written
            /\ UNCHANGED <<vars, options, cursor>>
        BY <2>1, CallNames DEF OpenSplitFile, LoopInv, CallInv, SwitchOK, MustSplit, Done
      <3>2. /\ Current \in Index /\ Current > cursor /\ Address[Current] \in Nat
            /\ cursor \in Nat
        BY <3>1, SectionNumbers DEF LoopInv, OutputInv, Current, Index
      <3>3. files[OwnFile(Current)].size = 0
        BY <2>1, <3>1, <3>2 DEF SizeInv, Sizes, SplitSizes, OpenSplitFile
      <3>4. \A p \in 0 .. NumSections : file' = LeadFile(p) => p = Current
        BY <3>1, <3>2, LeadNames
      <3>5. Origin(Current)' = Address[Current]
        BY <3>1, <3>2 DEF Origin, vars, Current
      <3>6. \A p \in 0 .. NumSections : file' = LeadFile(p) =>
                Origin(p)' <= Done' /\ files'[file'].size = Done' - Origin(p)'
        BY <1>1, <3>1, <3>2, <3>3, <3>4, <3>5 DEF vars, Origin
      <3>7. \A q \in toSplit : cursor < q /\ file' # OwnFile(q) => files[OwnFile(q)].size = 0
        <4> SUFFICES ASSUME NEW q \in toSplit, cursor < q, file' # OwnFile(q)
                     PROVE  files[OwnFile(q)].size = 0
          OBVIOUS
        <4>1. CASE file # OwnFile(q)
          BY <4>1 DEF SizeInv, Sizes, SplitSizes
        <4>2. CASE file = OwnFile(q)
          <5>1. PICK p \in 0 .. NumSections : file = LeadFile(p) /\ IsLead(p, cursor)
            BY <2>1 DEF OpenSplitFile, LoopInv, CallInv, FileOK
          <5>2. q \in Index /\ q \in Nat /\ p \in Nat /\ p <= cursor
            BY <5>1, FileNames DEF IsLead
          <5>3. p = q
            BY <4>2, <5>1, <5>2, LeadNames
          <5> QED BY <3>2, <5>2, <5>3
        <4> QED BY <4>1, <4>2
      <3> QED BY <1>1, <3>1, <3>6, <3>7 DEF SplitSizes, options, LeadFile
    <2>2. CASE UNCHANGED <<vars, file>> /\ cursor <= cursor' /\ cursor \in Nat /\ cursor' \in Nat
      <3>1. \A p : Origin(p)' = Origin(p)
        BY <2>2 DEF Origin, vars
      <3>2. \A q \in toSplit : q \in Nat
        BY FileNames
      <3> QED BY <1>1, <2>2, <3>1, <3>2 DEF SizeInv, Sizes, SplitSizes, options, LeadFile
    <2>3. CASE Layout
      <3>1. \A p \in 0 .. NumSections : Boot = LeadFile(p) => p = 0
        BY LeadNames
      <3>2. file = Boot /\ UNCHANGED <<file, cursor>>
        BY <2>3, LoopStep DEF Layout, outputVars, LoopInv, CallInv, PhaseOK
      <3> QED BY <1>1, <3>1, <3>2 DEF SizeInv, Sizes, SplitSizes, options, LeadFile, Origin
    <2>4. OpenSplitFile \/ Layout \/ (UNCHANGED <<vars, file>> /\ (cursor' = cursor \/ cursor' = Current))
      BY DEF OutputNext, Open, BackwardsError, FillGap, EndSplitFile, WriteSection, Postscript,
             CloseNext, ClosePhases
    <2>5. cursor \in Nat /\ Current = cursor + 1
      BY DEF LoopInv, OutputInv, Current
    <2> QED BY <2>1, <2>2, <2>3, <2>4, <2>5
  <1>5. Sizes'
    BY <1>1, <1>4 DEF SizeInv, Sizes, StackedSizes, options
  <1> QED BY <1>2, <1>3, <1>5 DEF SizeInv

\* What each kind of call leaves in the files.
LEMMA PlainPut ==
    ASSUME LoopInv, PutCall, qspi = "none"
    PROVE  files' = [files EXCEPT ![file] =
                       [size |-> files[file].size + call.length,
                        data |-> files[file].data
                                   \cup {<<files[file].size + k, Buffer(k)>> :
                                           k \in 0 .. (call.length - 1)}]]
  BY DEF PutCall, Put

LEMMA ParallelPut ==
    ASSUME LoopInv, PutCall, qspi = "parallel"
    PROVE  LET half == call.length \div 2
           IN  files' = [files EXCEPT
                  ![file] =
                    [size |-> files[file].size + half,
                     data |-> files[file].data
                                \cup {<<files[file].size + k, Buffer(2 * k)>> :
                                        k \in 0 .. (half - 1)}],
                  ![SecondFlash] =
                    [size |-> files[SecondFlash].size + half,
                     data |-> files[SecondFlash].data
                                \cup {<<files[SecondFlash].size + k, Buffer(2 * k + 1)>> :
                                        k \in 0 .. (half - 1)}]]
  BY DEF PutCall, Put

LEMMA StackedPut ==
    ASSUME LoopInv, PutCall, qspi = "stacked"
    PROVE  LET rest == call.length - FirstPart
           IN  files' = [files EXCEPT
                  ![file] =
                    [size |-> files[file].size + FirstPart,
                     data |-> files[file].data
                                \cup {<<files[file].size + k, Buffer(k)>> :
                                        k \in 0 .. (FirstPart - 1)}],
                  ![SecondFlash] =
                    [size |-> files[SecondFlash].size + rest,
                     data |-> files[SecondFlash].data
                                \cup {<<files[SecondFlash].size + k, Buffer(FirstPart + k)>> :
                                        k \in 0 .. (rest - 1)}]]
  BY DEF PutCall, Put, Rest

\* What a call is, in the step that puts it.
LEMMA PutStep ==
    ASSUME LoopInv, PutCall
    PROVE  /\ call.start \in Nat /\ call.length \in Nat
           /\ Done = call.start /\ Done' = call.start + call.length
           /\ Done' = written /\ Flushed' = cursor /\ cursor \in Nat
           /\ UNCHANGED <<vars, options, phase, cursor, written, file>>
           /\ call.op = "Fill" => Flushed = cursor
           /\ call.op = "Write" =>
                /\ Flushed = cursor - 1 /\ cursor \in Index
                /\ call.start = Address[cursor] /\ call.length = sections[cursor].Length
           /\ \A k \in Int : Buffer(k) \in Int
           /\ call.op \in {"Fill", "Write"}
  <1> USE SizeAssumption, CallNames
  <1>1. /\ call.op \in {"Fill", "Write"} /\ call' = NoCall
        /\ UNCHANGED <<vars, options, phase, cursor, written, file>>
    BY DEF PutCall, Return
  <1>2. /\ call.start \in Nat /\ call.length \in Nat /\ call.start + call.length = written
        /\ call.op = "Write" =>
             /\ cursor \in Index
             /\ call.start = Address[cursor] /\ call.length = sections[cursor].Length
    BY <1>1 DEF LoopInv, CallInv, CallOK
  <1>3. cursor \in Nat
    BY DEF LoopInv, OutputInv
  <1> QED BY <1>1, <1>2, <1>3 DEF Done, Flushed, Buffer, FillByte

\* How far the first device takes a stacked call.
LEMMA FirstPartType ==
    ASSUME call.start \in Nat, call.length \in Nat
    PROVE  /\ FirstPart \in 0 .. call.length
           /\ call.start + FirstPart <= QspiSize \/ FirstPart = 0
           /\ FirstPart < call.length => call.start + FirstPart = QspiSize \/ call.start > QspiSize
  BY OutputAssumption DEF FirstPart

\* A call adds its bytes to the files: the sizes stay in step with the image.
LEMMA PutSizes ==
    ASSUME LoopInv, SizeInv, PutCall
    PROVE  SizeInv'
  <1> USE SizeAssumption, OutputAssumption
  <1> DEFINE n == call.length
  <1>1. /\ n \in Nat /\ call.start \in Nat
        /\ Done = call.start /\ Done' = call.start + n
        /\ UNCHANGED <<vars, options, cursor, written, file>>
        /\ \A k \in Int : Buffer(k) \in Int
    BY PutStep
  <1>2. /\ \A f \in FileIds : files[f].size \in Nat /\ files[f].data \subseteq Nat \X Int
        /\ files \in [FileIds -> FileContents]
    BY DEF SizeInv, FilesOK, FileContents
  <1>3. EndReached'
    BY <1>1 DEF SizeInv, EndReached, vars, End
  <1>4. Boot \in FileIds /\ SecondFlash \in FileIds /\ file \in FileIds /\ file # SecondFlash
        /\ Boot # SecondFlash
    BY FileNames
  <1>5. CASE qspi = "none"
    <2> DEFINE new == {<<files[file].size + k, Buffer(k)>> : k \in 0 .. (n - 1)}
    <2>1. files' = [files EXCEPT ![file] = [size |-> files[file].size + n,
                                            data |-> files[file].data \cup new]]
      BY <1>5, PlainPut
    <2>2. new \subseteq Nat \X Int
      BY <1>1, <1>2, <1>4
    <2> HIDE DEF new, n
    <2>3. FilesOK'
      <3>1. [size |-> files[file].size + n, data |-> files[file].data \cup new] \in FileContents
        BY <1>1, <1>2, <1>4, <2>2 DEF FileContents, n
      <3> QED BY <1>2, <1>4, <2>1, <3>1 DEF FilesOK
    <2>4. /\ files'[file].size = files[file].size + n
          /\ \A f \in FileIds : f # file => files'[f].size = files[f].size
      BY <1>2, <1>4, <2>1
    <2>5. SplitSizes'
      <3> SUFFICES ASSUME mode = "split" PROVE SplitSizes'
        BY <1>1 DEF SplitSizes, options
      <3>1. \A p \in 0 .. NumSections : Origin(p) \in Nat /\ Origin(p)' = Origin(p)
        BY <1>1, SectionNumbers DEF Origin, vars, LoopInv, Index
      <3>2. \A q \in toSplit : OwnFile(q) \in FileIds
        BY FileNames
      <3> QED BY <1>1, <1>2, <1>4, <2>4, <3>1, <3>2 DEF SizeInv, Sizes, SplitSizes, options, LeadFile
    <2>6. mode = "normal" => file = Boot
      BY FileNames
    <2> QED BY <1>1, <1>2, <1>3, <1>4, <1>5, <2>3, <2>4, <2>5, <2>6
            DEF SizeInv, Sizes, StackedSizes, options
  <1>6. CASE qspi = "parallel"
    <2> DEFINE half == n \div 2
               even == {<<files[file].size + k, Buffer(2 * k)>> : k \in 0 .. (half - 1)}
               odd  == {<<files[SecondFlash].size + k, Buffer(2 * k + 1)>> : k \in 0 .. (half - 1)}
    <2>1. files' = [files EXCEPT
             ![file] = [size |-> files[file].size + half, data |-> files[file].data \cup even],
             ![SecondFlash] = [size |-> files[SecondFlash].size + half,
                               data |-> files[SecondFlash].data \cup odd]]
      BY <1>6, ParallelPut
    <2>2. even \subseteq Nat \X Int /\ odd \subseteq Nat \X Int /\ half \in Nat
      BY <1>1, <1>2, <1>4
    <2> HIDE DEF even, odd, half
    <2>3. FilesOK'
      <3>1. /\ [size |-> files[file].size + half, data |-> files[file].data \cup even]
                  \in FileContents
            /\ [size |-> files[SecondFlash].size + half, data |-> files[SecondFlash].data \cup odd]
                  \in FileContents
        BY <1>2, <1>4, <2>2 DEF FileContents
      <3> QED BY <1>2, <1>4, <2>1, <3>1 DEF FilesOK
    <2>4. /\ files'[file].size = files[file].size + half
          /\ files'[SecondFlash].size = files[SecondFlash].size + half
      BY <1>2, <1>4, <2>1
    <2>5. mode = "normal" /\ file = Boot
      BY <1>6, FileNames
    <2> QED BY <1>1, <1>3, <1>6, <2>3, <2>4, <2>5 DEF SizeInv, Sizes, StackedSizes, SplitSizes, options
  <1>7. CASE qspi = "stacked"
    <2> DEFINE rest == n - FirstPart
               low  == {<<files[file].size + k, Buffer(k)>> : k \in 0 .. (FirstPart - 1)}
               high == {<<files[SecondFlash].size + k, Buffer(FirstPart + k)>> : k \in 0 .. (rest - 1)}
    <2>1. files' = [files EXCEPT
             ![file] = [size |-> files[file].size + FirstPart, data |-> files[file].data \cup low],
             ![SecondFlash] = [size |-> files[SecondFlash].size + rest,
                               data |-> files[SecondFlash].data \cup high]]
      BY <1>7, StackedPut
    <2>2. FirstPart \in Nat /\ rest \in Nat
      BY <1>1, FirstPartType
    <2>3. low \subseteq Nat \X Int /\ high \subseteq Nat \X Int
      BY <1>1, <1>2, <1>4, <2>2
    <2> HIDE DEF low, high
    <2>4. FilesOK'
      <3>1. /\ [size |-> files[file].size + FirstPart, data |-> files[file].data \cup low]
                  \in FileContents
            /\ [size |-> files[SecondFlash].size + rest, data |-> files[SecondFlash].data \cup high]
                  \in FileContents
        BY <1>2, <1>4, <2>2, <2>3 DEF FileContents
      <3> QED BY <1>2, <1>4, <2>1, <3>1 DEF FilesOK
    <2>5. /\ files'[file].size = files[file].size + FirstPart
          /\ files'[SecondFlash].size = files[SecondFlash].size + rest
      BY <1>2, <1>4, <2>1
    <2>6. mode = "normal" /\ file = Boot
      BY <1>7, FileNames
    <2>7. /\ files[Boot].size = IF Done <= QspiSize THEN Done ELSE QspiSize
          /\ files[SecondFlash].size = IF Done <= QspiSize THEN 0 ELSE Done - QspiSize
      BY <1>7 DEF SizeInv, Sizes, StackedSizes
    <2>8. StackedSizes'
      BY <1>1, <2>5, <2>6, <2>7 DEF StackedSizes, FirstPart
    <2> QED BY <1>1, <1>3, <1>7, <2>4, <2>6, <2>8 DEF SizeInv, Sizes, SplitSizes, options
  <1> QED BY <1>5, <1>6, <1>7 DEF LoopInv, CallInv, OptionsOK

\* The sizes of the files follow the image in every step.
LEMMA SizeStep ==
    ASSUME LoopInv, LoopInv', SizeInv, [BinNext]_binVars
    PROVE  SizeInv'
  <1>1. CASE OutputNext /\ UNCHANGED files
    BY <1>1, LoopSizes
  <1>2. CASE PutCall
    BY <1>2, PutSizes
  <1>3. CASE EndFile \/ UNCHANGED binVars
    <2>1. /\ UNCHANGED <<vars, options, cursor, written, file, files>>
          /\ Done' = Done
      BY <1>3, CallNames DEF EndFile, binVars, outputVars, Return, Done, LoopInv, CallInv, CallOK
    <2> QED BY <2>1 DEF SizeInv, FilesOK, EndReached, Sizes, StackedSizes, SplitSizes, vars, options,
                        Origin, End, LeadFile
  <1> QED BY <1>1, <1>2, <1>3 DEF BinNext

\* The size of every file at every point.
LEMMA SizesInvariant == BinSpec => [](Inv /\ Origins /\ LoopInv /\ SizeInv)
  <1>1. BinSpec => [](Inv /\ Origins /\ LoopInv)
    <2>1. Inv /\ Origins /\ OutputInv /\ CallInv => Inv /\ Origins /\ LoopInv
      BY DEF Inv, LoopInv
    <2> QED BY <2>1, BinRunsLoop, CallsInvariant, PTL
  <1>2. BinInit => SizeInv
    <2> SUFFICES ASSUME BinInit PROVE SizeInv
      OBVIOUS
    <2>1. /\ files = [f \in FileIds |-> [size |-> 0, data |-> {}]]
          /\ cursor = 0 /\ written = 0 /\ call = NoCall /\ file = Boot
          /\ toSplit \subseteq Index
      BY DEF BinInit, OutputInit
    <2>2. Done = 0
      BY <2>1, CallNames DEF Done
    <2>3. Boot \in FileIds /\ SecondFlash \in FileIds /\ \A q \in Index : OwnFile(q) \in FileIds
      BY DEF FileIds
    <2>4. \A p \in 0 .. NumSections : Boot = LeadFile(p) => p = 0
      BY LeadNames
    <2>5. FilesOK
      BY <2>1 DEF FilesOK, FileContents
    <2>6. EndReached
      BY <2>1, SizeAssumption DEF EndReached
    <2> QED BY <2>1, <2>2, <2>3, <2>4, <2>5, <2>6, OutputAssumption
            DEF SizeInv, Sizes, StackedSizes, SplitSizes, Origin
  <1> QED BY <1>1, <1>2, SizeStep, PTL DEF BinSpec

\* The files of the two devices hold half of the image each in the parallel mode,
\* the first device is full before the second gets a byte when stacked, and
\* without Dual QSPI nothing is written to a second file, for every image.
THEOREM DeviceSizesHold == BinSpec => []DeviceSizes
  <1>1. Inv /\ Origins /\ LoopInv /\ SizeInv => DeviceSizes
    <2> SUFFICES ASSUME Inv, Origins, LoopInv, SizeInv,
                        mode = "normal", phase = "closed", ~wrapped
                 PROVE  DeviceSizes
      BY DEF DeviceSizes
    <2> USE OutputAssumption
    <2>1. Done = written /\ written \in Nat /\ cursor = NumSections /\ status = "done"
      BY CallNames DEF LoopInv, CallInv, PhaseOK, OutputInv, Done
    <2>2. written <= TotalSize /\ TotalSize \in Nat
      <3>1. written = End(NumSections) /\ NumSections \in 1 .. NumSections
        BY <2>1, SizeAssumption DEF SizeInv, EndReached
      <3>2. placed = NumSections /\ TotalSize = running
        BY <2>1 DEF Origins
      <3>3. End(NumSections) <= running
        BY <3>1, <3>2 DEF Inv, Frontier
      <3>4. TotalSize \in Nat
        BY DEF Inv, TypeOK, Addresses
      <3> QED BY <3>1, <3>2, <3>3, <3>4
    <2>3. qspi \in {"none", "parallel", "stacked"}
      BY DEF LoopInv, CallInv, OptionsOK
    <2>4. CASE qspi = "none"
      BY <2>4 DEF SizeInv, Sizes, DeviceSizes
    <2>5. CASE qspi = "parallel"
      BY <2>5 DEF SizeInv, Sizes, DeviceSizes
    <2>6. CASE qspi = "stacked"
      <3>1. /\ files[Boot].size = IF written <= QspiSize THEN written ELSE QspiSize
            /\ files[SecondFlash].size = IF written <= QspiSize THEN 0 ELSE written - QspiSize
        BY <2>1, <2>6 DEF SizeInv, Sizes, StackedSizes
      <3>2. CASE Dual /\ written > QspiSize
        BY <2>1, <2>6, <3>1, <3>2 DEF DeviceSizes
      <3>3. CASE ~(Dual /\ written > QspiSize)
        <4>1. files[SecondFlash].size = 0
          BY <2>1, <2>2, <2>6, <3>1, <3>3 DEF Dual
        <4> QED BY <2>6, <3>3, <4>1 DEF DeviceSizes
      <3> QED BY <3>2, <3>3
    <2> QED BY <2>3, <2>4, <2>5, <2>6
  <1> QED BY <1>1, SizesInvariant, PTL

-----------------------------------------------------------------------------
\* In the parallel mode every call starts at an even byte and has an even length.
LEMMA EvenStep ==
    ASSUME "parallel" \in QspiModes => EvenImage,
           LoopInv, LoopInv', SizeInv, Aligned, EvenCalls, [BinNext]_binVars
    PROVE  EvenCalls'
  <1> USE SizeAssumption, CallNames
  <1> SUFFICES ASSUME qspi' = "parallel" PROVE EvenCalls'
    BY DEF EvenCalls
  <1>1. qspi = "parallel" /\ EvenImage
    <2>1. UNCHANGED options
      BY LoopStep DEF BinNext, PutCall, EndFile, binVars, outputVars
    <2> QED BY <2>1 DEF options, LoopInv, CallInv, OptionsOK
  <1>2. \A i \in Index : Address[i] % 2 = 0 /\ sections[i].Length % 2 = 0
    <2> TAKE i \in Index
    <2>1. Address[i] \in Nat /\ sections[i].Length \in Lengths
      BY SectionNumbers DEF LoopInv, TypeOK, Section
    <2> QED BY <1>1, <2>1, EvenAligned DEF Aligned, EvenImage, Words
  <1>3. Done % 2 = 0 /\ call.length % 2 = 0 /\ files[Boot].size = Done \div 2
    BY <1>1 DEF EvenCalls
  <1>4. Done \in Nat /\ call.length \in Nat
    BY DEF Done, LoopInv, OutputInv, CallInv, CallOK
  <1>5. CASE OutputNext /\ UNCHANGED files
    <2>1. Done' = Done
      BY <1>5, LoopStep
    <2>2. call'.length % 2 = 0
      <3>1. CASE FillGap
        <4>1. Current \in Index /\ written \in Nat /\ Address[Current] \in Nat
          BY <3>1, SectionNumbers DEF FillGap, InLoop, Current, LoopInv, OutputInv, Index
        <4>2. Done = written /\ call'.length = Address[Current] - written
              /\ written < Address[Current]
          BY <3>1 DEF FillGap, InLoop, Done
        <4> QED BY <1>2, <1>3, <4>1, <4>2
      <3>2. CASE WriteSection
        <4>1. Current \in Index
          BY <3>2 DEF WriteSection, InLoop, Current, LoopInv, OutputInv, Index
        <4> QED BY <1>2, <3>2, <4>1 DEF WriteSection
      <3>3. CASE call' = call \/ call' \in {NoCall, EndCall}
        BY <1>3, <3>3
      <3> QED BY <1>5, <3>1, <3>2, <3>3 DEF OutputNext, Layout, outputVars, Open, BackwardsError,
              EndSplitFile, OpenSplitFile, Postscript, CloseNext
    <2> QED BY <1>3, <1>5, <2>1, <2>2 DEF EvenCalls
  <1>6. CASE PutCall
    <2>1. Done' = Done + call.length /\ call' = NoCall
      BY <1>6, PutStep DEF PutCall, Return
    <2>2. files'[Boot].size = files[Boot].size + (call.length \div 2)
      <3>1. file = Boot /\ file # SecondFlash /\ file \in FileIds /\ SecondFlash \in FileIds
        BY <1>1, FileNames
      <3> QED BY <1>1, <1>6, <3>1, ParallelPut DEF SizeInv, FilesOK
    <2>3. files'[Boot].size = (Done + call.length) \div 2 /\ (Done + call.length) % 2 = 0
      BY <1>3, <1>4, <2>2
    <2> QED BY <2>1, <2>3 DEF EvenCalls
  <1>7. CASE EndFile \/ UNCHANGED binVars
    <2>1. Done' = Done /\ call'.length % 2 = 0 /\ files' = files
      BY <1>3, <1>7 DEF EndFile, binVars, outputVars, Return, Done, LoopInv, CallInv, CallOK
    <2> QED BY <1>3, <2>1 DEF EvenCalls
  <1> QED BY <1>5, <1>6, <1>7 DEF BinNext

\* A Write puts the bytes of its section at home, and nothing else.
LEMMA WriteHome ==
    ASSUME LoopInv, LoopInv', SizeInv, EvenCalls, PutCall, call.op = "Write", mode # "slaveboot",
           NEW f \in FileIds, NEW at \in Nat, NEW v \in Int
    PROVE  <<at, v>> \in files'[f].data <=>
                \/ <<at, v>> \in files[f].data
                \/ v \in BytesOf(cursor) /\ AtHome(f, at, cursor, v)
  <1> USE SizeAssumption, OutputAssumption
  <1>0. PICK n \in Nat, start \in Nat : n = call.length /\ start = call.start
    BY PutStep
  <1>1. /\ Done = start /\ cursor \in Index /\ cursor \in Nat
        /\ start = Address[cursor] /\ n = sections[cursor].Length
        /\ \A k : Buffer(k) = start + k
    BY <1>0, PutStep DEF Buffer
  <1>2. BytesOf(cursor) = start .. (start + n - 1)
    BY <1>1 DEF BytesOf, End
  <1>3. /\ files \in [FileIds -> FileContents] /\ file \in FileIds /\ SecondFlash \in FileIds
        /\ Boot \in FileIds /\ file # SecondFlash /\ \A g \in FileIds : files[g].size \in Nat
    BY FileNames DEF SizeInv, FilesOK, FileContents
  <1>4. v \in BytesOf(cursor) => v - start \in 0 .. (n - 1) /\ v = start + (v - start) /\ v \in Nat
    BY <1>1, <1>2
  <1>5. CASE qspi = "none"
    <2>1. PICK o \in Nat :
              /\ files[file].size + o = start
              /\ \A b \in Int : AtHome(f, at, cursor, b) <=> f = file /\ at = b - o
      <3>1. CASE mode = "normal"
        <4>1. file = Boot /\ files[file].size = start
          BY <1>1, <1>5, <3>1, FileNames DEF SizeInv, Sizes
        <4>2. \A b : StreamHome(cursor, b) = [file |-> Boot, at |-> b]
          BY <1>5, <3>1 DEF StreamHome, HomeOf
        <4>3. \A b \in Int : AtHome(f, at, cursor, b) <=> f = file /\ at = b - 0
          BY <4>1, <4>2 DEF AtHome
        <4> QED BY <1>1, <1>3, <4>1, <4>3
      <3>2. CASE mode = "split"
        <4>1. PICK p \in 0 .. NumSections : file = LeadFile(p) /\ IsLead(p, cursor)
          <5>1. call # NoCall
            BY CallNames
          <5> QED BY <3>2, <5>1 DEF LoopInv, CallInv, FileOK
        <4>2. Leading(cursor) = p
          BY <1>1, <4>1, LeadingIs
        <4>3. Origin(p) \in Nat /\ files[file].size + Origin(p) = start
          <5>1. Origin(p) \in Nat
            BY SectionNumbers DEF Origin, LoopInv, Index
          <5> QED BY <1>1, <1>3, <3>2, <4>1, <5>1 DEF SizeInv, Sizes, SplitSizes
        <4>4. \A b \in Int : StreamHome(cursor, b) = [file |-> LeadFile(p), at |-> b - Origin(p)]
          <5>1. CASE p = 0
            BY <1>5, <3>2, <4>2, <5>1 DEF StreamHome, HomeOf, LeadFile, Origin
          <5>2. CASE p # 0
            <6>1. \A b : HomeOf(cursor, b) = [file |-> OwnFile(p), at |-> b]
              BY <1>5, <3>2, <4>2, <5>2 DEF HomeOf
            <6> QED BY <3>2, <4>2, <5>2, <6>1 DEF StreamHome, LeadFile, Origin
          <5> QED BY <5>1, <5>2
        <4>5. \A b \in Int : AtHome(f, at, cursor, b) <=> f = file /\ at = b - Origin(p)
          BY <4>1, <4>4 DEF AtHome
        <4> QED BY <4>3, <4>5
      <3> QED BY <3>1, <3>2 DEF LoopInv, CallInv, OptionsOK
    <2>2. /\ f # file => files'[f].data = files[f].data
          /\ f = file => files'[f].data = files[f].data
                           \cup {<<files[f].size + k, Buffer(k)>> : k \in 0 .. (n - 1)}
      BY <1>3, <1>5, PlainPut, <1>0
    <2>3. CASE f # file
      BY <1>4, <2>1, <2>2, <2>3
    <2>4. CASE f = file
      <3>1. <<at, v>> \in files'[f].data <=>
                \/ <<at, v>> \in files[f].data
                \/ \E k \in 0 .. (n - 1) : at = files[f].size + k /\ v = start + k
        BY <1>1, <2>2, <2>4
      <3>2. (\E k \in 0 .. (n - 1) : at = files[f].size + k /\ v = start + k)
               <=> v \in BytesOf(cursor) /\ at = v - o
        <4>1. PICK size \in Nat : size = files[f].size /\ size + o = start
          BY <1>3, <2>1, <2>4
        <4>2. ASSUME NEW k \in 0 .. (n - 1), at = size + k, v = start + k
              PROVE  v \in start .. (start + n - 1) /\ at = v - o
          BY <4>1, <4>2
        <4>3. ASSUME v \in start .. (start + n - 1), at = v - o
              PROVE  \E k \in 0 .. (n - 1) : at = size + k /\ v = start + k
          <5>1. v - start \in 0 .. (n - 1) /\ at = size + (v - start) /\ v = start + (v - start)
            BY <4>1, <4>3
          <5> QED BY <5>1
        <4> QED BY <1>2, <4>1, <4>2, <4>3
      <3> QED BY <1>4, <2>1, <2>4, <3>1, <3>2
    <2> QED BY <2>3, <2>4
  <1>6. CASE qspi = "parallel"
    <2> DEFINE half == n \div 2
    <2>1. file = Boot /\ mode = "normal" /\ files[SecondFlash].size = files[Boot].size
          /\ files[Boot].size = start \div 2 /\ start % 2 = 0 /\ n % 2 = 0
      BY <1>0, <1>1, <1>6, FileNames DEF EvenCalls, SizeInv, Sizes
    <2>2. \A b : StreamHome(cursor, b) =
                   [file |-> IF b % 2 = 0 THEN Boot ELSE SecondFlash, at |-> b \div 2]
      BY <1>6, <2>1 DEF StreamHome, HomeOf
    <2>3. /\ f \notin {Boot, SecondFlash} => files'[f].data = files[f].data
          /\ f = Boot => files'[f].data = files[f].data
                \cup {<<files[f].size + k, Buffer(2 * k)>> : k \in 0 .. (half - 1)}
          /\ f = SecondFlash => files'[f].data = files[f].data
                \cup {<<files[f].size + k, Buffer(2 * k + 1)>> : k \in 0 .. (half - 1)}
      BY <1>3, <1>6, <2>1, ParallelPut, <1>0
    <2>4. PICK h \in Nat, s \in Nat : n = 2 * h /\ half = h /\ start = 2 * s /\ start \div 2 = s
      BY <1>1, <2>1
    <2> HIDE DEF half
    <2>5. CASE f = Boot
      <3>1. <<at, v>> \in files'[f].data <=>
                \/ <<at, v>> \in files[f].data
                \/ \E k \in 0 .. (half - 1) : at = files[f].size + k /\ v = start + 2 * k
        BY <1>1, <2>3, <2>5
      <3>2. (\E k \in 0 .. (h - 1) : at = s + k /\ v = 2 * s + 2 * k)
               <=> v \in (2 * s) .. (2 * s + 2 * h - 1) /\ v % 2 = 0 /\ at = v \div 2
        <4>1. ASSUME NEW k \in 0 .. (h - 1), at = s + k, v = 2 * s + 2 * k
              PROVE  v \in (2 * s) .. (2 * s + 2 * h - 1) /\ v % 2 = 0 /\ at = v \div 2
          BY <4>1
        <4>2. ASSUME v \in (2 * s) .. (2 * s + 2 * h - 1), v % 2 = 0, at = v \div 2
              PROVE  \E k \in 0 .. (h - 1) : at = s + k /\ v = 2 * s + 2 * k
          <5>1. at - s \in 0 .. (h - 1) /\ at = s + (at - s) /\ v = 2 * s + 2 * (at - s)
            BY <4>2
          <5> QED BY <5>1
        <4> QED BY <4>1, <4>2
      <3>3. AtHome(f, at, cursor, v) <=> v % 2 = 0 /\ at = v \div 2
        BY <1>3, <2>2, <2>5, FileNames DEF AtHome
      <3> QED BY <1>2, <2>1, <2>4, <2>5, <3>1, <3>2, <3>3
    <2>6. CASE f = SecondFlash
      <3>1. <<at, v>> \in files'[f].data <=>
                \/ <<at, v>> \in files[f].data
                \/ \E k \in 0 .. (half - 1) : at = files[f].size + k /\ v = start + (2 * k + 1)
        BY <1>1, <2>3, <2>6
      <3>2. (\E k \in 0 .. (h - 1) : at = s + k /\ v = 2 * s + (2 * k + 1))
               <=> v \in (2 * s) .. (2 * s + 2 * h - 1) /\ v % 2 # 0 /\ at = v \div 2
        <4>1. ASSUME NEW k \in 0 .. (h - 1), at = s + k, v = 2 * s + (2 * k + 1)
              PROVE  v \in (2 * s) .. (2 * s + 2 * h - 1) /\ v % 2 # 0 /\ at = v \div 2
          BY <4>1
        <4>2. ASSUME v \in (2 * s) .. (2 * s + 2 * h - 1), v % 2 # 0, at = v \div 2
              PROVE  \E k \in 0 .. (h - 1) : at = s + k /\ v = 2 * s + (2 * k + 1)
          <5>1. at - s \in 0 .. (h - 1) /\ at = s + (at - s) /\ v = 2 * s + (2 * (at - s) + 1)
            BY <4>2
          <5> QED BY <5>1
        <4> QED BY <4>1, <4>2
      <3>3. AtHome(f, at, cursor, v) <=> v % 2 # 0 /\ at = v \div 2
        BY <1>3, <2>2, <2>6, FileNames DEF AtHome
      <3> QED BY <1>2, <2>1, <2>4, <2>6, <3>1, <3>2, <3>3
    <2>7. CASE f \notin {Boot, SecondFlash}
      <3>1. ~AtHome(f, at, cursor, v)
        BY <2>2, <2>7 DEF AtHome
      <3> QED BY <2>3, <2>7, <3>1
    <2> QED BY <2>5, <2>6, <2>7
  <1>7. CASE qspi = "stacked"
    <2> DEFINE rest == n - FirstPart
    <2>1. /\ file = Boot /\ mode = "normal"
          /\ files[Boot].size = IF start <= QspiSize THEN start ELSE QspiSize
          /\ files[SecondFlash].size = IF start <= QspiSize THEN 0 ELSE start - QspiSize
      BY <1>1, <1>7, FileNames DEF SizeInv, Sizes, StackedSizes
    <2>2. \A b : StreamHome(cursor, b) =
                   IF b >= QspiSize THEN [file |-> SecondFlash, at |-> b - QspiSize]
                   ELSE [file |-> Boot, at |-> b]
      BY <1>7, <2>1 DEF StreamHome, HomeOf
    <2>3. /\ f \notin {Boot, SecondFlash} => files'[f].data = files[f].data
          /\ f = Boot => files'[f].data = files[f].data
                \cup {<<files[f].size + k, Buffer(k)>> : k \in 0 .. (FirstPart - 1)}
          /\ f = SecondFlash => files'[f].data = files[f].data
                \cup {<<files[f].size + k, Buffer(FirstPart + k)>> : k \in 0 .. (rest - 1)}
      BY <1>3, <1>7, <2>1, StackedPut, <1>0
    <2>4. FirstPart = IF start + n <= QspiSize THEN n
                      ELSE IF start <= QspiSize THEN QspiSize - start ELSE 0
      BY <1>0 DEF FirstPart
    <2>8. PICK low \in Nat, size \in Nat, q \in Nat :
              low = FirstPart /\ size = files[f].size /\ q = QspiSize
      <3>1. FirstPart \in Nat
        BY <1>0, FirstPartType
      <3> QED BY <1>3, <3>1
    <2>9. /\ low = IF start + n <= q THEN n ELSE IF start <= q THEN q - start ELSE 0
          /\ f = Boot => size = IF start <= q THEN start ELSE q
          /\ f = SecondFlash => size = IF start <= q THEN 0 ELSE start - q
      BY <2>1, <2>4, <2>8
    <2>5. CASE f = Boot
      <3>1. <<at, v>> \in files'[f].data <=>
                \/ <<at, v>> \in files[f].data
                \/ \E k \in 0 .. (low - 1) : at = size + k /\ v = start + k
        BY <1>1, <2>3, <2>5, <2>8
      <3>2. (\E k \in 0 .. (low - 1) : at = size + k /\ v = start + k)
               <=> v \in BytesOf(cursor) /\ v < q /\ at = v
        <4>1. ASSUME NEW k \in 0 .. (low - 1), at = size + k, v = start + k
              PROVE  v \in BytesOf(cursor) /\ v < q /\ at = v
          BY <1>2, <2>5, <2>8, <2>9, <4>1
        <4>2. ASSUME v \in BytesOf(cursor), v < q, at = v
              PROVE  \E k \in 0 .. (low - 1) : at = size + k /\ v = start + k
          <5>1. v - start \in 0 .. (low - 1) /\ at = size + (v - start)
            BY <1>2, <2>5, <2>8, <2>9, <4>2
          <5> QED BY <1>4, <4>2, <5>1
        <4> QED BY <4>1, <4>2
      <3>3. AtHome(f, at, cursor, v) <=> v < q /\ at = v
        BY <1>3, <2>2, <2>5, <2>8, FileNames DEF AtHome
      <3> QED BY <3>1, <3>2, <3>3
    <2>6. CASE f = SecondFlash
      <3>1. <<at, v>> \in files'[f].data <=>
                \/ <<at, v>> \in files[f].data
                \/ \E k \in 0 .. (n - low - 1) : at = size + k /\ v = start + (low + k)
        BY <1>1, <2>3, <2>6, <2>8
      <3>2. (\E k \in 0 .. (n - low - 1) : at = size + k /\ v = start + (low + k))
               <=> v \in BytesOf(cursor) /\ v >= q /\ at = v - q
        <4>1. ASSUME NEW k \in 0 .. (n - low - 1), at = size + k, v = start + (low + k)
              PROVE  v \in BytesOf(cursor) /\ v >= q /\ at = v - q
          BY <1>2, <2>6, <2>8, <2>9, <4>1
        <4>2. ASSUME v \in BytesOf(cursor), v >= q, at = v - q
              PROVE  \E k \in 0 .. (n - low - 1) : at = size + k /\ v = start + (low + k)
          <5>1. /\ v - start - low \in 0 .. (n - low - 1)
                /\ at = size + (v - start - low)
                /\ v = start + (low + (v - start - low))
            BY <1>2, <2>6, <2>8, <2>9, <4>2
          <5> QED BY <5>1
        <4> QED BY <4>1, <4>2
      <3>3. AtHome(f, at, cursor, v) <=> v >= q /\ at = v - q
        BY <1>3, <2>2, <2>6, <2>8, FileNames DEF AtHome
      <3> QED BY <3>1, <3>2, <3>3
    <2>7. CASE f \notin {Boot, SecondFlash}
      <3>1. ~AtHome(f, at, cursor, v)
        BY <2>2, <2>7 DEF AtHome
      <3> QED BY <2>3, <2>7, <3>1
    <2> QED BY <2>5, <2>6, <2>7
  <1> QED BY <1>5, <1>6, <1>7 DEF LoopInv, CallInv, OptionsOK

\* A Fill puts fill bytes only, and no call takes anything away.
LEMMA FillOnly ==
    ASSUME LoopInv, SizeInv, PutCall, call.op = "Fill", NEW f \in FileIds
    PROVE  /\ files[f].data \subseteq files'[f].data
           /\ \A x \in files'[f].data : x \in files[f].data \/ x[2] = FillByte
  <1>1. \A k : Buffer(k) = FillByte
    BY DEF Buffer
  <1>2. /\ files \in [FileIds -> FileContents] /\ file \in FileIds /\ SecondFlash \in FileIds
        /\ file # SecondFlash
    BY FileNames DEF SizeInv, FilesOK
  <1>3. CASE qspi = "none"
    <2>1. files'[f].data = IF f = file
              THEN files[f].data \cup {<<files[f].size + k, FillByte>> : k \in 0 .. (call.length - 1)}
              ELSE files[f].data
      BY <1>1, <1>2, <1>3, PlainPut
    <2> QED BY <2>1
  <1>4. CASE qspi = "parallel"
    <2> DEFINE new == {<<files[f].size + k, FillByte>> : k \in 0 .. ((call.length \div 2) - 1)}
    <2>1. /\ f \notin {file, SecondFlash} => files'[f].data = files[f].data
          /\ f = file => files'[f].data = files[f].data \cup new
          /\ f = SecondFlash => files'[f].data = files[f].data \cup new
      BY <1>1, <1>2, <1>4, ParallelPut
    <2> QED BY <2>1
  <1>5. CASE qspi = "stacked"
    <2> DEFINE low == {<<files[f].size + k, FillByte>> : k \in 0 .. (FirstPart - 1)}
               high == {<<files[f].size + k, FillByte>> : k \in 0 .. (call.length - FirstPart - 1)}
    <2>1. /\ f \notin {file, SecondFlash} => files'[f].data = files[f].data
          /\ f = file => files'[f].data = files[f].data \cup low
          /\ f = SecondFlash => files'[f].data = files[f].data \cup high
      BY <1>1, <1>2, <1>5, StackedPut
    <2> QED BY <2>1
  <1> QED BY <1>3, <1>4, <1>5 DEF LoopInv, CallInv, OptionsOK

\* Home is where the layout and the options say, and both stay.
LEMMA HomeKept ==
    ASSUME UNCHANGED <<vars, options>>
    PROVE  \A i, v : /\ (StreamHome(i, v))' = StreamHome(i, v)
                     /\ BytesOf(i)' = BytesOf(i)
  <1> USE DEF vars, options
  <1>1. \A i : (Leading(i))' = Leading(i)
    BY DEF Leading
  <1>2. \A i, v : (HomeOf(i, v))' = HomeOf(i, v)
    BY <1>1 DEF HomeOf, SlaveFile, LinkedOffset
  <1> QED BY <1>1, <1>2 DEF StreamHome, BytesOf, End

ContentsInv == Sound /\ Complete

\* The byte of a section that is being written has a home.
LEMMA HomeExists ==
    ASSUME LoopInv, SizeInv, call.op = "Write", mode # "slaveboot", NEW v \in BytesOf(cursor)
    PROVE  \E f \in FileIds, at \in 0 .. v : AtHome(f, at, cursor, v)
  <1> USE SizeAssumption, OutputAssumption
  <1>1. /\ cursor \in Index /\ cursor \in Nat /\ call.start = Address[cursor]
        /\ Done = call.start /\ call.start \in Nat /\ call # NoCall
    BY CallNames DEF LoopInv, OutputInv, CallInv, CallOK, Done
  <1>2. v \in Nat /\ Done <= v
    BY <1>1, SectionNumbers DEF BytesOf, LoopInv
  <1>3. Boot \in FileIds /\ SecondFlash \in FileIds
    BY FileNames
  <1>4. CASE mode = "normal"
    <2>1. \/ StreamHome(cursor, v) = [file |-> Boot, at |-> v]
          \/ StreamHome(cursor, v) = [file |-> Boot, at |-> v \div 2]
          \/ StreamHome(cursor, v) = [file |-> SecondFlash, at |-> v \div 2]
          \/ v >= QspiSize /\ StreamHome(cursor, v) = [file |-> SecondFlash, at |-> v - QspiSize]
      <3>1. CASE qspi = "none"
        BY <1>4, <3>1 DEF StreamHome, HomeOf
      <3>2. CASE qspi = "parallel"
        BY <1>4, <3>2 DEF StreamHome, HomeOf
      <3>3. CASE qspi = "stacked"
        BY <1>4, <3>3 DEF StreamHome, HomeOf
      <3> QED BY <3>1, <3>2, <3>3 DEF LoopInv, CallInv, OptionsOK
    <2>2. v \in 0 .. v /\ v \div 2 \in 0 .. v /\ (v >= QspiSize => v - QspiSize \in 0 .. v)
      BY <1>2
    <2> QED BY <1>3, <2>1, <2>2 DEF AtHome
  <1>5. CASE mode = "split"
    <2>1. PICK p \in 0 .. NumSections : file = LeadFile(p) /\ IsLead(p, cursor)
      BY <1>1, <1>5 DEF LoopInv, CallInv, FileOK
    <2>2. Leading(cursor) = p
      BY <1>1, <2>1, LeadingIs
    <2>3. Origin(p) <= Done /\ Origin(p) \in Nat
      BY <1>5, <2>1, SectionNumbers DEF SizeInv, Sizes, SplitSizes, Origin, LoopInv, Index
    <2>4. qspi = "none"
      BY <1>5 DEF LoopInv, CallInv, OptionsOK
    <2>5. StreamHome(cursor, v) = [file |-> LeadFile(p), at |-> v - Origin(p)]
      <3>1. CASE p = 0
        BY <1>2, <1>5, <2>2, <2>4, <3>1 DEF StreamHome, HomeOf, LeadFile, Origin
      <3>2. CASE p # 0
        <4>1. HomeOf(cursor, v) = [file |-> OwnFile(p), at |-> v]
          BY <1>5, <2>2, <2>4, <3>2 DEF HomeOf
        <4> QED BY <1>5, <2>2, <3>2, <4>1 DEF StreamHome, LeadFile, Origin
      <3> QED BY <3>1, <3>2
    <2>6. LeadFile(p) \in FileIds
      BY <2>1, FileNames
    <2>7. v - Origin(p) \in 0 .. v
      BY <1>1, <1>2, <2>3
    <2> QED BY <2>5, <2>6, <2>7 DEF AtHome
  <1> QED BY <1>4, <1>5 DEF LoopInv, CallInv, OptionsOK

\* The bytes of the section that a Write puts are added to what is at home.
LEMMA PutContents ==
    ASSUME LoopInv, LoopInv', SizeInv, SizeInv', EvenCalls, ContentsInv, PutCall
    PROVE  ContentsInv'
  <1>1. UNCHANGED <<vars, options>> /\ Flushed' = cursor /\ cursor \in Nat /\ mode' = mode
        /\ call.op \in {"Fill", "Write"}
    BY PutStep DEF options
  <1>2. \A i, v : /\ (StreamHome(i, v))' = StreamHome(i, v)
                  /\ BytesOf(i)' = BytesOf(i)
    BY <1>1, HomeKept
  <1> SUFFICES ASSUME mode # "slaveboot"
               PROVE  /\ \A f \in FileIds : \A x \in files'[f].data : x[2] \in Nat =>
                            \E i \in 1 .. cursor : x[2] \in BytesOf(i) /\ AtHome(f, x[1], i, x[2])
                      /\ \A i \in 1 .. cursor : \A v \in BytesOf(i) :
                            \E f \in FileIds, at \in 0 .. v :
                                AtHome(f, at, i, v) /\ <<at, v>> \in files'[f].data
    BY <1>1, <1>2 DEF ContentsInv, Sound, Complete, AtHome
  <1>3. \A f \in FileIds : \A x \in files'[f].data :
            x[1] \in Nat /\ x[2] \in Int /\ x = <<x[1], x[2]>>
    BY DEF SizeInv, FilesOK, FileContents
  <1>4. CASE call.op = "Fill"
    <2>1. Flushed = cursor
      BY <1>4, PutStep
    <2>2. \A f \in FileIds : /\ files[f].data \subseteq files'[f].data
                             /\ \A x \in files'[f].data : x[2] \in Nat => x \in files[f].data
      BY <1>4, FillOnly DEF FillByte
    <2> QED BY <2>1, <2>2 DEF ContentsInv, Sound, Complete
  <1>5. CASE call.op = "Write"
    <2>1. /\ Flushed = cursor - 1 /\ cursor \in Index
          /\ \A i \in 1 .. cursor : i \in 1 .. Flushed \/ i = cursor
          /\ \A i \in 1 .. Flushed : i \in 1 .. cursor
          /\ cursor \in 1 .. cursor
      BY <1>1, <1>5, PutStep DEF Index
    <2>2. \A f \in FileIds, at \in Nat, v \in Int :
              <<at, v>> \in files'[f].data <=>
                    \/ <<at, v>> \in files[f].data
                    \/ v \in BytesOf(cursor) /\ AtHome(f, at, cursor, v)
      BY <1>5, WriteHome
    <2>3. ASSUME NEW f \in FileIds, NEW x \in files'[f].data, x[2] \in Nat
          PROVE  \E i \in 1 .. cursor : x[2] \in BytesOf(i) /\ AtHome(f, x[1], i, x[2])
      <3>1. x[1] \in Nat /\ x = <<x[1], x[2]>> /\ x[2] \in Int
        BY <1>3, <2>3
      <3>2. x \in files[f].data \/ (x[2] \in BytesOf(cursor) /\ AtHome(f, x[1], cursor, x[2]))
        BY <2>2, <2>3, <3>1
      <3> QED BY <2>1, <2>3, <3>2 DEF ContentsInv, Sound
    <2>4. ASSUME NEW i \in 1 .. cursor, NEW v \in BytesOf(i)
          PROVE  \E f \in FileIds, at \in 0 .. v :
                    AtHome(f, at, i, v) /\ <<at, v>> \in files'[f].data
      <3>1. i \in Index /\ v \in Nat
        <4>1. i \in Index
          BY <1>1, <2>1, SizeAssumption DEF Index
        <4> QED BY <4>1, SectionNumbers DEF BytesOf, LoopInv
      <3>2. PICK f \in FileIds, at \in 0 .. v :
                /\ AtHome(f, at, i, v)
                /\ i = cursor \/ <<at, v>> \in files[f].data
        BY <1>5, <2>1, HomeExists DEF ContentsInv, Complete
      <3>3. at \in Nat /\ v \in Int
        BY <3>1
      <3> QED BY <2>2, <3>2, <3>3
    <2> QED BY <2>3, <2>4
  <1> QED BY <1>1, <1>4, <1>5

\* Whatever step is made, the sections put so far are at home and nothing else is.
LEMMA ContentsStep ==
    ASSUME LoopInv, LoopInv', SizeInv, SizeInv', EvenCalls, ContentsInv, [BinNext]_binVars
    PROVE  ContentsInv'
  <1>1. CASE PutCall
    BY <1>1, PutContents
  <1>2. CASE UNCHANGED files /\ Flushed' = Flushed /\ UNCHANGED options
             /\ (UNCHANGED vars \/ Flushed = 0)
    <2>1. CASE Flushed = 0
      <3>1. 1 .. Flushed = {}
        BY <2>1
      <3>2. mode # "slaveboot" => \A f \in FileIds : \A x \in files[f].data : ~(x[2] \in Nat)
        BY <3>1 DEF ContentsInv, Sound
      <3> QED BY <1>2, <3>1, <3>2 DEF ContentsInv, Sound, Complete, options
    <2>2. CASE UNCHANGED vars
      <3>1. \A i, v : /\ (StreamHome(i, v))' = StreamHome(i, v)
                      /\ BytesOf(i)' = BytesOf(i)
        BY <1>2, <2>2, HomeKept
      <3> QED BY <1>2, <3>1 DEF ContentsInv, Sound, Complete, AtHome, options
    <2> QED BY <1>2, <2>1, <2>2
  <1>3. CASE OutputNext /\ UNCHANGED files
    <2>1. /\ Flushed' = Flushed /\ UNCHANGED options
          /\ \/ UNCHANGED vars
             \/ cursor = 0 /\ call = NoCall
      BY <1>3, LoopStep
    <2> QED BY <1>2, <1>3, <2>1, CallNames DEF Flushed
  <1>4. CASE EndFile \/ UNCHANGED binVars
    <2>1. UNCHANGED <<vars, options, files>> /\ Flushed' = Flushed
      BY <1>4, CallNames DEF EndFile, binVars, outputVars, Return, Flushed
    <2> QED BY <1>2, <2>1
  <1> QED BY <1>1, <1>3, <1>4 DEF BinNext

\* What is in the files at every point, for images that the parallel mode can
\* deal out.
LEMMA ContentsInvariant ==
    ASSUME "parallel" \in QspiModes => EvenImage
    PROVE  BinSpec => [](Inv /\ LoopInv /\ SizeInv /\ ContentsInv)
  <1>1. BinInit => EvenCalls /\ ContentsInv
    <2> SUFFICES ASSUME BinInit PROVE EvenCalls /\ ContentsInv
      OBVIOUS
    <2>1. /\ files = [f \in FileIds |-> [size |-> 0, data |-> {}]]
          /\ cursor = 0 /\ written = 0 /\ call = NoCall
      BY DEF BinInit, OutputInit
    <2>2. Done = 0 /\ Flushed = 0
      BY <2>1, CallNames DEF Done, Flushed
    <2>3. Boot \in FileIds
      BY DEF FileIds
    <2> QED BY <2>1, <2>2, <2>3, CallNames DEF EvenCalls, ContentsInv, Sound, Complete
  <1>2. BinSpec => []Aligned
    BY BinRunsLoop, OutputKeepsLayout, AlignedInvariant, PTL
  <1>3. /\ LoopInv /\ LoopInv' /\ SizeInv /\ SizeInv' /\ Aligned
        /\ EvenCalls /\ ContentsInv /\ [BinNext]_binVars
        => EvenCalls' /\ ContentsInv'
    BY EvenStep, ContentsStep
  <1> QED BY <1>1, <1>2, <1>3, SizesInvariant, PTL DEF BinSpec

\* In a single image, in both Dual QSPI modes and in the files of a split, every
\* byte is where the device reads it from and no byte is anywhere else, for every
\* image and every size of the devices; in the parallel mode, for sections of
\* even length.
THEOREM BytesHome ==
    ASSUME "parallel" \in QspiModes => EvenImage
    PROVE  BinSpec => []BytesAtHome
  <1>1. Inv /\ LoopInv /\ SizeInv /\ ContentsInv => BytesAtHome
    <2> SUFFICES ASSUME Inv, LoopInv, SizeInv, ContentsInv, mode # "slaveboot", call = NoCall,
                        NEW i \in 1 .. cursor, NEW b \in BytesOf(i),
                        NEW f \in FileIds, NEW at \in 0 .. TotalSize
                 PROVE  <<at, b>> \in files[f].data <=> AtHome(f, at, i, b)
      BY DEF BytesAtHome, AtHome
    <2>1. Flushed = cursor /\ cursor \in 0 .. NumSections
      BY CallNames DEF Flushed, LoopInv, OutputInv
    <2>2. \A j \in 1 .. cursor : j \in Index
      BY <2>1, SizeAssumption DEF Index
    <2>3. b \in Nat
      BY <2>2, SectionNumbers DEF BytesOf, LoopInv
    <2>4. \A j \in 1 .. cursor : b \in BytesOf(j) => j = i
      <3> SUFFICES ASSUME NEW j \in 1 .. cursor, b \in BytesOf(j), j # i PROVE FALSE
        OBVIOUS
      <3>1. /\ Address[i] \in Nat /\ Address[j] \in Nat /\ End(i) \in Nat /\ End(j) \in Nat
            /\ i \in Nat /\ j \in Nat
        BY <2>2, SectionNumbers DEF LoopInv, Index
      <3>2. End(i) <= Address[j] \/ End(j) <= Address[i]
        <4>1. i < j \/ j < i
          BY <3>1
        <4> QED BY <4>1 DEF LoopInv, CallInv, Ordered
      <3> QED BY <2>3, <3>1, <3>2 DEF BytesOf
    <2>5. ASSUME <<at, b>> \in files[f].data PROVE AtHome(f, at, i, b)
      <3> DEFINE x == <<at, b>>
      <3>1. \E j \in 1 .. cursor : x[2] \in BytesOf(j) /\ AtHome(f, x[1], j, x[2])
        BY <2>1, <2>3, <2>5 DEF ContentsInv, Sound
      <3> QED BY <2>4, <3>1
    <2>6. ASSUME AtHome(f, at, i, b) PROVE <<at, b>> \in files[f].data
      BY <2>1, <2>6 DEF ContentsInv, Complete, AtHome
    <2> QED BY <2>5, <2>6
  <1> QED BY <1>1, ContentsInvariant, PTL

-----------------------------------------------------------------------------
(* The files of a slave boot split, where no attribute opens a gap: the     *)
(* layout leaves nothing between two sections but padding, so that the      *)
(* header sizes are where the partitions of each file start.                *)

\* Header tables precede the bootloader, which precedes the other partitions;
\* checksums are last, and a certificate needs no padding.
SplitOrder ==
    /\ \E b \in Index : sections[b].kind = "bootloader"
    /\ \A i, j \in Index :
          /\ sections[i].kind = "checksum" /\ i < j => sections[j].kind = "checksum"
          /\ sections[i].kind = "header" /\ j < i =>
                sections[j].kind \in {"BootHeader", "header"}
    /\ \A i \in Index : sections[i].kind = "bootloaderAC" =>
          sections[i].Length % DefaultAlignment = 0

\* Where the section behind section i starts, or will start.
Follow(i) == IF i = placed THEN running ELSE Address[i + 1]

HeaderBytes == sizes.bootheader + sizes.allHeader + sizes.bootloader

\* The bootloader is placed behind the headers, and the first partition behind the
\* bootloader and its certificate, exactly where the header sizes say.
LinkedExactly ==
    ~wrapped /\ NoUserGaps =>
        /\ reserved = 0
        /\ \A j \in Index : j > placed => Address[j] = 0
        /\ placed >= 1 => Follow(1) = sizes.bootheader
        /\ \A i \in 1 .. placed :
              /\ sections[i].kind = "bootloader" =>
                    Address[i] = sizes.bootheader + sizes.allHeader
              /\ /\ sections[i].kind \in {"bootloader", "bootloaderAC"}
                 /\ i < placed => sections[i + 1].kind # "bootloaderAC"
                 => Follow(i) = HeaderBytes

\* A section of an image without such attributes starts where the one before it
\* ends, padding included.
LEMMA PlainPlace ==
    ASSUME Inv, LinkedExactly, StackSection, ~wrapped', NoUserGaps
    PROVE  LET i == placed + 1
           IN  /\ ~wrapped /\ i \in Index /\ placed \in Nat /\ placed' = i
               /\ sections' = sections /\ reserved' = 0
               /\ Address' = [Address EXCEPT ![i] = running]
               /\ sizes' = SizesOf(i, running, running')
               /\ ~Cuts(running + sections[i].Length, DefaultAlignment)
               /\ running' = AlignUp((running + sections[i].Length) % AddressModulus,
                                     DefaultAlignment)
               /\ running \in Nat /\ running' \in Nat /\ sections[i].Length \in Nat
  <1> DEFINE i == placed + 1
  <1>1. TypeOK /\ i \in Index /\ placed \in Nat /\ placed' = i /\ sections' = sections
    BY SizeAssumption DEF StackSection, Inv, TypeOK, Index
  <1>2. ~wrapped /\ running' \in Nat /\ ~Cuts(AddressOf(i) + sections[i].Length, DefaultAlignment)
    BY <1>1, StackFacts
  <1>3. running \in Nat /\ reserved \in Nat /\ sections[i].Length \in Nat
    BY <1>1, SectionNumbers DEF TypeOK, Addresses
  <1>4. reserved = 0 /\ Address[i] = 0
    BY <1>1, <1>2 DEF LinkedExactly
  <1>5. Start(i) = running
    BY <1>3, <1>4 DEF Start
  <1>6. sections[i].Alignment = 0 /\ sections[i].Reserve = 0
    BY <1>1 DEF NoUserGaps
  <1>7. AddressOf(i) = running
    BY <1>4, <1>5, <1>6 DEF AddressOf
  <1>8. Place(i, running)
    BY <1>7 DEF StackSection
  <1> QED BY <1>1, <1>2, <1>3, <1>4, <1>5, <1>6, <1>7, <1>8 DEF Place

\* Placing a section leaves the header sizes exact.
LEMMA PlaceLinked ==
    ASSUME Inv, TypeOK', Aligned, Listed, SplitOrder, LinkedExactly, StackSection
    PROVE  LinkedExactly'
  <1> USE SizeAssumption
  <1> SUFFICES ASSUME ~wrapped', NoUserGaps' PROVE LinkedExactly'
    BY DEF LinkedExactly
  <1> DEFINE i == placed + 1
  <1>1. NoUserGaps
    BY DEF StackSection, NoUserGaps
  <1>2. /\ ~wrapped /\ i \in Index /\ placed \in Nat /\ placed' = i
        /\ sections' = sections /\ reserved' = 0
        /\ Address' = [Address EXCEPT ![i] = running]
        /\ sizes' = SizesOf(i, running, running')
        /\ ~Cuts(running + sections[i].Length, DefaultAlignment)
        /\ running' = AlignUp((running + sections[i].Length) % AddressModulus,
                              DefaultAlignment)
        /\ running \in Nat /\ running' \in Nat /\ sections[i].Length \in Nat
    BY <1>1, PlainPlace
  <1>3. /\ Address \in [Index -> Addresses] /\ sizes \in [SizeFields -> Int]
        /\ sizes.bootheader \in Int /\ sizes.allHeader \in Int /\ sizes.bootloader \in Int
    BY DEF Inv, TypeOK, SizeFields
  <1>4. /\ \A k \in 1 .. placed : k \in Index /\ k < i /\ k # i /\ Address'[k] = Address[k]
        /\ Address'[i] = running
        /\ \A k \in 1 .. i : k \in 1 .. placed \/ k = i
    BY <1>2, <1>3 DEF Index
  <1>5. \A j \in Index : j > i => Address'[j] = 0
    BY <1>1, <1>2, <1>3 DEF LinkedExactly, Index
  <1>6. \A k \in 1 .. placed : Follow(k)' = Follow(k)
    <2> TAKE k \in 1 .. placed
    <2>1. CASE k = placed
      BY <1>2, <1>4, <2>1 DEF Follow
    <2>2. CASE k # placed
      <3>1. k + 1 \in 1 .. placed /\ k # placed'
        BY <1>2, <2>2
      <3> QED BY <1>4, <2>2, <3>1 DEF Follow
    <2> QED BY <2>1, <2>2
  <1>7. (Follow(placed))' = running'
    BY DEF Follow
  <1>8. \A k : k = i => Follow(k)' = running'
    BY <1>2 DEF Follow
  <1>9. /\ placed >= 1 => Follow(1) = sizes.bootheader
        /\ \A k \in 1 .. placed :
              /\ sections[k].kind = "bootloader" =>
                    Address[k] = sizes.bootheader + sizes.allHeader
              /\ /\ sections[k].kind \in {"bootloader", "bootloaderAC"}
                 /\ k < placed => sections[k + 1].kind # "bootloaderAC"
                 => Follow(k) = HeaderBytes
    BY <1>1, <1>2 DEF LinkedExactly
  <1> DEFINE Exact ==
                /\ Follow(1)' = sizes'.bootheader
                /\ \A k \in 1 .. i :
                      /\ sections[k].kind = "bootloader" =>
                            Address'[k] = sizes'.bootheader + sizes'.allHeader
                      /\ /\ sections[k].kind \in {"bootloader", "bootloaderAC"}
                         /\ k < i => sections[k + 1].kind # "bootloaderAC"
                         => Follow(k)' = HeaderBytes'
  <1> SUFFICES Exact
    BY <1>2, <1>5 DEF LinkedExactly
  <1>10. CASE sections[i].kind = "BootHeader"
    <2>1. i = 1 /\ placed = 0
      BY <1>2, <1>10 DEF Listed
    <2>2. sizes'.bootheader = running'
      BY <1>2, <1>3, <1>10 DEF SizesOf, SizeFields
    <2> QED BY <1>8, <1>10, <2>1, <2>2
  <1>11. CASE sections[i].kind = "bootloader"
    <2>1. /\ sizes'.bootheader = sizes.bootheader
          /\ sizes'.allHeader = running - sizes.bootheader
          /\ sizes'.bootloader = running' - running
      BY <1>2, <1>3, <1>11 DEF SizesOf, SizeFields
    <2>2. \A k \in 1 .. placed : sections[k].kind \in {"BootHeader", "header"}
      BY <1>2, <1>4, <1>11 DEF Listed
    <2>3. 1 \in 1 .. placed
      BY <1>2, <1>11 DEF Listed
    <2>4. HeaderBytes' = running'
      BY <1>2, <1>3, <2>1 DEF HeaderBytes
    <2>5. Address'[i] = sizes'.bootheader + sizes'.allHeader
      BY <1>2, <1>3, <1>4, <2>1
    <2>6. Follow(1)' = sizes'.bootheader
      BY <1>6, <1>9, <2>1, <2>3
    <2> QED BY <1>4, <1>8, <2>2, <2>4, <2>5, <2>6
  <1>12. CASE sections[i].kind = "bootloaderAC"
    <2>1. sections[placed].kind = "bootloader" /\ placed \in 1 .. placed /\ 1 \in 1 .. placed
      BY <1>2, <1>12 DEF Listed
    <2>2. /\ sizes'.bootheader = sizes.bootheader /\ sizes'.allHeader = sizes.allHeader
          /\ sizes'.bootloader = sizes.bootloader + sections[i].Length
      BY <1>2, <1>3, <1>12 DEF SizesOf, SizeFields
    <2>3. running = HeaderBytes
      BY <1>9, <2>1 DEF Follow
    <2>4. running' = running + sections[i].Length
      <3> DEFINE sum == running + sections[i].Length
                 D == DefaultAlignment
      <3>1. sum \in Nat /\ D \in Nat \ {0} /\ sum + D <= WordModulus
        BY <1>2 DEF Cuts, Words
      <3>2. sum % D = 0
        <4>1. running % D = 0 /\ sections[i].Length % D = 0
          BY <1>2, <1>12 DEF Aligned, SplitOrder
        <4> QED BY <1>2, <3>1, <4>1, SumAligned
      <3>3. AlignUp(sum, DefaultAlignment) = sum
        BY <1>2, <3>1, <3>2, AlignUpExact
      <3> HIDE DEF sum
      <3>4. sum % AddressModulus = sum
        BY <3>1, SmallRemainder
      <3> QED BY <1>2, <3>3, <3>4 DEF sum
    <2>5. HeaderBytes' = running'
      BY <1>2, <1>3, <2>2, <2>3, <2>4 DEF HeaderBytes
    <2>6. \A k \in 1 .. placed : k # placed => sections[k].kind \in {"BootHeader", "header"}
      BY <1>2, <1>4, <2>1 DEF Listed
    <2>7. Follow(1)' = sizes'.bootheader
      BY <1>6, <1>9, <2>1, <2>2
    <2>8. ASSUME NEW k \in 1 .. i
          PROVE  /\ sections[k].kind = "bootloader" =>
                        Address'[k] = sizes'.bootheader + sizes'.allHeader
                 /\ /\ sections[k].kind \in {"bootloader", "bootloaderAC"}
                    /\ k < i => sections[k + 1].kind # "bootloaderAC"
                    => Follow(k)' = HeaderBytes'
      <3>1. CASE k = i
        BY <1>8, <1>12, <2>5, <3>1
      <3>2. CASE k = placed
        BY <1>2, <1>4, <1>9, <1>12, <2>1, <2>2, <3>2
      <3>3. CASE k \in 1 .. placed /\ k # placed
        BY <2>6, <3>3
      <3> QED BY <1>4, <3>1, <3>2, <3>3
    <2> QED BY <2>7, <2>8
  <1>13. CASE sections[i].kind \notin {"BootHeader", "bootloader", "bootloaderAC"}
    <2>1. sizes' = sizes /\ HeaderBytes' = HeaderBytes
      BY <1>2, <1>13 DEF SizesOf, HeaderBytes
    <2>2. 1 \in 1 .. placed
      BY <1>2, <1>13 DEF Listed
    <2>3. Follow(1)' = sizes'.bootheader
      BY <1>6, <1>9, <2>1, <2>2
    <2>4. ASSUME NEW k \in 1 .. i
          PROVE  /\ sections[k].kind = "bootloader" =>
                        Address'[k] = sizes'.bootheader + sizes'.allHeader
                 /\ /\ sections[k].kind \in {"bootloader", "bootloaderAC"}
                    /\ k < i => sections[k + 1].kind # "bootloaderAC"
                    => Follow(k)' = HeaderBytes'
      <3>1. CASE k = i
        BY <1>13, <3>1
      <3>2. CASE k \in 1 .. placed
        <4>1. (k < i => sections[k + 1].kind # "bootloaderAC")
                => (k < placed => sections[k + 1].kind # "bootloaderAC")
          BY <1>2, <3>2
        <4>2. Follow(k)' = Follow(k) /\ Address'[k] = Address[k]
          BY <1>4, <1>6, <3>2
        <4> QED BY <1>9, <2>1, <3>2, <4>1, <4>2
      <3> QED BY <1>4, <3>1, <3>2
    <2> QED BY <2>3, <2>4
  <1> QED BY <1>10, <1>11, <1>12, <1>13

\* The order of the sections is settled before they are placed.
LEMMA LinkedInit == OutputInit => SplitOrder /\ LinkedExactly
  <1> SUFFICES ASSUME OutputInit PROVE SplitOrder /\ LinkedExactly
    OBVIOUS
  <1>1. Init /\ placed = 0 /\ reserved = 0
    BY DEF OutputInit, Init
  <1>2. \E b \in Index : sections[b].kind = "bootloader"
    BY SizeAssumption DEF OutputInit, Index
  <1>3. SplitOrder
    BY <1>1, <1>2 DEF Init, WellOrdered, SplitOrder
  <1>4. NoUserGaps => \A j \in Index : Address[j] = 0
    BY <1>1 DEF Init, NoUserGaps
  <1> QED BY <1>1, <1>3, <1>4 DEF LinkedExactly

\* And so they are at every point.
LEMMA LinkedInvariant == OutputSpec => [](SplitOrder /\ LinkedExactly)
  <1>1. Inv => TypeOK
    BY DEF Inv
  <1>2. /\ Inv /\ TypeOK' /\ Aligned /\ Listed /\ SplitOrder /\ LinkedExactly
        /\ [OutputNext \/ CallReturns]_<<vars, outputVars>>
        => SplitOrder' /\ LinkedExactly'
    <2> SUFFICES ASSUME Inv, TypeOK', Aligned, Listed, SplitOrder, LinkedExactly,
                        [OutputNext \/ CallReturns]_<<vars, outputVars>>
                 PROVE  SplitOrder' /\ LinkedExactly'
      OBVIOUS
    <2>1. Next \/ UNCHANGED vars
      BY DEF OutputNext, CallReturns, Layout, Open, BackwardsError, FillGap,
             EndSplitFile, OpenSplitFile, WriteSection, Postscript, CloseNext
    <2>2. sections' = sections
      BY <2>1 DEF Next, StackSection, OverlapError, Finish, vars
    <2>3. CASE StackSection
      BY <2>2, <2>3, PlaceLinked DEF SplitOrder
    <2>4. CASE UNCHANGED <<sections, Address, placed, running, reserved, sizes, wrapped>>
      BY <2>4 DEF SplitOrder, LinkedExactly, NoUserGaps, Follow, HeaderBytes
    <2> QED BY <2>1, <2>3, <2>4 DEF Next, OverlapError, Finish, vars
  <1>3. OutputSpec => [](Inv /\ Listed /\ Aligned)
    BY CallsInvariant, HeadersInvariant, OutputKeepsLayout, AlignedInvariant, PTL
  <1> QED BY <1>1, <1>2, <1>3, LinkedInit, PTL DEF OutputSpec

SlaveHome(i, b) == <<b - LinkedOffset(i), b>>

Kept == mode = "slaveboot" /\ ~wrapped /\ NoUserGaps

\* The sections written are none, or end with one of these kinds.
UpTo(kinds) == cursor = 0 \/ sections[cursor].kind \in kinds

\* The file in use is that of the last section written.
FileFollows ==
    mode = "slaveboot" /\ phase \in {"layout", "output"} =>
        file = IF cursor = 0 THEN Boot ELSE SlaveFile(cursor)

\* The file in use has grown as far as the image, less what the header tables
\* subtract; the others are as long as their first sections will find them.
FileSizes ==
    Kept /\ phase \in {"layout", "output"} =>
        /\ cursor = 0 => files[Boot].size = Done
        /\ cursor # 0 /\ sections[cursor].kind # "checksum" =>
              files[SlaveFile(cursor)].size = Done - LinkedOffset(cursor)
        /\ UpTo({"BootHeader"}) => files[HeadersFile].size = 0
        /\ cursor # 0 /\ sections[cursor].kind = "header" =>
              files[Boot].size = sizes.bootheader
        /\ UpTo({"BootHeader", "header", "bootloader", "bootloaderAC"}) =>
              files[PartitionFile].size = 0

PutHome ==
    Kept => \A i \in 1 .. Flushed : sections[i].kind # "checksum" =>
        \A b \in BytesOf(i) : SlaveHome(i, b) \in files[SlaveFile(i)].data

SplitInv == FileFollows /\ FileSizes /\ PutHome

\* The kinds that a section may follow, and where it starts.
LEMMA SplitWrite ==
    ASSUME LoopInv, Listed, SplitOrder, LinkedExactly, ~wrapped, NoUserGaps, WriteSection
    PROVE  LET c    == Current
               kind == sections[c].kind
               last == sections[cursor].kind
           IN  /\ c \in Index /\ cursor \in Nat /\ cursor' = c
               /\ kind \in Kinds
               /\ kind = "BootHeader" <=> cursor = 0
               /\ cursor # 0 => cursor \in Index
               /\ kind = "header" =>
                     \/ last = "BootHeader" /\ written = sizes.bootheader
                     \/ last = "header"
               /\ kind = "bootloader" =>
                     /\ \/ last = "BootHeader" /\ written = sizes.bootheader
                        \/ last = "header"
                     /\ written = sizes.bootheader + sizes.allHeader
               /\ kind = "bootloaderAC" => last = "bootloader"
               /\ kind = "other" =>
                     \/ last \in {"bootloader", "bootloaderAC"} /\ written = HeaderBytes
                     \/ last = "other"
  <1> USE SizeAssumption
  <1> DEFINE c == Current
             kind == sections[c].kind
             last == sections[cursor].kind
  <1>1. /\ c \in Index /\ cursor \in Nat /\ cursor' = c /\ cursor < NumSections
        /\ c = cursor + 1 /\ written = Address[c] /\ phase = "output"
    BY DEF WriteSection, InLoop, Current, LoopInv, OutputInv, Index
  <1>2. placed = NumSections
    BY <1>1 DEF LoopInv, OutputInv
  <1>3. \A i \in Index : sections[i].kind \in Kinds
    BY DEF LoopInv, TypeOK, Section
  <1>4. kind = "BootHeader" <=> cursor = 0
    BY <1>1 DEF Listed, Index
  <1>5. cursor # 0 => cursor \in Index /\ cursor < c /\ last \in Kinds /\ Follow(cursor) = written
    BY <1>1, <1>2, <1>3 DEF Follow, Index
  <1>6. last = "BootHeader" /\ cursor # 0 => written = sizes.bootheader
    <2> SUFFICES ASSUME last = "BootHeader", cursor # 0 PROVE written = sizes.bootheader
      OBVIOUS
    <2>1. cursor = 1
      BY <1>5 DEF Listed
    <2> QED BY <1>2, <1>5, <2>1 DEF LinkedExactly
  <1>7. kind = "header" => last \in {"BootHeader", "header"} /\ cursor # 0
    BY <1>1, <1>4, <1>5 DEF SplitOrder
  <1>8. kind = "bootloader" =>
            /\ last \in {"BootHeader", "header"} /\ cursor # 0
            /\ written = sizes.bootheader + sizes.allHeader
    BY <1>1, <1>2, <1>4, <1>5 DEF Listed, LinkedExactly, Index
  <1>9. kind = "bootloaderAC" => last = "bootloader"
    BY <1>1 DEF Listed
  <1>10. kind = "other" =>
            \/ last \in {"bootloader", "bootloaderAC"} /\ written = HeaderBytes
            \/ last = "other"
    <2> SUFFICES ASSUME kind = "other" PROVE
            \/ last \in {"bootloader", "bootloaderAC"} /\ written = HeaderBytes
            \/ last = "other"
      OBVIOUS
    <2>1. cursor \in Index /\ cursor < c /\ last \in Kinds
      BY <1>4, <1>5
    <2>2. PICK b \in Index : sections[b].kind = "bootloader"
      BY DEF SplitOrder
    <2>3. b <= cursor
      <3>1. ~(c < b) /\ c # b
        BY <1>1, <2>2 DEF Listed
      <3> QED BY <1>1, <3>1 DEF Index
    <2>4. last \notin {"BootHeader", "header"}
      <3>1. last # "BootHeader"
        BY <2>1, <2>2, <2>3 DEF Listed, Index
      <3>2. last # "header"
        <4>1. b < cursor \/ b = cursor
          BY <2>1, <2>3 DEF Index
        <4> QED BY <2>1, <2>2, <4>1 DEF SplitOrder
      <3> QED BY <3>1, <3>2
    <2>5. last # "checksum"
      BY <1>1, <2>1 DEF SplitOrder
    <2>6. last \in {"bootloader", "bootloaderAC"} => written = HeaderBytes
      <3> SUFFICES ASSUME last \in {"bootloader", "bootloaderAC"} PROVE written = HeaderBytes
        OBVIOUS
      <3>1. cursor \in 1 .. placed /\ sections[cursor + 1].kind # "bootloaderAC"
        BY <1>1, <1>2, <2>1 DEF Index
      <3>2. Follow(cursor) = HeaderBytes
        BY <3>1 DEF LinkedExactly
      <3> QED BY <1>5, <2>1, <3>2 DEF Index
    <2> QED BY <2>1, <2>4, <2>5, <2>6 DEF Kinds
  <1> QED BY <1>1, <1>3, <1>4, <1>5, <1>6, <1>7, <1>8, <1>9, <1>10

\* Where the sections go depends on the layout only.
LEMMA SlaveKept ==
    ASSUME UNCHANGED vars
    PROVE  \A i, b : /\ (SlaveFile(i))' = SlaveFile(i)
                     /\ (LinkedOffset(i))' = LinkedOffset(i)
                     /\ (SlaveHome(i, b))' = SlaveHome(i, b)
                     /\ (BytesOf(i))' = BytesOf(i)
  BY DEF vars, SlaveFile, LinkedOffset, SlaveHome, BytesOf, End

\* The file in use follows the cursor.
LEMMA FollowsStep ==
    ASSUME LoopInv, Listed, FileFollows, [BinNext]_binVars
    PROVE  FileFollows'
  <1> USE SizeAssumption, CallNames
  <1>1. CASE WriteSection
    <2>1. PICK c \in Index : c = Current
      BY <1>1 DEF WriteSection, InLoop, Current, LoopInv, OutputInv, Index
    <2>2. cursor' = c /\ cursor' # 0 /\ UNCHANGED <<vars, options, phase>> /\ phase = "output"
      BY <1>1, <2>1 DEF WriteSection, InLoop, Index
    <2>3. (SlaveFile(c))' = SlaveFile(c)
      BY <2>2, SlaveKept
    <2>4. mode = "slaveboot" => file' = SlaveFile(c)
      <3>1. CASE sections[c].kind = "BootHeader"
        <4>1. cursor = 0 /\ SlaveFile(c) = Boot /\ file' = file
          BY <1>1, <2>1, <3>1 DEF Listed, Current, SlaveFile, WriteSection, LoopInv, OutputInv
        <4> QED BY <2>2, <4>1 DEF FileFollows
      <3>2. CASE sections[c].kind # "BootHeader"
        BY <1>1, <2>1, <3>2 DEF WriteSection
      <3> QED BY <3>1, <3>2
    <2> QED BY <2>2, <2>3, <2>4 DEF FileFollows, options
  <1>2. CASE Layout
    <2>1. cursor = 0 /\ UNCHANGED <<mode, phase, cursor, file>> /\ phase = "layout"
      BY <1>2 DEF Layout, outputVars, options, LoopInv, OutputInv
    <2> QED BY <2>1 DEF FileFollows
  <1>3. CASE /\ UNCHANGED <<vars, options, cursor, file>>
             /\ phase' = phase \/ (phase \in {"layout", "output"})
    <2>1. PICK c \in Nat : c = cursor
      BY <1>3 DEF LoopInv, OutputInv
    <2>2. (SlaveFile(c))' = SlaveFile(c)
      BY <1>3, SlaveKept
    <2> QED BY <1>3, <2>1, <2>2 DEF FileFollows, options
  <1>4. CASE OpenSplitFile \/ CloseNext \/ Postscript
    <2>1. mode' = mode
      BY <1>4 DEF OpenSplitFile, CloseNext, Postscript, options
    <2>2. mode = "slaveboot" => phase' \notin {"layout", "output"}
      <3>1. CASE OpenSplitFile
        BY <3>1 DEF OpenSplitFile, LoopInv, CallInv, SwitchOK
      <3>2. CASE CloseNext
        BY <3>2 DEF CloseNext, ClosePhases
      <3>3. CASE Postscript
        BY <3>3 DEF Postscript
      <3> QED BY <1>4, <3>1, <3>2, <3>3
    <2> QED BY <2>1, <2>2 DEF FileFollows
  <1>5. Open \/ BackwardsError \/ FillGap \/ EndSplitFile \/ PutCall \/ EndFile \/ UNCHANGED binVars
        => /\ UNCHANGED <<vars, options, cursor, file>>
           /\ phase' = phase \/ (phase \in {"layout", "output"})
    BY DEF Open, BackwardsError, FillGap, EndSplitFile, PutCall, EndFile, binVars, outputVars,
           InLoop
  <1> QED BY <1>1, <1>2, <1>3, <1>4, <1>5 DEF BinNext, OutputNext

\* A step of the loop finds the file that it switches to as long as its next
\* section needs it.
LEMMA SplitLoop ==
    ASSUME LoopInv, LoopInv', Listed, SplitOrder, LinkedExactly, FileFollows, FileFollows',
           FileSizes, PutHome, OutputNext, UNCHANGED files
    PROVE  FileSizes' /\ PutHome'
  <1> USE SizeAssumption, CallNames
  <1>1. Done' = Done /\ Flushed' = Flushed /\ UNCHANGED options
    BY LoopStep
  <1>2. CASE WriteSection
    <2>1. UNCHANGED <<vars, options, phase>> /\ Done = written /\ phase = "output"
      BY <1>2 DEF WriteSection, InLoop, Done
    <2>2. \A i, b : /\ (SlaveFile(i))' = SlaveFile(i)
                    /\ (LinkedOffset(i))' = LinkedOffset(i)
                    /\ (SlaveHome(i, b))' = SlaveHome(i, b)
                    /\ (BytesOf(i))' = BytesOf(i)
      BY <2>1, SlaveKept
    <2>3. Kept' = Kept
      BY <2>1 DEF Kept, options, vars, NoUserGaps
    <2>4. PutHome'
      BY <1>1, <2>1, <2>2, <2>3 DEF PutHome, vars
    <2>5. FileSizes'
      <3> SUFFICES ASSUME Kept, phase \in {"layout", "output"} PROVE FileSizes'
        BY <2>1, <2>3 DEF FileSizes
      <3>1. PICK c \in Index : c = Current
        BY <1>2 DEF WriteSection, InLoop, Current, LoopInv, OutputInv, Index
      <3> DEFINE kind == sections[c].kind
                 last == sections[cursor].kind
      <3>2. /\ cursor \in Nat /\ cursor' = c /\ cursor' # 0 /\ kind \in Kinds
            /\ kind = "BootHeader" <=> cursor = 0
            /\ cursor # 0 => cursor \in Index
            /\ kind = "header" =>
                  \/ last = "BootHeader" /\ written = sizes.bootheader
                  \/ last = "header"
            /\ kind = "bootloader" =>
                  /\ \/ last = "BootHeader" /\ written = sizes.bootheader
                     \/ last = "header"
                  /\ written = sizes.bootheader + sizes.allHeader
            /\ kind = "bootloaderAC" => last = "bootloader"
            /\ kind = "other" =>
                  \/ last \in {"bootloader", "bootloaderAC"} /\ written = HeaderBytes
                  \/ last = "other"
        BY <1>2, <3>1, SplitWrite DEF Kept, Index
      <3>3. /\ cursor = 0 => files[Boot].size = written
            /\ cursor # 0 /\ last # "checksum" =>
                  files[SlaveFile(cursor)].size = written - LinkedOffset(cursor)
            /\ UpTo({"BootHeader"}) => files[HeadersFile].size = 0
            /\ cursor # 0 /\ last = "header" => files[Boot].size = sizes.bootheader
            /\ UpTo({"BootHeader", "header", "bootloader", "bootloaderAC"}) =>
                  files[PartitionFile].size = 0
        BY <2>1 DEF FileSizes
      <3>4. /\ written \in Int /\ sizes.bootheader \in Int /\ sizes.allHeader \in Int
            /\ sizes.bootloader \in Int
        BY DEF LoopInv, OutputInv, TypeOK, SizeFields
      <3>5. cursor # 0 /\ last = "BootHeader" => files[Boot].size = written
        <4> SUFFICES ASSUME cursor # 0, last = "BootHeader" PROVE files[Boot].size = written
          OBVIOUS
        <4>1. SlaveFile(cursor) = Boot /\ LinkedOffset(cursor) = 0
          BY DEF SlaveFile, LinkedOffset
        <4> QED BY <3>3, <3>4, <4>1
      <3> DEFINE Sizes2 ==
                /\ kind # "checksum" => files[SlaveFile(c)].size = written - LinkedOffset(c)
                /\ kind = "BootHeader" => files[HeadersFile].size = 0
                /\ kind = "header" => files[Boot].size = sizes.bootheader
                /\ kind \in {"BootHeader", "header", "bootloader", "bootloaderAC"} =>
                      files[PartitionFile].size = 0
      <3>6. Sizes2
        <4>1. CASE kind = "BootHeader"
          <5>1. SlaveFile(c) = Boot /\ LinkedOffset(c) = 0
            BY <4>1 DEF SlaveFile, LinkedOffset
          <5> QED BY <3>2, <3>3, <3>4, <4>1, <5>1 DEF UpTo
        <4>2. CASE kind = "header"
          <5>1. SlaveFile(c) = HeadersFile /\ LinkedOffset(c) = sizes.bootheader
            BY <4>2 DEF SlaveFile, LinkedOffset
          <5>2. CASE last = "BootHeader"
            BY <3>2, <3>3, <3>4, <3>5, <4>2, <5>1, <5>2 DEF UpTo
          <5>3. CASE last = "header"
            <6>1. SlaveFile(cursor) = HeadersFile /\ LinkedOffset(cursor) = sizes.bootheader
              BY <5>3 DEF SlaveFile, LinkedOffset
            <6> QED BY <3>2, <3>3, <4>2, <5>1, <5>3, <6>1 DEF UpTo
          <5> QED BY <3>2, <4>2, <5>2, <5>3
        <4>3. CASE kind = "bootloader"
          <5>1. SlaveFile(c) = Boot /\ LinkedOffset(c) = sizes.allHeader
            BY <4>3 DEF SlaveFile, LinkedOffset
          <5>2. files[Boot].size = sizes.bootheader
            BY <3>2, <3>3, <3>5, <4>3
          <5>3. files[PartitionFile].size = 0
            BY <3>2, <3>3, <4>3 DEF UpTo
          <5>4. written = sizes.bootheader + sizes.allHeader
            BY <3>2, <4>3
          <5> QED BY <3>4, <4>3, <5>1, <5>2, <5>3, <5>4
        <4>4. CASE kind = "bootloaderAC"
          <5>1. SlaveFile(c) = Boot /\ LinkedOffset(c) = sizes.allHeader
            BY <4>4 DEF SlaveFile, LinkedOffset
          <5>2. last = "bootloader" /\ cursor # 0
            BY <3>2, <4>4
          <5>3. SlaveFile(cursor) = Boot /\ LinkedOffset(cursor) = sizes.allHeader
            BY <5>2 DEF SlaveFile, LinkedOffset
          <5> QED BY <3>3, <4>4, <5>1, <5>2, <5>3 DEF UpTo
        <4>5. CASE kind = "other"
          <5>1. /\ SlaveFile(c) = PartitionFile
                /\ LinkedOffset(c) = sizes.bootheader + sizes.allHeader + sizes.bootloader
            BY <4>5 DEF SlaveFile, LinkedOffset
          <5>2. CASE last \in {"bootloader", "bootloaderAC"} /\ written = HeaderBytes
            BY <3>2, <3>3, <3>4, <4>5, <5>1, <5>2 DEF UpTo, HeaderBytes
          <5>3. CASE last = "other"
            <6>1. /\ SlaveFile(cursor) = PartitionFile
                  /\ LinkedOffset(cursor) = sizes.bootheader + sizes.allHeader + sizes.bootloader
              BY <5>3 DEF SlaveFile, LinkedOffset
            <6> QED BY <3>2, <3>3, <4>5, <5>1, <5>3, <6>1
          <5> QED BY <3>2, <4>5, <5>2, <5>3
        <4>6. CASE kind = "checksum"
          BY <4>6
        <4> QED BY <3>2, <4>1, <4>2, <4>3, <4>4, <4>5, <4>6 DEF Kinds
      <3> HIDE DEF Sizes2
      <3>7. Done' = written /\ UNCHANGED <<sections, sizes, files>>
        BY <1>1, <2>1 DEF vars
      <3>8. (SlaveFile(c))' = SlaveFile(c) /\ (LinkedOffset(c))' = LinkedOffset(c)
        BY <2>2
      <3> QED BY <3>2, <3>6, <3>7, <3>8 DEF Sizes2, FileSizes, UpTo
    <2> QED BY <2>4, <2>5
  <1>3. CASE Layout
    <2>1. /\ cursor = 0 /\ UNCHANGED <<mode, phase, cursor>> /\ phase = "layout" /\ call = NoCall
          /\ Next
      BY <1>3 DEF Layout, outputVars, options, LoopInv, OutputInv, CallInv, PhaseOK
    <2>2. Kept' => Kept
      BY <2>1 DEF Kept, NoUserGaps, Next, StackSection, Place, OverlapError, Finish
    <2>3. Flushed' = 0
      BY <1>1, <2>1 DEF Flushed
    <2>4. PutHome'
      BY <2>3 DEF PutHome
    <2>5. FileSizes'
      BY <1>1, <2>1, <2>2 DEF FileSizes, UpTo
    <2> QED BY <2>4, <2>5
  <1>4. CASE UNCHANGED <<vars, cursor>>
             /\ (phase' \in {"layout", "output"} /\ mode = "slaveboot" => phase \in {"layout", "output"})
    <2>1. \A i, b : /\ (SlaveFile(i))' = SlaveFile(i)
                    /\ (LinkedOffset(i))' = LinkedOffset(i)
                    /\ (SlaveHome(i, b))' = SlaveHome(i, b)
                    /\ (BytesOf(i))' = BytesOf(i)
      BY <1>4, SlaveKept
    <2>2. Kept' = Kept
      BY <1>1, <1>4 DEF Kept, options, vars, NoUserGaps
    <2>3. PutHome'
      BY <1>1, <1>4, <2>1, <2>2 DEF PutHome, vars
    <2>4. PICK c \in Nat : c = cursor
      BY DEF LoopInv, OutputInv
    <2>5. FileSizes'
      <3>1. (SlaveFile(c))' = SlaveFile(c) /\ (LinkedOffset(c))' = LinkedOffset(c)
        BY <2>1
      <3>2. UNCHANGED <<sections, sizes, mode>>
        BY <1>1, <1>4 DEF vars, options
      <3> QED BY <1>1, <1>4, <2>2, <2>4, <3>1, <3>2 DEF FileSizes, UpTo, Kept
    <2> QED BY <2>3, <2>5
  <1>5. Open \/ BackwardsError \/ FillGap \/ EndSplitFile \/ OpenSplitFile \/ Postscript \/ CloseNext
        => /\ UNCHANGED <<vars, cursor>>
           /\ phase' \in {"layout", "output"} /\ mode = "slaveboot" =>
                 phase \in {"layout", "output"}
    <2>1. OpenSplitFile => mode = "split"
      BY DEF OpenSplitFile, LoopInv, CallInv, SwitchOK
    <2>2. CloseNext => phase' \notin {"layout", "output"}
      BY DEF CloseNext, ClosePhases
    <2> QED BY <2>1, <2>2 DEF Open, BackwardsError, FillGap, EndSplitFile, OpenSplitFile,
                              Postscript, CloseNext, InLoop
  <1> QED BY <1>2, <1>3, <1>4, <1>5 DEF OutputNext

\* A call adds to the file in use, and takes nothing away.
LEMMA SplitPut ==
    ASSUME LoopInv, SizeInv, FileFollows, FileSizes, PutHome, mode = "slaveboot", PutCall
    PROVE  FileSizes' /\ PutHome'
  <1> USE SizeAssumption
  <1>1. /\ call.start \in Nat /\ call.length \in Nat
        /\ Done = call.start /\ Done' = call.start + call.length
        /\ Flushed' = cursor /\ cursor \in Nat
        /\ UNCHANGED <<vars, options, phase, cursor, file>>
        /\ call.op = "Fill" => Flushed = cursor
        /\ call.op = "Write" =>
             /\ Flushed = cursor - 1 /\ cursor \in Index
             /\ call.start = Address[cursor] /\ call.length = sections[cursor].Length
        /\ call.op \in {"Fill", "Write"}
    BY PutStep
  <1>2. \A i, b : /\ (SlaveFile(i))' = SlaveFile(i)
                  /\ (LinkedOffset(i))' = LinkedOffset(i)
                  /\ (SlaveHome(i, b))' = SlaveHome(i, b)
                  /\ (BytesOf(i))' = BytesOf(i)
    BY <1>1, SlaveKept
  <1>3. Kept' = Kept /\ UNCHANGED <<sections, sizes, mode>>
    BY <1>1 DEF Kept, options, vars, NoUserGaps
  <1>4. phase = "output"
    BY <1>1, CallNames DEF LoopInv, CallInv, CallOK
  <1>5. file = IF cursor = 0 THEN Boot ELSE SlaveFile(cursor)
    BY <1>4 DEF FileFollows
  <1>6. files \in [FileIds -> FileContents] /\ file \in FileIds /\ qspi = "none"
    BY FileNames DEF SizeInv, FilesOK
  <1>7. files' = [files EXCEPT ![file] =
                    [size |-> files[file].size + call.length,
                     data |-> files[file].data
                                \cup {<<files[file].size + k, Buffer(k)>> :
                                        k \in 0 .. (call.length - 1)}]]
    BY <1>6, PlainPut
  <1>8. \A f \in FileIds :
            /\ files[f].data \subseteq files'[f].data
            /\ files[f].size \in Nat
            /\ files'[f].size = IF f = file THEN files[f].size + call.length ELSE files[f].size
    BY <1>6, <1>7 DEF FileContents
  <1>9. /\ {Boot, HeadersFile, PartitionFile} \subseteq FileIds
        /\ Boot # HeadersFile /\ Boot # PartitionFile /\ HeadersFile # PartitionFile
        /\ \A i : SlaveFile(i) \in {Boot, HeadersFile, PartitionFile}
    BY DEF FileIds, Boot, HeadersFile, PartitionFile, SlaveFile
  <1>10. PICK c \in Nat : c = cursor
    BY <1>1
  <1>11. FileSizes'
    <2> SUFFICES ASSUME Kept PROVE FileSizes'
      BY <1>3 DEF FileSizes
    <2>1. /\ c = 0 => files[Boot].size = Done
          /\ c # 0 /\ sections[c].kind # "checksum" =>
                files[SlaveFile(c)].size = Done - LinkedOffset(c)
          /\ UpTo({"BootHeader"}) => files[HeadersFile].size = 0
          /\ c # 0 /\ sections[c].kind = "header" => files[Boot].size = sizes.bootheader
          /\ UpTo({"BootHeader", "header", "bootloader", "bootloaderAC"}) =>
                files[PartitionFile].size = 0
      BY <1>4, <1>10 DEF FileSizes
    <2>2. c = 0 => files'[Boot].size = Done'
      BY <1>1, <1>5, <1>8, <1>9, <1>10, <2>1
    <2>3. c # 0 /\ sections[c].kind # "checksum" =>
              files'[SlaveFile(c)].size = Done' - LinkedOffset(c)
      <3>1. LinkedOffset(c) \in Int
        BY DEF LinkedOffset, LoopInv, TypeOK, SizeFields
      <3> QED BY <1>1, <1>5, <1>8, <1>9, <1>10, <2>1, <3>1
    <2>4. UpTo({"BootHeader"}) => files'[HeadersFile].size = 0
      <3>1. UpTo({"BootHeader"}) => file = Boot
        BY <1>5 DEF UpTo, SlaveFile
      <3> QED BY <1>8, <1>9, <2>1, <3>1
    <2>5. c # 0 /\ sections[c].kind = "header" => files'[Boot].size = sizes.bootheader
      <3>1. c # 0 /\ sections[c].kind = "header" => file = HeadersFile
        BY <1>5, <1>10 DEF SlaveFile
      <3> QED BY <1>8, <1>9, <2>1, <3>1
    <2>6. UpTo({"BootHeader", "header", "bootloader", "bootloaderAC"}) =>
              files'[PartitionFile].size = 0
      <3>1. UpTo({"BootHeader", "header", "bootloader", "bootloaderAC"}) => file # PartitionFile
        <4>1. cursor = 0 => file = Boot
          BY <1>5
        <4>2. cursor # 0 /\ sections[cursor].kind \in {"BootHeader", "header", "bootloader", "bootloaderAC"}
                => file \in {Boot, HeadersFile}
          BY <1>5 DEF SlaveFile
        <4> QED BY <1>9, <4>1, <4>2 DEF UpTo
      <3> QED BY <1>8, <1>9, <2>1, <3>1
    <2>7. (SlaveFile(c))' = SlaveFile(c) /\ (LinkedOffset(c))' = LinkedOffset(c) /\ c = cursor'
      BY <1>1, <1>2, <1>10
    <2>8. \A kinds : UpTo(kinds)' = UpTo(kinds)
      BY <1>1, <1>3 DEF UpTo
    <2> QED BY <1>3, <1>10, <2>2, <2>3, <2>4, <2>5, <2>6, <2>7, <2>8 DEF FileSizes
  <1>12. PutHome'
    <2> SUFFICES ASSUME Kept, NEW i \in 1 .. c, sections[i].kind # "checksum",
                        NEW b \in BytesOf(i)
                 PROVE  SlaveHome(i, b) \in files'[SlaveFile(i)].data
      BY <1>1, <1>2, <1>3, <1>10 DEF PutHome
    <2>1. CASE i \in 1 .. Flushed
      <3>1. SlaveHome(i, b) \in files[SlaveFile(i)].data
        BY <2>1 DEF PutHome
      <3> QED BY <1>8, <1>9, <3>1
    <2>2. CASE call.op = "Write" /\ i = c
      <3>1. c \in Index /\ c # 0 /\ call.start = Address[c] /\ call.length = sections[c].Length
        BY <1>1, <1>10, <2>2
      <3>2. file = SlaveFile(c) /\ files[file].size = call.start - LinkedOffset(c)
        BY <1>1, <1>4, <1>5, <1>10, <2>2, <3>1 DEF FileSizes
      <3>3. LinkedOffset(c) \in Int
        BY DEF LinkedOffset, LoopInv, TypeOK, SizeFields
      <3>4. b \in Nat /\ b - call.start \in 0 .. (call.length - 1)
        BY <1>1, <2>2, <3>1, SectionNumbers DEF BytesOf, End, LoopInv
      <3>5. PICK k \in 0 .. (call.length - 1) : k = b - call.start
        BY <3>4
      <3>6. Buffer(k) = b /\ files[file].size + k = b - LinkedOffset(c)
        BY <1>1, <2>2, <3>2, <3>3, <3>4, <3>5 DEF Buffer
      <3>7. <<files[file].size + k, Buffer(k)>> \in files'[file].data
        BY <1>6, <1>7
      <3> QED BY <2>2, <3>2, <3>6, <3>7 DEF SlaveHome
    <2>3. i \in 1 .. Flushed \/ (call.op = "Write" /\ i = c)
      BY <1>1, <1>10
    <2> QED BY <2>1, <2>2, <2>3
  <1> QED BY <1>11, <1>12

\* What is in the files of a slave boot split at every point.
LEMMA SplitInvariant == BinSpec => [](LoopInv /\ SplitInv)
  <1>1. BinInit => SplitInv
    <2> SUFFICES ASSUME BinInit PROVE SplitInv
      OBVIOUS
    <2>1. /\ files = [f \in FileIds |-> [size |-> 0, data |-> {}]]
          /\ cursor = 0 /\ written = 0 /\ call = NoCall /\ file = Boot
      BY DEF BinInit, OutputInit
    <2>2. Done = 0 /\ Flushed = 0
      BY <2>1, CallNames DEF Done, Flushed
    <2>3. Boot \in FileIds /\ HeadersFile \in FileIds /\ PartitionFile \in FileIds
      BY DEF FileIds
    <2> QED BY <2>1, <2>2, <2>3 DEF SplitInv, FileFollows, FileSizes, PutHome, UpTo
  <1>2. /\ LoopInv /\ LoopInv' /\ SizeInv /\ Listed /\ SplitOrder /\ LinkedExactly
        /\ SplitInv /\ [BinNext]_binVars
        => SplitInv'
    <2> SUFFICES ASSUME LoopInv, LoopInv', SizeInv, Listed, SplitOrder, LinkedExactly,
                        SplitInv, [BinNext]_binVars
                 PROVE  SplitInv'
      OBVIOUS
    <2>1. FileFollows'
      BY FollowsStep DEF SplitInv
    <2>2. CASE OutputNext /\ UNCHANGED files
      BY <2>1, <2>2, SplitLoop DEF SplitInv
    <2>3. CASE PutCall
      <3>1. CASE mode = "slaveboot"
        BY <2>1, <2>3, <3>1, SplitPut DEF SplitInv
      <3>2. CASE mode # "slaveboot"
        <4>1. ~Kept'
          BY <2>3, <3>2 DEF PutCall, options, Kept
        <4> QED BY <2>1, <4>1 DEF SplitInv, FileSizes, PutHome
      <3> QED BY <3>1, <3>2
    <2>4. CASE EndFile \/ UNCHANGED binVars
      <3>1. /\ UNCHANGED <<vars, options, phase, cursor, files>>
            /\ Done' = Done /\ Flushed' = Flushed
        BY <2>4, CallNames DEF EndFile, binVars, outputVars, Return, Done, Flushed
      <3>2. \A i, b : /\ (SlaveFile(i))' = SlaveFile(i)
                      /\ (LinkedOffset(i))' = LinkedOffset(i)
                      /\ (SlaveHome(i, b))' = SlaveHome(i, b)
                      /\ (BytesOf(i))' = BytesOf(i)
        BY <3>1, SlaveKept
      <3>3. Kept' = Kept /\ UNCHANGED <<sections, sizes>>
        BY <3>1 DEF Kept, options, vars, NoUserGaps
      <3>4. PutHome'
        BY <2>4, <3>1, <3>2, <3>3 DEF SplitInv, PutHome
      <3>5. PICK c \in Nat : c = cursor
        BY DEF LoopInv, OutputInv
      <3>6. (SlaveFile(c))' = SlaveFile(c) /\ (LinkedOffset(c))' = LinkedOffset(c)
        BY <3>2
      <3>7. FileSizes'
        BY <3>1, <3>3, <3>5, <3>6 DEF SplitInv, FileSizes, UpTo
      <3> QED BY <2>1, <3>4, <3>7 DEF SplitInv
    <2> QED BY <2>2, <2>3, <2>4 DEF BinNext
  <1>3. BinSpec => [](Listed /\ SplitOrder /\ LinkedExactly)
    BY BinRunsLoop, HeadersInvariant, LinkedInvariant, PTL
  <1> QED BY <1>1, <1>2, <1>3, SizesInvariant, PTL DEF BinSpec

\* The offsets that the header tables of a slave boot split record are where its
\* files have the bytes, for every section list without a gap of the user's.
THEOREM SplitHolds == BinSpec => []SplitOffsetsHold
  <1>1. LoopInv /\ SplitInv => SplitOffsetsHold
    <2> SUFFICES ASSUME LoopInv, SplitInv, mode = "slaveboot", NoUserGaps, ~wrapped, call = NoCall,
                        NEW i \in {j \in 1 .. cursor : sections[j].kind # "checksum"},
                        NEW b \in BytesOf(i)
                 PROVE  LET h == HomeOf(i, b) IN <<h.at, b>> \in files[h.file].data
      BY DEF SplitOffsetsHold
    <2>1. Flushed = cursor
      BY CallNames DEF Flushed
    <2>2. HomeOf(i, b) = [file |-> SlaveFile(i), at |-> b - LinkedOffset(i)]
      BY DEF HomeOf, LoopInv, CallInv, OptionsOK
    <2>3. SlaveHome(i, b) \in files[SlaveFile(i)].data
      BY <2>1 DEF SplitInv, PutHome, Kept
    <2> QED BY <2>2, <2>3 DEF SlaveHome
  <1> QED BY <1>1, SplitInvariant, PTL
=============================================================================
