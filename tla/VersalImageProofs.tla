-------------------------- MODULE VersalImageProofs -------------------------
(***************************************************************************)
(* KeyRolling, VersalLayout, and the boot image that is made of them.      *)
(*                                                                         *)
(* First the encryption, from Spec: no key/IV pair that                    *)
(* CheckForRepeatedKeyIVPairs has accepted is used for two blocks, whatever*)
(* the key files hold, however many partitions share a context and in      *)
(* whatever way the blocks are cut, but for pairs spelled in two ways.  The*)
(* pairs of a file are new when they are checked; after that the blocks    *)
(* take them in order and never again.                                     *)
(*                                                                         *)
(* Then the two passes of VersalBinary::StackAndAlign, from LayoutSpec, for*)
(* any list of sections and any attributes.  Sections may overlap after the*)
(* first pass, since the bootloader is moved; the second pass takes every  *)
(* section once, in an order that begins with the boot header, and what it *)
(* has placed ends below runningAddress, unless a mask has cut an address. *)
(*                                                                         *)
(* Last, from ImageSpec: what the encryption and the layout guarantee by   *)
(* themselves holds of the boot image, since the partitions that are built *)
(* and the header tables are a list of sections as the layout needs it.    *)
(***************************************************************************)
EXTENDS VersalImage, FiniteSetTheorems, NaturalsInduction, WellFoundedInduction, TLAPS

-----------------------------------------------------------------------------
(* The encryption: which pairs are used.                                   *)

\* A sequence, whatever it holds.
IsSequence(s) == s \in Seq({s[i] : i \in DOMAIN s})

OnList == DOMAIN records \ offList

\* The pairs of this file are checked and being used.
Using == phase \in {"header", "block"}

\* The records of earlier files, and those made so far, have pairs that are not
\* to come any more.
PairsInv ==
    /\ IsSequence(records)
    /\ blkPtr \in Nat
    /\ DOMAIN aesKeyVec \subseteq Int
    /\ \A i \in OnList : \E p \in seen : RecordPair(i) = BytesOf(p)
    /\ Using =>
          /\ \A i, k \in DOMAIN aesKeyVec : i < k => Pair(i) # Pair(k)
          /\ \A i \in DOMAIN aesKeyVec : Pair(i) \in seen
    /\ phase = "header" =>
          \A i \in OnList, k \in DOMAIN aesKeyVec :
              ~SpelledTwice(RecordPair(i)) => RecordPair(i) # PairBytes(k)
    /\ phase = "block" =>
          \A i \in OnList, k \in DOMAIN aesKeyVec :
              k > blkPtr /\ ~SpelledTwice(RecordPair(i)) => RecordPair(i) # PairBytes(k)
    /\ CheckedPairsUsedOnce

\* The key files that exist have keys with integer numbers, and the file that is
\* read next exists.
FilesInv ==
    /\ plan \in Seq(Job) /\ job \in DOMAIN plan /\ stream \in Nat
    /\ \A f \in DOMAIN disk : DOMAIN disk[f].keys \subseteq Int
    /\ \A j \in DOMAIN plan :
          plan[j].encrypted /\ ~generate[j] => plan[j].files[1] \in DOMAIN disk
    /\ phase = "file" => plan[job].encrypted
    /\ phase = "read" => File \in DOMAIN disk

Inv == FilesInv /\ PairsInv

-----------------------------------------------------------------------------
\* Appending keeps a sequence, and the elements it has.
LEMMA AppendSequence ==
    ASSUME NEW s, IsSequence(s), NEW e
    PROVE  /\ IsSequence(Append(s, e))
           /\ DOMAIN Append(s, e) = DOMAIN s \cup {Len(s) + 1}
           /\ \A i \in DOMAIN s : Append(s, e)[i] = s[i]
           /\ Append(s, e)[Len(s) + 1] = e
           /\ Len(s) + 1 \notin DOMAIN s
           /\ DOMAIN s \subseteq Nat /\ Len(s) + 1 \in Nat
           /\ \A i \in DOMAIN s : i < Len(s) + 1
<1> DEFINE S == {s[i] : i \in DOMAIN s}
<1> DEFINE t == Append(s, e)
<1>1. s \in Seq(S)
  BY DEF IsSequence
<1>2. s \in Seq(S \cup {e})
  BY <1>1
<1>3. /\ t \in Seq(S \cup {e})
      /\ Len(t) = Len(s) + 1
      /\ Len(s) \in Nat
      /\ DOMAIN s = 1 .. Len(s)
      /\ DOMAIN t = 1 .. (Len(s) + 1)
      /\ \A i \in DOMAIN s : t[i] = s[i]
      /\ t[Len(s) + 1] = e
  BY <1>2
<1>4. S \cup {e} = {t[i] : i \in DOMAIN t}
  BY <1>3
<1>5. IsSequence(t)
  BY <1>3, <1>4 DEF IsSequence
<1> QED
  BY <1>3, <1>5

-----------------------------------------------------------------------------
(* The key files.                                                          *)

\* The initial plan and directory.
LEMMA InitFiles == Init => Inv
<1> SUFFICES ASSUME NEW input \in Inputs, InitOf(input) PROVE Inv
  BY DEF Init
<1>1. plan \in Seq(Job) /\ plan # <<>>
  BY InputsAssumption DEF InitOf
<1>2. job \in DOMAIN plan /\ stream \in Nat
  BY <1>1 DEF InitOf
<1>3. \A f \in DOMAIN disk : DOMAIN disk[f].keys \subseteq Int
  <2> SUFFICES ASSUME NEW f \in DOMAIN disk PROVE DOMAIN disk[f].keys \subseteq Int
    OBVIOUS
  <2>1. disk[f] \in KeyFile
    BY InputsAssumption DEF InitOf, IsDisk
  <2> QED
    BY <2>1 DEF KeyFile
<1>4. \A j \in DOMAIN plan :
        plan[j].encrypted /\ ~generate[j] => plan[j].files[1] \in DOMAIN disk
  <2> SUFFICES ASSUME NEW j \in DOMAIN plan, plan[j].encrypted, ~generate[j]
               PROVE  plan[j].files[1] \in DOMAIN disk
    OBVIOUS
  <2>1. ~ToGenerate(plan, disk, j)
    BY DEF InitOf
  <2>2. j \in 1 .. j
    BY <1>1
  <2> QED
    BY <2>1, <2>2 DEF ToGenerate
<1>5. FilesInv
  BY <1>1, <1>2, <1>3, <1>4 DEF InitOf, FilesInv
<1>6. PairsInv
  <2>1. IsSequence(records) /\ OnList = {} /\ DOMAIN aesKeyVec = {}
    BY DEF InitOf, IsSequence, OnList
  <2> QED
    BY <2>1 DEF InitOf, PairsInv, Using, CheckedPairsUsedOnce, OnList
<1> QED
  BY <1>5, <1>6 DEF Inv

\* The file that ReadKeyFile opens is there: it was found when the BIF was read, or
\* has been generated, and no step removes a file.
LEMMA FileFound ==
    ASSUME FilesInv, KeyFileThere
    PROVE  File \in DOMAIN disk
<1>1. CASE At("read")
  BY <1>1 DEF FilesInv, At
<1>2. CASE At("file") /\ ~NeedsFile /\ stream = 1 /\ plan[job].kind # "metaheader"
  BY <1>2 DEF FilesInv, At, NeedsFile, File
<1>3. CASE At("file") /\ ~NeedsFile /\ ~(stream = 1 /\ plan[job].kind # "metaheader")
  BY <1>3 DEF At, NeedsFile, Absent
<1> QED
  BY <1>1, <1>2, <1>3 DEF KeyFileThere

\* A step that keeps the plan, the directory and the position but for the phase.
LEMMA FilesKept ==
    ASSUME FilesInv, UNCHANGED <<plan, disk, generate, job, stream>>,
           phase' = phase \/ phase' \notin {"file", "read"}
    PROVE  FilesInv'
BY DEF FilesInv, File

\* Generating a key file adds it to the directory.
LEMMA GenerateKeepsFiles ==
    ASSUME FilesInv, GenerateKeyFile
    PROVE  FilesInv'
<1> DEFINE key0 == IF key0Of[Source] # Null THEN key0Of[Source] ELSE ctx.aesKey
           pair == [x \in 1 .. Pairs |-> GeneratedText(fresh, fresh, x - 1)]
           new  == [keys |-> WithFirstKey(pair, key0), ivs |-> pair, seed |-> NoSeed,
                    fid |-> NoSeed, fidFirst |-> FALSE]
<1>1. disk' = [f \in DOMAIN disk \cup {File} |-> IF f # File THEN disk[f] ELSE new]
  BY DEF GenerateKeyFile
<1>2. UNCHANGED <<plan, generate, job, stream>> /\ phase' = "read"
  BY DEF GenerateKeyFile, Go
<1>3. File' = File
  BY <1>2 DEF File
<1>4. DOMAIN new.keys \subseteq Int
  BY DEF WithFirstKey
<1>5. DOMAIN disk' = DOMAIN disk \cup {File}
  BY <1>1
<1>6. \A f \in DOMAIN disk' : DOMAIN disk'[f].keys \subseteq Int
  BY <1>1, <1>4, <1>5 DEF FilesInv
<1> QED
  BY <1>2, <1>3, <1>5, <1>6 DEF FilesInv

\* Starting a partition, or its second part.
LEMMA StartKeepsFiles ==
    ASSUME FilesInv, StartJob \/ StartPmcData \/ NextJob
    PROVE  FilesInv'
<1>1. CASE StartJob
  BY <1>1 DEF FilesInv, StartJob, Go, inputs, File
<1>2. CASE StartPmcData
  BY <1>2 DEF FilesInv, StartPmcData, inputs, File
<1>3. CASE NextJob /\ job # Len(plan)
  <2>1. job' = job + 1 /\ stream' = 1 /\ phase' = "start" /\ UNCHANGED inputs
    BY <1>3 DEF NextJob
  <2>2. job' \in DOMAIN plan
    BY <1>3, <2>1 DEF FilesInv
  <2> QED
    BY <2>1, <2>2 DEF FilesInv, inputs
<1>4. CASE NextJob /\ job = Len(plan)
  <2>1. UNCHANGED <<inputs, position>>
    BY <1>4 DEF NextJob
  <2> QED
    BY <2>1, FilesKept DEF inputs, position
<1> QED
  BY <1>1, <1>2, <1>3, <1>4

-----------------------------------------------------------------------------
(* The pairs.                                                              *)

\* A step outside the encryption: no record is made, and no pair is in use after it.
LEMMA PairsKept ==
    ASSUME PairsInv, UNCHANGED cipher, seen' = seen, DOMAIN aesKeyVec' \subseteq Int,
           phase' \notin {"header", "block"}
    PROVE  PairsInv'
BY DEF PairsInv, cipher, OnList, Using, RecordPair, CheckedPairsUsedOnce, SpelledTwice,
       IsSequence

\* A step that leaves everything the pairs depend on.
LEMMA PairsUnchanged ==
    ASSUME PairsInv, UNCHANGED <<cipher, seen, aesKeyVec, aesIvVec, phase>>
    PROVE  PairsInv'
BY DEF PairsInv, cipher, OnList, Using, RecordPair, CheckedPairsUsedOnce, SpelledTwice,
       IsSequence, Pair, PairBytes

\* The pairs are checked against each other and against those of all files before.
LEMMA CheckKeepsPairs ==
    ASSUME PairsInv, CheckPairs
    PROVE  PairsInv'
<1>1. /\ ~Repeated
      /\ seen' = seen \cup {Pair(i) : i \in DOMAIN aesKeyVec}
      /\ phase' = "header"
      /\ UNCHANGED <<aesKeyVec, aesIvVec, records, offList, blkPtr>>
  BY DEF CheckPairs, PairsRefused, Go, cipher
<1>2. \A i : Pair(i)' = Pair(i) /\ PairBytes(i)' = PairBytes(i) /\ RecordPair(i)' = RecordPair(i)
  BY <1>1 DEF Pair, PairBytes, RecordPair
<1>3. OnList' = OnList
  BY <1>1 DEF OnList
<1>4. \A i \in DOMAIN aesKeyVec : Pair(i) \in seen' /\ Pair(i) \notin seen
  BY <1>1 DEF Repeated
<1>5. \A i : ~SpelledTwice(RecordPair(i))' => ~SpelledTwice(RecordPair(i))
  BY <1>1, <1>2 DEF SpelledTwice
<1>6. ASSUME NEW i \in OnList, NEW k \in DOMAIN aesKeyVec, ~SpelledTwice(RecordPair(i))'
      PROVE  RecordPair(i) # PairBytes(k)
  <2>1. PICK p \in seen : RecordPair(i) = BytesOf(p)
    BY DEF PairsInv
  <2>2. p \in seen' /\ Pair(k) \in seen' /\ p # Pair(k)
    BY <1>1, <1>4, <2>1
  <2>3. BytesOf(p) # BytesOf(Pair(k))
    BY <1>2, <1>6, <2>1, <2>2 DEF SpelledTwice
  <2> QED
    BY <2>1, <2>3 DEF PairBytes
<1>7. \A i, k \in DOMAIN aesKeyVec : i < k => Pair(i) # Pair(k)
  BY <1>1 DEF Repeated
<1>8. CheckedPairsUsedOnce'
  BY <1>1, <1>2, <1>5 DEF PairsInv, CheckedPairsUsedOnce
<1>9. \A i \in OnList' : \E p \in seen' : RecordPair(i)' = BytesOf(p)
  BY <1>1, <1>2, <1>3 DEF PairsInv
<1> QED
  BY <1>1, <1>2, <1>3, <1>4, <1>6, <1>7, <1>8, <1>9 DEF PairsInv, Using, IsSequence

\* The next record takes the place behind the last one, and is on the list only if
\* its pair is the one checked for it.
LEMMA AddRecordEffect ==
    ASSUME IsSequence(records), UNCHANGED <<aesKeyVec, aesIvVec>>,
           NEW pair, NEW i, NEW from, NEW size, NEW after, NEW next,
           AddRecord(pair, i, from, size, after, next)
    PROVE  /\ IsSequence(records)'
           /\ \A k \in OnList : RecordPair(k)' = RecordPair(k)
           /\ \A k \in OnList' \ OnList :
                 /\ k = Len(records) + 1
                 /\ i \in DOMAIN aesKeyVec
                 /\ RecordPair(k)' = PairBytes(i)
           /\ \A k \in DOMAIN records : k < Len(records) + 1
           /\ DOMAIN records \cup {Len(records) + 1} \subseteq Nat
<1> DEFINE n == Len(records) + 1
<1> DEFINE r == [job |-> job, stream |-> stream, key |-> pair[1], iv |-> pair[2],
                 from |-> from, size |-> size, nextKey |-> after[1], nextIv |-> after[2],
                 nextWords |-> WordsToCome(next)]
<1>1. records' = Append(records, r)
  BY DEF AddRecord
<1>2. offList' = IF i \in DOMAIN aesKeyVec /\ pair = PairBytes(i) THEN offList ELSE offList \cup {n}
  BY DEF AddRecord
<1> HIDE DEF r
<1>3. /\ IsSequence(records')
      /\ DOMAIN records' = DOMAIN records \cup {n}
      /\ \A k \in DOMAIN records : records'[k] = records[k]
      /\ records'[n] = r
      /\ n \notin DOMAIN records
      /\ DOMAIN records \subseteq Nat /\ n \in Nat
      /\ \A k \in DOMAIN records : k < n
  BY <1>1, AppendSequence
<1>4. \A k \in OnList : RecordPair(k)' = RecordPair(k)
  BY <1>3 DEF OnList, RecordPair
<1>5. \A k \in OnList' \ OnList : k = n /\ n \notin offList'
  BY <1>2, <1>3 DEF OnList
<1>6. ASSUME n \notin offList'
      PROVE  i \in DOMAIN aesKeyVec /\ pair = PairBytes(i)
  BY <1>2, <1>6
<1>7. ASSUME pair = PairBytes(i)
      PROVE  <<records'[n].key, records'[n].iv>> = PairBytes(i)
  <2>1. r.key = pair[1] /\ r.iv = pair[2]
    BY DEF r
  <2> QED
    BY <1>3, <1>7, <2>1 DEF PairBytes, BytesOf
<1>8. \A k \in OnList' \ OnList :
        k = Len(records) + 1 /\ i \in DOMAIN aesKeyVec /\ RecordPair(k)' = PairBytes(i)
  <2> SUFFICES ASSUME NEW k \in OnList' \ OnList
               PROVE  k = n /\ i \in DOMAIN aesKeyVec /\ RecordPair(k)' = PairBytes(i)
    OBVIOUS
  <2>1. k = n /\ i \in DOMAIN aesKeyVec /\ pair = PairBytes(i)
    BY <1>5, <1>6
  <2>2. RecordPair(k)' = <<records'[k].key, records'[k].iv>>
    BY DEF RecordPair
  <2> QED
    BY <1>7, <2>1, <2>2
<1> QED
  BY <1>3, <1>4, <1>8

\* Encrypting with the i-th pair when those before it are used: the records then
\* keep off the pairs behind i.
LEMMA AddRecordKeeps ==
    ASSUME PairsInv, Using, UNCHANGED <<aesKeyVec, aesIvVec, seen>>,
           NEW pair, NEW i \in Nat, NEW from, NEW size, NEW after, NEW next,
           AddRecord(pair, i, from, size, after, next),
           \A k \in OnList, l \in DOMAIN aesKeyVec :
               l >= i /\ ~SpelledTwice(RecordPair(k)) => RecordPair(k) # PairBytes(l),
           phase' = "block", blkPtr' = i
    PROVE  PairsInv'
<1>1. /\ IsSequence(records)'
      /\ \A k \in OnList : RecordPair(k)' = RecordPair(k)
      /\ \A k \in OnList' \ OnList :
            k = Len(records) + 1 /\ i \in DOMAIN aesKeyVec /\ RecordPair(k)' = PairBytes(i)
      /\ \A k \in DOMAIN records : k < Len(records) + 1
      /\ DOMAIN records \cup {Len(records) + 1} \subseteq Nat
  BY AddRecordEffect DEF PairsInv
<1>2. /\ \A k : Pair(k)' = Pair(k) /\ PairBytes(k)' = PairBytes(k)
      /\ \A k \in OnList : SpelledTwice(RecordPair(k))' = SpelledTwice(RecordPair(k))
      /\ \A k \in DOMAIN aesKeyVec, l \in OnList' : RecordPair(l)' = PairBytes(k) =>
            SpelledTwice(RecordPair(l))' = SpelledTwice(PairBytes(k))
  BY <1>1 DEF Pair, PairBytes, SpelledTwice
<1>3. ASSUME NEW k \in DOMAIN aesKeyVec, NEW l \in DOMAIN aesKeyVec, k < l,
             ~SpelledTwice(PairBytes(k))
      PROVE  PairBytes(k) # PairBytes(l)
  <2>1. Pair(k) # Pair(l) /\ Pair(k) \in seen /\ Pair(l) \in seen
    BY <1>3 DEF PairsInv
  <2> QED
    BY <1>3, <2>1 DEF SpelledTwice, PairBytes
<1>4. \A k \in OnList' : \E p \in seen' : RecordPair(k)' = BytesOf(p)
  <2> SUFFICES ASSUME NEW k \in OnList' PROVE \E p \in seen : RecordPair(k)' = BytesOf(p)
    OBVIOUS
  <2>1. CASE k \in OnList
    BY <1>1, <2>1 DEF PairsInv
  <2>2. CASE k \notin OnList
    <3>1. i \in DOMAIN aesKeyVec /\ RecordPair(k)' = BytesOf(Pair(i))
      BY <1>1, <2>2 DEF PairBytes
    <3>2. Pair(i) \in seen
      BY <3>1 DEF PairsInv
    <3> QED
      BY <3>1, <3>2
  <2> QED
    BY <2>1, <2>2
<1>5. ASSUME NEW k \in OnList', NEW l \in DOMAIN aesKeyVec, l > i,
             ~SpelledTwice(RecordPair(k))'
      PROVE  RecordPair(k)' # PairBytes(l)
  <2>1. CASE k \in OnList
    <3>1. l >= i
      BY <1>1, <1>5 DEF PairsInv
    <3> QED
      BY <1>1, <1>2, <1>5, <2>1, <3>1
  <2>2. CASE k \notin OnList
    <3>1. i \in DOMAIN aesKeyVec /\ RecordPair(k)' = PairBytes(i) /\ i < l
      BY <1>1, <1>5, <2>2 DEF PairsInv
    <3> QED
      BY <1>2, <1>3, <1>5, <3>1
  <2> QED
    BY <2>1, <2>2
<1>6. CheckedPairsUsedOnce'
  <2> SUFFICES ASSUME NEW k \in OnList', NEW l \in OnList', k < l,
                      ~SpelledTwice(RecordPair(k))'
               PROVE  RecordPair(k)' # RecordPair(l)'
    BY DEF CheckedPairsUsedOnce, OnList
  <2>1. OnList \subseteq DOMAIN records
    BY DEF OnList
  <2>2. k \in OnList
    BY <1>1, <2>1
  <2>3. CASE l \in OnList
    BY <1>1, <1>2, <2>2, <2>3 DEF PairsInv, CheckedPairsUsedOnce, OnList
  <2>4. CASE l \notin OnList
    BY <1>1, <1>2, <2>2, <2>4
  <2> QED
    BY <2>3, <2>4
<1> QED
  BY <1>1, <1>2, <1>3, <1>4, <1>5, <1>6 DEF PairsInv, Using

\* The secure header takes the pair of its key file, and carries the next one.
LEMMA HeaderKeepsPairs ==
    ASSUME PairsInv, EncryptHeader
    PROVE  PairsInv'
<1>1. /\ AddRecord(<<ctx.aesKey, ctx.aesIv>>, 1, 0, 0, PairBytes(2), Lesser(blocksList[1], InLen))
      /\ blkPtr' = 1 /\ phase' = "block" /\ phase = "header"
      /\ UNCHANGED <<aesKeyVec, aesIvVec, seen>>
  BY DEF EncryptHeader, At, Go, keys
<1>2. \A k \in OnList, l \in DOMAIN aesKeyVec :
        l >= 1 /\ ~SpelledTwice(RecordPair(k)) => RecordPair(k) # PairBytes(l)
  BY <1>1 DEF PairsInv
<1> QED
  BY <1>1, <1>2, AddRecordKeeps DEF Using

\* A block takes the pair that the block before it carried.
LEMMA BlockKeepsPairs ==
    ASSUME PairsInv, EncryptBlock
    PROVE  PairsInv'
<1> DEFINE next == NextSize(bytesWritten + nextBlkSize)
           pair == <<Last(records).nextKey, Last(records).nextIv>>
<1>1. /\ AddRecord(pair, blkPtr + 1, bytesWritten, nextBlkSize, PairAfter(next), next)
      /\ blkPtr' = blkPtr + 1 /\ phase' = "block" /\ phase = "block"
      /\ UNCHANGED <<aesKeyVec, aesIvVec, seen>>
  BY DEF EncryptBlock, At, keys, position
<1>2. blkPtr + 1 \in Nat
  BY DEF PairsInv
<1>3. \A k \in OnList, l \in DOMAIN aesKeyVec :
        l >= blkPtr + 1 /\ ~SpelledTwice(RecordPair(k)) => RecordPair(k) # PairBytes(l)
  BY <1>1 DEF PairsInv
<1> QED
  BY <1>1, <1>2, <1>3, AddRecordKeeps DEF Using

-----------------------------------------------------------------------------
\* Reading the key file, and completing its pairs, keeps what is known of them.
LEMMA KeysKeepPairs ==
    ASSUME Inv, ReadKeyFile \/ TakePairs \/ DerivePairs
    PROVE  PairsInv'
<1>1. UNCHANGED cipher /\ seen' = seen /\ phase' \in {"pairs", "repeats"}
  BY DEF ReadKeyFile, TakePairs, DerivePairs, Go
<1>2. CASE ReadKeyFile
  <2>1. File \in DOMAIN disk
    BY <1>2, FileFound DEF Inv, ReadKeyFile
  <2>2. DOMAIN aesKeyVec' \subseteq Int
    BY <1>2, <2>1 DEF Inv, FilesInv, ReadKeyFile
  <2> QED
    BY <1>1, <2>2, PairsKept DEF Inv
<1>3. CASE TakePairs
  <2>1. DOMAIN aesKeyVec' \subseteq Int
    BY <1>3 DEF TakePairs, FirstOf
  <2> QED
    BY <1>1, <2>1, PairsKept DEF Inv
<1>4. CASE DerivePairs
  <2>1. DOMAIN aesKeyVec' \subseteq Int
    BY <1>4 DEF DerivePairs
  <2> QED
    BY <1>1, <2>1, PairsKept DEF Inv
<1> QED
  BY <1>2, <1>3, <1>4

\* Every step keeps the invariant.
LEMMA KeyRollingStep ==
    ASSUME Inv, Next
    PROVE  Inv'
<1>1. CASE \/ RefuseBlocks \/ KeyFileExists \/ RefuseKeyFile \/ NoKeyToCopy
           \/ TooFewPairs \/ RefusePairs \/ Overrun \/ RefuseLength
  <2>1. UNCHANGED <<inputs, position, keys, cipher>>
    BY <1>1 DEF RefuseBlocks, KeyFileExists, RefuseKeyFile, NoKeyToCopy, TooFewPairs,
                RefusePairs, Overrun, RefuseLength, Fail
  <2>2. FilesInv'
    BY <2>1, FilesKept DEF Inv, inputs, position
  <2>3. PairsInv'
    BY <2>1, PairsUnchanged DEF Inv, keys, position
  <2> QED
    BY <2>2, <2>3 DEF Inv
<1>2. CASE StartJob \/ StartPmcData \/ (NextJob /\ job # Len(plan))
  <2>1. /\ UNCHANGED <<cipher, seen, aesKeyVec>>
        /\ phase' \in {"file", "hash", "start"}
    BY <1>2 DEF StartJob, StartPmcData, NextJob, Go, keys
  <2> QED
    BY <1>2, <2>1, StartKeepsFiles, PairsKept DEF Inv, PairsInv
<1>3. CASE NextJob /\ job = Len(plan)
  <2>1. UNCHANGED <<cipher, seen, aesKeyVec, aesIvVec, phase>>
    BY <1>3 DEF NextJob, position
  <2> QED
    BY <1>3, <2>1, StartKeepsFiles, PairsUnchanged DEF Inv
<1>4. CASE GenerateKeyFile
  <2>1. UNCHANGED <<cipher, seen, aesKeyVec>> /\ phase' = "read"
    BY <1>4 DEF GenerateKeyFile, Go
  <2> QED
    BY <1>4, <2>1, GenerateKeepsFiles, PairsKept DEF Inv, PairsInv
<1>5. CASE ReadKeyFile \/ TakePairs \/ DerivePairs
  <2>1. UNCHANGED <<plan, disk, generate, job, stream>> /\ phase' \in {"pairs", "repeats"}
    BY <1>5 DEF ReadKeyFile, TakePairs, DerivePairs, Go, inputs
  <2> QED
    BY <1>5, <2>1, FilesKept, KeysKeepPairs DEF Inv
<1>6. CASE CheckPairs
  <2>1. UNCHANGED <<plan, disk, generate, job, stream>> /\ phase' = "header"
    BY <1>6 DEF CheckPairs, Go, inputs
  <2> QED
    BY <1>6, <2>1, FilesKept, CheckKeepsPairs DEF Inv
<1>7. CASE EncryptHeader \/ EncryptBlock
  <2>1. UNCHANGED <<plan, disk, generate, job, stream>> /\ phase' = "block"
    BY <1>7 DEF EncryptHeader, EncryptBlock, Go, inputs, position, At
  <2> QED
    BY <1>7, <2>1, FilesKept, HeaderKeepsPairs, BlockKeepsPairs DEF Inv
<1>8. CASE EndStream
  <2>1. /\ UNCHANGED <<plan, disk, generate, job, stream>> /\ phase' = "hash"
        /\ UNCHANGED <<cipher, seen, aesKeyVec>>
    BY <1>8 DEF EndStream, Go, inputs, keys
  <2> QED
    BY <2>1, FilesKept, PairsKept DEF Inv, PairsInv
<1> QED
  BY <1>1, <1>2, <1>3, <1>4, <1>5, <1>6, <1>7, <1>8
     DEF Next, ReadKeys, PreparePairs, Encrypt

\* The invariant is about the variables of the module alone.
LEMMA KeyRollingStutter ==
    ASSUME Inv, UNCHANGED vars
    PROVE  Inv'
<1>1. UNCHANGED <<inputs, position, keys, cipher>>
  BY DEF vars
<1>2. FilesInv'
  BY <1>1, FilesKept DEF Inv, inputs, position
<1>3. PairsInv'
  BY <1>1, PairsUnchanged DEF Inv, keys, position
<1> QED
  BY <1>2, <1>3 DEF Inv

\* The key/IV pairs that were accepted are used once each, unless the key files spell
\* one of them in two ways.
THEOREM PairsUsedOnce == Spec => []CheckedPairsUsedOnce
<1>1. Inv /\ [Next]_vars => Inv'
  BY KeyRollingStep, KeyRollingStutter
<1>2. Inv => CheckedPairsUsedOnce
  BY DEF Inv, PairsInv
<1> QED
  BY InitFiles, <1>1, <1>2, PTL DEF Spec

\* A key file that Process opens exists: what was looked up when the BIF was read
\* still holds, and what was missing has been generated.
THEOREM KeyFileIsThere == Spec => [](KeyFileThere => ~Absent(File))
<1>1. Inv /\ [Next]_vars => Inv'
  BY KeyRollingStep, KeyRollingStutter
<1>2. Inv => (KeyFileThere => ~Absent(File))
  BY FileFound DEF Inv, Absent
<1> QED
  BY InitFiles, <1>1, <1>2, PTL DEF Spec

-----------------------------------------------------------------------------
(* Constants.                                                              *)

\* A chunk is far larger than what comes with its blocks.
LEMMA Constants ==
    /\ SecureChunk \in Nat /\ HashLength \in Nat /\ Overhead \in Nat \ {0}
    /\ HashLength + Overhead * Overhead < SecureChunk
    /\ WordModulus \in Nat /\ SecureChunk < WordModulus
    /\ FirstRandom \in Nat \ {0}
BY KeyRollingAssumption DEF WholeWords

-----------------------------------------------------------------------------
(* Sums.                                                                     *)

\* Induction over the numbers up to n, for a set of them.
LEMMA UpToN ==
    ASSUME NEW n \in Nat, NEW G, 0 \in G, \A i \in 1 .. n : i - 1 \in G => i \in G
    PROVE  \A i \in 0 .. n : i \in G
<1> DEFINE S == {i \in 0 .. n : i \notin G}
           R == {ss \in Nat \X Nat : ss[1] < ss[2]}
<1>1. IsWellFoundedOn(OpToRel(<, Nat), Nat)
  BY NatLessThanWellFounded
<1>2. OpToRel(<, Nat) = R
  BY DEF OpToRel
<1>3. IsWellFoundedOn(R, Nat)
  BY <1>1, <1>2
<1>4. SUFFICES ASSUME S # {} PROVE FALSE
  OBVIOUS
<1>5. S \in SUBSET Nat
  OBVIOUS
<1> HIDE DEF R
<1>6. PICK k \in S : \A m \in S : ~(<<m, k>> \in R)
  <2> HIDE DEF S
  <2> QED BY <1>3, <1>4, <1>5, WFMin
<1>7. \A m \in S : ~(m < k)
  BY <1>5, <1>6 DEF R
<1>8. k \in 1 .. n /\ k \notin G
  BY <1>6
<1>9. k - 1 \in G
  BY <1>7, <1>8
<1> QED
  BY <1>8, <1>9

\* f gives the sums of the first 0 to n elements of s.
AreSums(f, n, s) == f = [i \in 0 .. n |-> IF i = 0 THEN 0 ELSE f[i - 1] + s[i]]

\* The recursion of Sums has a solution, whatever is summed.
LEMMA SumsExist ==
    ASSUME NEW s, Len(s) \in Nat
    PROVE  \E f : AreSums(f, Len(s), s)
<1> DEFINE G == {n \in 0 .. Len(s) : \E f : AreSums(f, n, s)}
<1>1. 0 \in G
  <2>1. AreSums([p \in 0 .. 0 |-> 0], 0, s)
    BY DEF AreSums
  <2> QED BY <2>1
<1>2. ASSUME NEW n \in 1 .. Len(s), n - 1 \in G
      PROVE  n \in G
  <2>1. PICK f : AreSums(f, n - 1, s)
    BY <1>2
  <2> DEFINE g == [p \in 0 .. n |-> IF p = n THEN f[n - 1] + s[n] ELSE f[p]]
  <2>2. ASSUME NEW p \in 0 .. n
        PROVE  g[p] = IF p = 0 THEN 0 ELSE g[p - 1] + s[p]
    <3>1. CASE p = n
      BY <3>1
    <3>2. CASE p # n
      <4>1. p \in 0 .. (n - 1) /\ p - 1 # n
        BY <3>2
      <4>2. f[p] = IF p = 0 THEN 0 ELSE f[p - 1] + s[p]
        BY <4>1, <2>1 DEF AreSums
      <4> QED BY <4>1, <4>2, <3>2
    <3> QED BY <3>1, <3>2
  <2>3. g = [p \in 0 .. n |-> IF p = 0 THEN 0 ELSE g[p - 1] + s[p]]
    BY <2>2
  <2>4. AreSums(g, n, s)
    BY <2>3 DEF AreSums
  <2> QED BY <2>4
<1> HIDE DEF G
<1>3. \A n \in 0 .. Len(s) : n \in G
  BY <1>1, <1>2, UpToN
<1>4. Len(s) \in 0 .. Len(s)
  OBVIOUS
<1> QED
  BY <1>3, <1>4 DEF G

\* The sums of a list add one element after the other.
LEMMA SumsStep ==
    ASSUME NEW s, Len(s) \in Nat
    PROVE  \A i \in 0 .. Len(s) : Sums(s)[i] = IF i = 0 THEN 0 ELSE Sums(s)[i - 1] + s[i]
<1>1. AreSums(Sums(s), Len(s), s)
  BY SumsExist DEF AreSums, Sums
<1> QED
  BY <1>1 DEF AreSums

\* Sums of natural numbers are natural numbers.
LEMMA SumsNat ==
    ASSUME NEW s \in Seq(Nat)
    PROVE  \A i \in 0 .. Len(s) : Sums(s)[i] \in Nat
<1> DEFINE G == {i \in 0 .. Len(s) : Sums(s)[i] \in Nat}
<1>0. Len(s) \in Nat
  OBVIOUS
<1>1. 0 \in G
  BY <1>0, SumsStep
<1>2. ASSUME NEW i \in 1 .. Len(s), i - 1 \in G PROVE i \in G
  <2>1. Sums(s)[i] = Sums(s)[i - 1] + s[i]
    BY SumsStep
  <2> QED BY <2>1, <1>2
<1> HIDE DEF G
<1>3. \A i \in 0 .. Len(s) : i \in G
  BY <1>0, <1>1, <1>2, UpToN
<1> QED
  BY <1>3 DEF G

\* Sums depend on the elements summed alone.
LEMMA SumsAgree ==
    ASSUME NEW s, NEW t, Len(s) \in Nat, Len(t) \in Nat, NEW n \in Nat,
           n <= Len(s), n <= Len(t), \A i \in 1 .. n : s[i] = t[i]
    PROVE  \A i \in 0 .. n : Sums(s)[i] = Sums(t)[i]
<1> DEFINE G == {i \in 0 .. n : Sums(s)[i] = Sums(t)[i]}
<1>1. 0 \in G
  BY SumsStep
<1>2. ASSUME NEW i \in 1 .. n, i - 1 \in G PROVE i \in G
  <2>1. Sums(s)[i] = Sums(s)[i - 1] + s[i]
    BY SumsStep
  <2>2. Sums(t)[i] = Sums(t)[i - 1] + t[i]
    BY SumsStep
  <2> QED BY <2>1, <2>2, <1>2
<1> HIDE DEF G
<1>3. \A i \in 0 .. n : i \in G
  BY <1>1, <1>2, UpToN
<1> QED
  BY <1>3 DEF G

\* Sums do not go down, and go up by one at least for every positive element.
LEMMA SumsGrow ==
    ASSUME NEW s \in Seq(Nat), NEW i \in 0 .. Len(s)
    PROVE  \A k \in i .. Len(s) : Sums(s)[i] <= Sums(s)[k]
<1> DEFINE G == {d \in 0 .. (Len(s) - i) : Sums(s)[i] <= Sums(s)[i + d]}
<1>1. \A k \in 0 .. Len(s) : Sums(s)[k] \in Nat
  BY SumsNat
<1>0. Len(s) - i \in Nat
  OBVIOUS
<1>2. 0 \in G
  BY <1>1
<1>3. ASSUME NEW d \in 1 .. (Len(s) - i), d - 1 \in G PROVE d \in G
  <2>1. PICK k \in 1 .. Len(s) : k = i + d
    OBVIOUS
  <2>2. Sums(s)[k] = Sums(s)[k - 1] + s[k]
    BY SumsStep
  <2>3. s[k] \in Nat /\ Sums(s)[k - 1] \in Nat /\ Sums(s)[i] \in Nat
    BY <1>1
  <2>4. i + (d - 1) = k - 1
    BY <2>1
  <2>5. Sums(s)[i] <= Sums(s)[k - 1]
    BY <1>3, <2>4
  <2> QED BY <2>1, <2>2, <2>3, <2>5
<1> HIDE DEF G
<1>4. \A d \in 0 .. (Len(s) - i) : d \in G
  BY <1>0, <1>2, <1>3, UpToN
<1>5. \A k \in i .. Len(s) : k - i \in G /\ i + (k - i) = k
  BY <1>4
<1> QED
  BY <1>5 DEF G

\* Every positive element adds one at least.
LEMMA SumsPositive ==
    ASSUME NEW s \in Seq(Nat \ {0})
    PROVE  \A i \in 0 .. Len(s) : Sums(s)[i] \in Nat /\ Sums(s)[i] >= i
<1> DEFINE G == {i \in 0 .. Len(s) : Sums(s)[i] \in Nat /\ Sums(s)[i] >= i}
<1>0. Len(s) \in Nat
  OBVIOUS
<1>1. 0 \in G
  BY <1>0, SumsStep
<1>2. ASSUME NEW i \in 1 .. Len(s), i - 1 \in G PROVE i \in G
  <2>1. Sums(s)[i] = Sums(s)[i - 1] + s[i]
    BY SumsStep
  <2> QED BY <2>1, <1>2
<1> HIDE DEF G
<1>3. \A i \in 0 .. Len(s) : i \in G
  BY <1>0, <1>1, <1>2, UpToN
<1> QED
  BY <1>3 DEF G

\* The sums of two lists, one behind the other.
LEMMA SumsJoined ==
    ASSUME NEW s \in Seq(Nat), NEW t \in Seq(Nat)
    PROVE  /\ s \o t \in Seq(Nat)
           /\ Len(s \o t) = Len(s) + Len(t)
           /\ \A i \in 0 .. Len(s) : Sums(s \o t)[i] = Sums(s)[i]
           /\ \A i \in 0 .. Len(t) : Sums(s \o t)[Len(s) + i] = Total(s) + Sums(t)[i]
<1> DEFINE u == s \o t
           G == {i \in 0 .. Len(t) : Sums(u)[Len(s) + i] = Total(s) + Sums(t)[i]}
<1>1. /\ u \in Seq(Nat) /\ Len(u) = Len(s) + Len(t)
      /\ Len(s) \in Nat /\ Len(t) \in Nat /\ Len(u) \in Nat
      /\ \A i \in 1 .. Len(s) : u[i] = s[i]
      /\ \A i \in 1 .. Len(t) : u[Len(s) + i] = t[i]
  OBVIOUS
<1> HIDE DEF u
<1>2. \A i \in 0 .. Len(s) : Sums(u)[i] = Sums(s)[i]
  <2>1. Len(s) <= Len(s) /\ Len(s) <= Len(u)
    BY <1>1
  <2> QED BY <1>1, <2>1, SumsAgree
<1>3. Total(s) \in Nat /\ \A i \in 0 .. Len(t) : Sums(t)[i] \in Nat
  BY SumsNat DEF Total
<1>4. 0 \in G
  <2>1. Sums(t)[0] = 0
    BY SumsStep, <1>1
  <2>2. Sums(u)[Len(s) + 0] = Sums(s)[Len(s)]
    BY <1>1, <1>2
  <2> QED BY <1>1, <1>3, <2>1, <2>2 DEF Total
<1>5. ASSUME NEW i \in 1 .. Len(t), i - 1 \in G PROVE i \in G
  <2>1. Sums(t)[i] = Sums(t)[i - 1] + t[i]
    BY SumsStep, <1>1
  <2>2. PICK k \in 1 .. Len(u) : k = Len(s) + i /\ k - 1 = Len(s) + (i - 1)
    BY <1>1
  <2>3. Sums(u)[k] = Sums(u)[k - 1] + u[k]
    <3>1. k \in 0 .. Len(u) /\ k # 0
      BY <1>1
    <3> QED BY SumsStep, <1>1, <3>1
  <2>4. Sums(u)[k - 1] = Total(s) + Sums(t)[i - 1]
    BY <1>5, <2>2
  <2>5. u[k] = t[i]
    BY <1>1, <2>2
  <2>6. t[i] \in Nat
    BY <1>1, SMTT(30)
  <2>7. Sums(t)[i - 1] \in Nat
    <3>1. i - 1 \in 0 .. Len(t)
      BY <1>1
    <3> QED BY <1>3, <3>1
  <2>8. Sums(u)[Len(s) + i] = Total(s) + Sums(t)[i]
    BY <1>3, <2>1, <2>2, <2>3, <2>4, <2>5, <2>6, <2>7
  <2> QED BY <1>1, <2>8
<1> HIDE DEF G
<1>6. \A i \in 0 .. Len(t) : i \in G
  BY <1>1, <1>4, <1>5, UpToN
<1> QED
  BY <1>1, <1>2, <1>6 DEF G, u

\* Blocks that all have one size.
LEMMA SumsOfEqual ==
    ASSUME NEW n \in Nat, NEW c \in Nat
    PROVE  LET s == [i \in 1 .. n |-> c]
           IN  /\ s \in Seq(Nat) /\ Len(s) = n
               /\ \A i \in 0 .. n : Sums(s)[i] = i * c
<1> DEFINE s == [i \in 1 .. n |-> c]
           G == {i \in 0 .. n : Sums(s)[i] = i * c}
<1>1. s \in Seq(Nat) /\ Len(s) = n /\ \A i \in 1 .. n : s[i] = c
  OBVIOUS
<1> HIDE DEF s
<1>2. 0 \in G
  BY SumsStep, <1>1
<1>3. ASSUME NEW i \in 1 .. n, i - 1 \in G PROVE i \in G
  <2>1. Sums(s)[i] = Sums(s)[i - 1] + s[i]
    BY SumsStep, <1>1
  <2>2. (i - 1) * c + c = i * c
    OBVIOUS
  <2> QED BY <1>1, <1>3, <2>1, <2>2
<1> HIDE DEF G
<1>4. \A i \in 0 .. n : i \in G
  BY <1>2, <1>3, UpToN
<1> QED
  BY <1>1, <1>4 DEF G, s

-----------------------------------------------------------------------------
(* The blocks of a partition.                                                *)

\* What a partition of the plan consists of.
LEMMA JobFields ==
    ASSUME plan \in Seq(Job), NEW j \in DOMAIN plan
    PROVE  /\ plan[j].blocks \in Seq(WholeWords) /\ plan[j].default \in WholeWords
           /\ plan[j].lengths \in Seq(WholeWords)
           /\ plan[j].blocks \in Seq(Nat \ {0}) /\ plan[j].default \in Nat
           /\ plan[j].lengths \in Seq(Nat \ {0}) /\ plan[j].files \in Seq(Files)
           /\ plan[j].source \in Sources /\ plan[j].kind \in Kinds
           /\ plan[j].encrypted \in BOOLEAN
<1>1. plan[j] \in Job
  OBVIOUS
<1>2. /\ plan[j].blocks \in Seq(WholeWords \ {0}) /\ plan[j].default \in WholeWords
      /\ plan[j].lengths \in Seq(WholeWords \ {0})
  BY <1>1 DEF Job
<1>3. ASSUME NEW s \in Seq(WholeWords \ {0})
      PROVE  s \in Seq(WholeWords) /\ s \in Seq(Nat \ {0})
  <2>1. \A n \in WholeWords \ {0} : n \in Nat \ {0} /\ n \in WholeWords
    BY DEF WholeWords
  <2> QED BY <2>1
<1>4. plan[j].default \in Nat
  BY <1>2 DEF WholeWords
<1> QED
  BY <1>1, <1>2, <1>3, <1>4 DEF Job

\* A chunk has room for as many blocks as their overhead is long.
LEMMA ChunkRoom ==
    ASSUME NEW j
    PROVE  /\ ChunkSize(j) \in Nat
           /\ Overhead * Overhead < ChunkSize(j) /\ ChunkSize(j) <= SecureChunk
           /\ Overhead \in Nat \ {0} /\ Overhead * Overhead \in Nat
           /\ ChunkSize(j) < WordModulus /\ WordModulus \in Nat
<1>1. PICK o \in Nat : o = Overhead * Overhead
  BY Constants
<1> QED
  BY <1>1, Constants DEF ChunkSize

\* A factor distributes over a sum, on either side.
LEMMA Distribute ==
    ASSUME NEW a \in Int, NEW b \in Int, NEW c \in Int
    PROVE  (a + b) * c = a * c + b * c /\ c * (a + b) = c * a + c * b
OBVIOUS

\* Products of natural numbers are natural numbers.
LEMMA ProductNat ==
    ASSUME NEW a \in Nat, NEW b \in Nat
    PROVE  a * b \in Nat
OBVIOUS

\* What blocks take in a chunk is a natural number.
LEMMA TakenNat ==
    ASSUME NEW s \in Seq(Nat), NEW i \in 0 .. Len(s)
    PROVE  Taken(s, i) \in Nat
<1>1. Sums(s)[i] \in Nat
  BY SumsNat
<1>2. i \in Nat /\ Overhead \in Nat
  BY Constants
<1>3. i * Overhead \in Nat
  BY <1>2, ProductNat
<1> QED
  BY <1>1, <1>3 DEF Taken

\* k quotients do not exceed what is divided.
LEMMA QuotientFits ==
    ASSUME NEW a \in Nat, NEW d \in Nat \ {0}
    PROVE  a \div d \in Nat /\ (a \div d) * d <= a
<1>1. a = d * (a \div d) + (a % d) /\ a \div d \in Nat /\ a % d \in Nat
  OBVIOUS
<1>2. (a \div d) * d = d * (a \div d)
  BY <1>1
<1> QED
  BY <1>1, <1>2

\* The blocks that are not cut leave room in the chunk.
LEMMA UncutFits ==
    ASSUME plan \in Seq(Job), NEW j \in DOMAIN plan
    PROVE  /\ UncutBlocks(j) \in Seq(Nat \ {0}) /\ UncutBlocks(j) \in Seq(WholeWords)
           /\ Taken(UncutBlocks(j), Len(UncutBlocks(j))) < ChunkSize(j)
<1> DEFINE user == plan[j].blocks
           O    == Overhead
           C    == ChunkSize(j)
<1>1. /\ user \in Seq(Nat \ {0}) /\ user \in Seq(Nat) /\ Len(user) \in Nat
      /\ plan[j].default \in Nat /\ DOMAIN user = 1 .. Len(user)
  BY JobFields
<1>7. user \in Seq(WholeWords) /\ plan[j].default \in WholeWords
  BY JobFields
<1>2. C \in Nat /\ C > 0 /\ O \in Nat \ {0}
  BY ChunkRoom
<1>3. \A i \in 0 .. Len(user) : Sums(user)[i] \in Nat
  BY <1>1, SumsNat
<1>4. Taken(user, 0) < C
  <2>1. Sums(user)[0] = 0
    BY <1>1, SumsStep
  <2> QED BY <1>2, <2>1 DEF Taken
<1> HIDE DEF C
<1>5. CASE \E i \in DOMAIN user : i \notin WholeBlocks(j)
  <2> DEFINE P(i) == 1 .. i \subseteq WholeBlocks(j) /\ i + 1 \notin WholeBlocks(j)
             n == CHOOSE i \in 0 .. Len(user) : P(i)
  <2>1. \E i \in 0 .. Len(user) : P(i)
    <3> SUFFICES ASSUME \A i \in 0 .. Len(user) : ~P(i) PROVE FALSE
      OBVIOUS
    <3> DEFINE G == {i \in 0 .. Len(user) : 1 .. i \subseteq WholeBlocks(j)}
    <3>1. 0 \in G
      OBVIOUS
    <3>2. ASSUME NEW i \in 1 .. Len(user), i - 1 \in G PROVE i \in G
      <4>1. 1 .. (i - 1) \subseteq WholeBlocks(j) /\ i - 1 \in 0 .. Len(user)
        BY <3>2
      <4>2. (i - 1) + 1 = i
        OBVIOUS
      <4>3. i \in WholeBlocks(j)
        BY <4>1, <4>2
      <4>4. \A k \in 1 .. i : k \in 1 .. (i - 1) \/ k = i
        OBVIOUS
      <4> QED BY <4>1, <4>3, <4>4
    <3> HIDE DEF G
    <3>3. \A i \in 0 .. Len(user) : i \in G
      BY <1>1, <3>1, <3>2, UpToN
    <3>4. 1 .. Len(user) \subseteq WholeBlocks(j)
      BY <1>1, <3>3 DEF G
    <3> QED BY <1>1, <1>5, <3>4
  <2>2. n \in 0 .. Len(user) /\ P(n)
    BY <2>1
  <2>3. UncutBlocks(j) = SubSeq(user, 1, n)
    BY <1>5 DEF UncutBlocks
  <2> HIDE DEF n
  <2> DEFINE u == SubSeq(user, 1, n)
  <2>4. /\ u \in Seq(Nat \ {0}) /\ u \in Seq(WholeWords)
        /\ Len(u) = n /\ \A i \in 1 .. n : u[i] = user[i]
    BY <1>1, <1>7, <2>2
  <2> HIDE DEF u
  <2>5. Sums(u)[n] = Sums(user)[n]
    <3>1. /\ n \in 0 .. n /\ n \in Nat /\ Len(u) \in Nat /\ Len(user) \in Nat
          /\ n <= Len(u) /\ n <= Len(user) /\ \A i \in 1 .. n : u[i] = user[i]
      BY <2>2, <2>4, <1>1
    <3> HIDE DEF user
    <3>2. \A i \in 0 .. n : Sums(u)[i] = Sums(user)[i]
      BY <3>1, SumsAgree
    <3> QED BY <3>1, <3>2
  <2>6. Taken(user, n) < C
    <3>1. CASE n = 0
      BY <1>4, <3>1
    <3>2. CASE n # 0
      <4>1. n \in WholeBlocks(j)
        BY <2>2, <3>2, <1>1
      <4> QED BY <4>1 DEF WholeBlocks, C
    <3> QED BY <3>1, <3>2
  <2> QED BY <2>3, <2>4, <2>5, <2>6 DEF Taken, C, u
<1>6. CASE ~ \E i \in DOMAIN user : i \notin WholeBlocks(j)
  <2> DEFINE k == DefaultBlocks(j)
             def == plan[j].default
             d == [i \in 1 .. k |-> def]
             left == C - 1 - Taken(user, Len(user))
  <2>1. Taken(user, Len(user)) < C /\ Taken(user, Len(user)) \in Nat
    <3>1. Taken(user, Len(user)) \in Nat
      <4>1. Len(user) \in 0 .. Len(user)
        BY <1>1
      <4> QED BY <1>1, <4>1, TakenNat
    <3>2. CASE Len(user) = 0
      BY <1>4, <3>1, <3>2
    <3>3. CASE Len(user) # 0
      <4>1. Len(user) \in WholeBlocks(j)
        BY <1>1, <1>6, <3>3
      <4> QED BY <3>1, <4>1 DEF WholeBlocks, C
    <3> QED BY <3>2, <3>3
  <2>2. left \in Nat
    BY <1>2, <2>1
  <2>3. k \in Nat /\ k * (def + O) <= left /\ (k # 0 => def # 0)
    <3>1. CASE def = 0
      <4>1. k = 0
        BY <3>1 DEF DefaultBlocks
      <4> QED BY <1>1, <1>2, <2>2, <3>1, <4>1
    <3>2. CASE def # 0
      <4>1. k = left \div (def + O)
        BY <3>2 DEF DefaultBlocks, C
      <4>2. def + O \in Nat \ {0}
        BY <1>1, <1>2
      <4> HIDE DEF left, k
      <4> QED BY <2>2, <3>2, <4>1, <4>2, QuotientFits
    <3> QED BY <3>1, <3>2
  <2>4. UncutBlocks(j) = user \o d
    BY <1>6 DEF UncutBlocks
  <2> HIDE DEF k
  <2>5. /\ d \in Seq(Nat) /\ Len(d) = k /\ Sums(d)[k] = k * def
        /\ d \in Seq(Nat \ {0}) /\ d \in Seq(WholeWords)
    <3>1. k \in 0 .. k
      BY <2>3
    <3>2. d \in Seq(Nat \ {0})
      BY <2>3, <1>1
    <3>3. d \in Seq(WholeWords)
      BY <2>3, <1>7
    <3> QED BY <1>1, <2>3, <3>1, <3>2, <3>3, SumsOfEqual
  <2> HIDE DEF d
  <2> DEFINE u == user \o d
  <2>6. /\ Len(u) = Len(user) + k
        /\ Sums(u)[Len(user) + k] = Total(user) + k * def
    <3>1. k \in 0 .. Len(d)
      BY <2>3, <2>5
    <3>2. \A i \in 0 .. Len(d) : Sums(user \o d)[Len(user) + i] = Total(user) + Sums(d)[i]
      BY <1>1, <2>5, SumsJoined
    <3>3. Len(user \o d) = Len(user) + Len(d)
      BY <1>1, <2>5, SumsJoined
    <3> QED BY <2>5, <3>1, <3>2, <3>3
  <2>7. u \in Seq(Nat \ {0}) /\ u \in Seq(WholeWords)
    BY <1>1, <1>7, <2>5
  <2> HIDE DEF u
  <2>8. Total(user) \in Nat
    BY <1>1, <1>3 DEF Total
  <2>9. Taken(u, Len(u)) = Taken(user, Len(user)) + k * (def + O)
    <3>1. Taken(u, Len(u)) = Total(user) + k * def + (Len(user) + k) * O
      BY <2>6 DEF Taken
    <3>2. Taken(user, Len(user)) = Total(user) + Len(user) * O
      BY DEF Taken, Total
    <3>3. (Len(user) + k) * O = Len(user) * O + k * O
      <4>1. Len(user) \in Int /\ k \in Int /\ O \in Int
        BY <1>1, <1>2, <2>3
      <4> HIDE DEF user
      <4> QED BY <4>1, Distribute
    <3>4. k * (def + O) = k * def + k * O
      BY <1>1, <1>2, <2>3, Distribute
    <3>5. /\ k * def \in Nat /\ k * O \in Nat /\ Len(user) * O \in Nat
      BY <1>1, <1>2, <2>3, ProductNat
    <3> QED BY <2>8, <3>1, <3>2, <3>3, <3>4, <3>5
  <2>10. k * (def + O) \in Nat
    BY <1>1, <1>2, <2>3
  <2>11. Taken(u, Len(u)) < C
    BY <1>2, <2>1, <2>2, <2>3, <2>9, <2>10
  <2> QED BY <2>4, <2>7, <2>11 DEF u, C
<1> QED
  BY <1>5, <1>6

\* An element more at the end of a list leaves the sums before it alone.
LEMMA SumsAppended ==
    ASSUME NEW s \in Seq(Nat), NEW e \in Nat
    PROVE  /\ Append(s, e) \in Seq(Nat) /\ Len(Append(s, e)) = Len(s) + 1
           /\ \A i \in 0 .. Len(s) : Sums(Append(s, e))[i] = Sums(s)[i]
           /\ Total(Append(s, e)) = Total(s) + e
           /\ Total(s) \in Nat
<1> DEFINE t == Append(s, e)
<1>1. /\ t \in Seq(Nat) /\ Len(t) = Len(s) + 1 /\ t[Len(s) + 1] = e
      /\ \A i \in 1 .. Len(s) : t[i] = s[i]
      /\ Len(s) \in Nat /\ Len(t) \in Nat /\ Len(s) <= Len(s) /\ Len(s) <= Len(t)
  OBVIOUS
<1> HIDE DEF t
<1>2. \A i \in 0 .. Len(s) : Sums(t)[i] = Sums(s)[i]
  BY <1>1, SumsAgree
<1>3. Sums(t)[Len(t)] = Sums(t)[Len(s)] + e
  <2>1. Len(t) \in 0 .. Len(t) /\ Len(t) # 0 /\ Len(t) - 1 = Len(s)
    BY <1>1
  <2> QED BY <1>1, <2>1, SumsStep
<1>4. Len(s) \in 0 .. Len(s)
  BY <1>1
<1>5. Total(s) \in Nat
  BY <1>4, SumsNat DEF Total
<1> QED
  BY <1>1, <1>2, <1>3, <1>4, <1>5 DEF t, Total

\* A number below the modulus is its own remainder.
LEMMA SmallMod ==
    ASSUME NEW m \in Nat \ {0}, NEW x \in 0 .. (m - 1)
    PROVE  x % m = x
OBVIOUS

\* Products grow with their factor.
LEMMA Grows ==
    ASSUME NEW a \in Nat, NEW b \in Nat, NEW c \in Nat, a <= b
    PROVE  a * c <= b * c
<1>1. PICK d \in Nat : b = a + d
  <2>1. b - a \in Nat /\ b = a + (b - a)
    OBVIOUS
  <2> QED BY <2>1
<1>2. b * c = a * c + d * c
  BY <1>1, Distribute
<1>3. a * c \in Nat /\ d * c \in Nat
  BY ProductNat
<1> QED
  BY <1>2, <1>3

\* The blocks of one chunk and their overhead fill it.
LEMMA EachFills ==
    ASSUME plan \in Seq(Job), NEW j \in DOMAIN plan, plan[j].kind # "bootloader"
    PROVE  LET each   == EncrBlocks(j)
               actual == (ChunkSize(j) - Len(each) * Overhead) % WordModulus
           IN  /\ each \in Seq(Nat) /\ Len(each) \in Nat \ {0}
               /\ actual \in Nat \ {0} /\ actual + Len(each) * Overhead = ChunkSize(j)
               /\ ~Misfit(j) => each \in Seq(Nat \ {0}) /\ Total(each) = actual
<1> DEFINE U == UncutBlocks(j)
           each == EncrBlocks(j)
           O == Overhead
           C == ChunkSize(j)
           W == WordModulus
           e == LastBlock(j) % W
<1>1. /\ C \in Nat /\ O \in Nat \ {0} /\ O * O \in Nat /\ O * O < C /\ C < W /\ W \in Nat
  BY ChunkRoom
<1>2. U \in Seq(Nat \ {0}) /\ Taken(U, Len(U)) < C
  BY UncutFits
<1>3. U \in Seq(Nat) /\ Len(U) \in Nat /\ Len(U) \in 0 .. Len(U)
  BY <1>2
<1>4. each = Append(U, e)
  BY DEF EncrBlocks
<1>5. LastBlock(j) = C - Taken(U, Len(U)) - O
  BY DEF LastBlock
<1>6. PICK n \in Nat : n = Len(U)
  BY <1>3
<1>7. PICK T \in Nat : T = Total(U) /\ T >= n
  BY <1>2, <1>3, <1>6, SumsPositive DEF Total
<1>8. Taken(U, Len(U)) = T + n * O
  BY <1>6, <1>7 DEF Taken, Total
<1> HIDE DEF U, O, C
<1>9. n * O \in Nat
  BY <1>1, ProductNat
<1>10. PICK last \in Int : last = C - (T + n * O) - O /\ LastBlock(j) = last
  BY <1>1, <1>5, <1>8, <1>9
<1>11. e \in Nat
  BY <1>1, <1>10
<1> HIDE DEF e
<1>12. each \in Seq(Nat) /\ Len(each) = n + 1 /\ Total(each) = T + e
  BY <1>3, <1>4, <1>6, <1>7, <1>11, SumsAppended
<1> HIDE DEF each
<1>13. (n + 1) * O = n * O + O
  BY <1>1, Distribute
<1>14. C - (n + 1) * O >= 1
  <2>1. CASE n < O
    <3>1. (n + 1) * O <= O * O
      BY <1>1, <2>1, Grows
    <3> QED BY <1>1, <1>9, <1>13, <3>1
  <2>2. CASE n >= O
    <3>1. T + n * O < C
      BY <1>2, <1>8
    <3> QED BY <1>1, <1>7, <1>9, <1>13, <2>2, <3>1
  <2> QED BY <1>1, <2>1, <2>2
<1>15. PICK actual \in Nat \ {0} : actual = C - (n + 1) * O /\ actual < W
  BY <1>1, <1>9, <1>13, <1>14
<1>16. actual % W = actual
  BY <1>1, <1>15, SmallMod, SMTT(30)
<1>17. (C - Len(each) * O) % W = actual
  BY <1>12, <1>15, <1>16
<1>18. actual + Len(each) * O = C
  BY <1>1, <1>9, <1>12, <1>13, <1>15
<1>19. ASSUME ~Misfit(j) PROVE each \in Seq(Nat \ {0}) /\ Total(each) = actual
  <2>1. last > 0
    BY <1>10, <1>19 DEF Misfit
  <2>2. last < W
    BY <1>1, <1>9, <1>10
  <2>3. last % W = last
    BY <1>1, <1>10, <2>1, <2>2, SmallMod
  <2>4. e = last /\ e \in Nat \ {0}
    BY <1>10, <2>1, <2>3 DEF e
  <2>5. each \in Seq(Nat \ {0})
    BY <1>2, <1>4, <2>4
  <2>6. Total(each) = actual
    BY <1>1, <1>9, <1>10, <1>12, <1>13, <1>15, <2>4
  <2> QED BY <2>5, <2>6
<1> QED
  BY <1>12, <1>15, <1>17, <1>18, <1>19 DEF each, C, O

\* Cutting a list of blocks to a length.
LEMMA CoverExact ==
    ASSUME NEW b \in Seq(Nat), b # <<>>, NEW r \in Nat \ {0}
    PROVE  LET c == Cover(b, r)
           IN  /\ c \in Seq(Nat) /\ Len(c) \in 1 .. Len(b)
               /\ b \in Seq(Nat \ {0}) => c \in Seq(Nat \ {0})
               /\ r <= Total(b) => Total(c) = r
               /\ \A i \in 1 .. (Len(c) - 1) : c[i] = b[i]
<1> DEFINE enough == {i \in DOMAIN b : Sums(b)[i] >= r}
           last   == CHOOSE i \in enough : \A k \in enough : i <= k
<1>1. Len(b) \in Nat \ {0} /\ DOMAIN b = 1 .. Len(b)
  OBVIOUS
<1>2. \A i \in 0 .. Len(b) : Sums(b)[i] \in Nat
  BY SumsNat
<1>3. CASE enough = {}
  <2>1. Cover(b, r) = b
    BY <1>3 DEF Cover
  <2>2. Len(b) \in DOMAIN b /\ ~(Sums(b)[Len(b)] >= r)
    BY <1>1, <1>3
  <2>3. ~(r <= Total(b))
    BY <1>1, <1>2, <2>2 DEF Total
  <2> HIDE DEF enough
  <2> QED BY <1>1, <2>1, <2>3
<1>4. CASE enough # {}
  <2>1. \E i \in enough : \A k \in enough : i <= k
    <3> SUFFICES ASSUME \A i \in enough : \E k \in enough : ~(i <= k) PROVE FALSE
      OBVIOUS
    <3> DEFINE G == {i \in 0 .. Len(b) : \A k \in enough : ~(k <= i)}
    <3>1. 0 \in G
      BY <1>1
    <3>2. ASSUME NEW i \in 1 .. Len(b), i - 1 \in G PROVE i \in G
      <4> SUFFICES ASSUME NEW k \in enough, k <= i PROVE FALSE
        OBVIOUS
      <4>1. k = i
        BY <3>2, <1>1
      <4>2. PICK l \in enough : ~(k <= l)
        OBVIOUS
      <4>3. l <= i - 1
        BY <1>1, <4>1, <4>2
      <4> QED BY <3>2, <4>3
    <3> HIDE DEF G
    <3>3. \A i \in 0 .. Len(b) : i \in G
      BY <1>1, <3>1, <3>2, UpToN
    <3>4. PICK k \in enough : k \in 1 .. Len(b)
      BY <1>1, <1>4
    <3> QED BY <3>3, <3>4 DEF G
  <2>2. last \in enough /\ \A k \in enough : last <= k
    BY <2>1
  <2>3. last \in 1 .. Len(b) /\ Sums(b)[last] >= r
    BY <1>1, <2>2
  <2>4. Cover(b, r) = Append(SubSeq(b, 1, last - 1), r - Sums(b)[last - 1])
    BY <1>4 DEF Cover
  <2>5. Sums(b)[last - 1] \in Nat /\ Sums(b)[last - 1] < r
    <3>1. last - 1 \in 0 .. Len(b)
      BY <1>1, <2>3, SMTT(30)
    <3>2. CASE last = 1
      <4>1. Sums(b)[0] = 0 /\ last - 1 = 0
        BY <1>1, <3>2, SumsStep
      <4> HIDE DEF last
      <4> QED BY <4>1
    <3>3. CASE last # 1
      <4>1. last - 1 \in DOMAIN b /\ last - 1 \notin enough
        BY <1>1, <2>2, <2>3, <3>3
      <4> QED BY <1>2, <3>1, <4>1
    <3> QED BY <3>2, <3>3
  <2> HIDE DEF last, enough
  <2> DEFINE s == SubSeq(b, 1, last - 1)
             e == r - Sums(b)[last - 1]
  <2>6. e \in Nat \ {0}
    BY <2>5
  <2>7. /\ s \in Seq(Nat) /\ Len(s) = last - 1
        /\ \A i \in 1 .. (last - 1) : s[i] = b[i]
        /\ b \in Seq(Nat \ {0}) => s \in Seq(Nat \ {0})
    BY <1>1, <2>3
  <2> HIDE DEF s
  <2>8. Sums(s)[last - 1] = Sums(b)[last - 1]
    <3>1. last - 1 \in Nat /\ last - 1 <= Len(s) /\ last - 1 <= Len(b)
          /\ last - 1 \in 0 .. (last - 1) /\ Len(s) \in Nat
      BY <1>1, <2>3, <2>7
    <3>2. PICK n \in Nat : n = last - 1
      BY <3>1
    <3>3. \A i \in 0 .. n : Sums(s)[i] = Sums(b)[i]
      <4>1. /\ Len(b) \in Nat /\ Len(s) \in Nat /\ n <= Len(s) /\ n <= Len(b)
            /\ \A i \in 1 .. n : s[i] = b[i]
        BY <1>1, <2>7, <3>1, <3>2
      <4> QED BY <4>1, SumsAgree
    <3> QED BY <3>1, <3>2, <3>3
  <2>9. Total(s) = Sums(b)[last - 1]
    BY <2>7, <2>8 DEF Total
  <2>10. Total(Append(s, e)) = r
    <3>1. Total(Append(s, e)) = Total(s) + e
      BY <2>6, <2>7, SumsAppended
    <3> QED BY <2>5, <2>9, <3>1
  <2>11. Append(s, e) \in Seq(Nat) /\ Len(Append(s, e)) = last
    BY <2>3, <2>6, <2>7
  <2>12. b \in Seq(Nat \ {0}) => Append(s, e) \in Seq(Nat \ {0})
    BY <2>6, <2>7
  <2>13. \A i \in 1 .. (last - 1) : Append(s, e)[i] = b[i]
    BY <2>6, <2>7
  <2>14. Cover(b, r) = Append(s, e)
    BY <2>4 DEF s
  <2> HIDE DEF e
  <2> QED BY <2>3, <2>10, <2>11, <2>12, <2>13, <2>14
<1> QED
  BY <1>3, <1>4

\* Quotient and remainder of what is written as a multiple and a rest.
LEMMA RestOf ==
    ASSUME NEW m \in Nat \ {0}, NEW k \in Nat, NEW r \in 0 .. (m - 1)
    PROVE  (k * m + r) % m = r /\ (k * m + r) \div m = k
<1> DEFINE x == k * m + r
           q == x \div m
           s == x % m
<1>1. k * m \in Nat
  BY ProductNat
<1>2. x \in Nat
  BY <1>1
<1> HIDE DEF x
<1>3. q \in Int /\ s \in 0 .. (m - 1) /\ x = m * q + s
  BY <1>2
<1>4. PICK e \in Int : e = k - q
  BY <1>3
<1> HIDE DEF q, s
<1>5. k = q + e
  BY <1>3, <1>4
<1>6. k * m = m * q + m * e
  BY <1>3, <1>5, Distribute
<1>7. m * e = s - r
  <2>1. m * q \in Int /\ m * e \in Int
    BY <1>3
  <2>2. m * q + m * e + r = m * q + s
    BY <1>3, <1>6 DEF x
  <2> QED BY <1>3, <2>1, <2>2
<1>8. CASE e >= 1
  <2>1. m * e >= m
    BY <1>8
  <2> QED BY <1>3, <1>7, <2>1
<1>9. CASE e <= -1
  <2>1. m * e <= -m
    BY <1>9
  <2> QED BY <1>3, <1>7, <2>1
<1>10. CASE e = 0
  <2>1. s = r /\ q = k
    BY <1>3, <1>5, <1>7, <1>10
  <2> QED BY <2>1 DEF s, q, x
<1> QED
  BY <1>8, <1>9, <1>10

\* Copies of a list: after k of them the sum is k times its own.
LEMMA CopiesSum ==
    ASSUME NEW b \in Seq(Nat), b # <<>>, NEW n \in Nat
    PROVE  LET c == Copies(b, n)
           IN  /\ c \in Seq(Nat) /\ Len(c) = n * Len(b)
               /\ b \in Seq(Nat \ {0}) => c \in Seq(Nat \ {0})
               /\ \A k \in 0 .. n : /\ k * Len(b) \in 0 .. Len(c)
                                    /\ Sums(c)[k * Len(b)] = k * Total(b)
<1> DEFINE c == Copies(b, n)
<1>1. PICK m \in Nat \ {0} : m = Len(b)
  OBVIOUS
<1>2. n * m \in Nat
  BY ProductNat
<1>3. \A i \in 1 .. (n * m) : ((i - 1) % m) + 1 \in 1 .. m
  <2> SUFFICES ASSUME NEW i \in 1 .. (n * m) PROVE ((i - 1) % m) + 1 \in 1 .. m
    OBVIOUS
  <2>1. i - 1 \in Nat
    BY <1>2
  <2>2. (i - 1) % m \in 0 .. (m - 1)
    BY <2>1
  <2> QED BY <2>2
<1>4. c = [i \in 1 .. (n * m) |-> b[((i - 1) % m) + 1]]
  BY <1>1 DEF Copies
<1> HIDE DEF c
<1>5. \A i \in 1 .. m : b[i] \in Nat /\ (b \in Seq(Nat \ {0}) => b[i] \in Nat \ {0})
  BY <1>1
<1>6. c \in Seq(Nat) /\ Len(c) = n * m
  BY <1>2, <1>3, <1>4, <1>5
<1>7. ASSUME b \in Seq(Nat \ {0}) PROVE c \in Seq(Nat \ {0})
  BY <1>2, <1>3, <1>4, <1>5, <1>7
<1>8. Total(b) \in Nat /\ \A i \in 0 .. m : Sums(b)[i] \in Nat
  BY <1>1, SumsNat DEF Total
<1>9. \A k \in 0 .. n : k * m \in 0 .. Len(c)
  BY <1>2, <1>6, Grows, ProductNat
<1> DEFINE G == {k \in 0 .. n : Sums(c)[k * m] = k * Total(b)}
<1>10. 0 \in G
  <2>1. Sums(c)[0] = 0
    BY <1>2, <1>6, SumsStep, SMTT(30)
  <2> QED BY <1>8, <2>1
<1>11. ASSUME NEW k \in 1 .. n, k - 1 \in G PROVE k \in G
  <2>1. PICK l \in 0 .. (n - 1) : l = k - 1 /\ k = l + 1
    OBVIOUS
  <2>2. k * m = l * m + m /\ l * m \in Nat /\ k * m <= n * m
    <3>1. k * m = l * m + 1 * m
      BY <2>1, Distribute
    <3>2. k * m <= n * m
      BY Grows
    <3> QED BY <2>1, <3>1, <3>2, ProductNat
  <2>3. PICK s \in Nat : s = l * m
    BY <2>2
  <2> DEFINE H == {i \in 0 .. m : Sums(c)[s + i] = l * Total(b) + Sums(b)[i]}
  <2>4. l * Total(b) \in Nat
    BY <1>8, ProductNat
  <2>5. 0 \in H
    <3>1. Sums(b)[0] = 0
      BY <1>1, SumsStep
    <3>2. Sums(c)[s] = l * Total(b)
      BY <1>11, <2>1, <2>3
    <3> QED BY <2>3, <2>4, <3>1, <3>2
  <2>6. ASSUME NEW i \in 1 .. m, i - 1 \in H PROVE i \in H
    <3>1. PICK x \in 1 .. Len(c) : x = s + i /\ x - 1 = s + (i - 1)
      BY <1>6, <2>2, <2>3
    <3>2. Sums(c)[x] = Sums(c)[x - 1] + c[x]
      <4>1. x \in 0 .. Len(c) /\ x # 0 /\ Len(c) \in Nat
        BY <1>2, <1>6
      <4> QED BY <4>1, SumsStep
    <3>3. Sums(c)[x - 1] = l * Total(b) + Sums(b)[i - 1]
      BY <2>6, <3>1
    <3>4. (x - 1) % m = i - 1
      <4>1. PICK r \in 0 .. (m - 1) : r = i - 1
        OBVIOUS
      <4>2. (l * m + r) % m = r
        BY RestOf
      <4> QED BY <2>3, <3>1, <4>1, <4>2
    <3>5. c[x] = b[i]
      <4>1. c[x] = b[((x - 1) % m) + 1]
        BY <1>4, <1>6
      <4> QED BY <3>4, <4>1
    <3>6. Sums(b)[i] = Sums(b)[i - 1] + b[i]
      BY <1>1, SumsStep
    <3>7. Sums(b)[i - 1] \in Nat /\ b[i] \in Nat
      <4>1. i - 1 \in 0 .. m
        OBVIOUS
      <4> QED BY <1>5, <1>8, <4>1
    <3>8. Sums(c)[s + i] = l * Total(b) + Sums(b)[i]
      BY <2>4, <3>1, <3>2, <3>3, <3>5, <3>6, <3>7
    <3> QED BY <3>8
  <2> HIDE DEF H
  <2>7. \A i \in 0 .. m : i \in H
    BY <2>5, <2>6, UpToN
  <2>8. Sums(c)[s + m] = l * Total(b) + Total(b)
    BY <1>1, <2>7 DEF H, Total
  <2>9. k * Total(b) = l * Total(b) + 1 * Total(b)
    BY <1>8, <2>1, Distribute
  <2>10. Sums(c)[k * m] = k * Total(b)
    <3>1. k * m = s + m
      BY <2>2, <2>3
    <3>2. 1 * Total(b) = Total(b)
      BY <1>8
    <3> QED BY <2>8, <2>9, <3>1, <3>2
  <2> QED BY <2>10
<1> HIDE DEF G
<1>12. \A k \in 0 .. n : k \in G
  BY <1>10, <1>11, UpToN
<1> QED
  BY <1>1, <1>6, <1>7, <1>9, <1>12 DEF G, c

\* The empty list.
LEMMA EmptyTotal == Total(<<>>) = 0 /\ <<>> \in Seq(Nat) /\ <<>> \in Seq(Nat \ {0}) /\ Len(<<>>) = 0
<1>1. Len(<<>>) = 0 /\ <<>> \in Seq(Nat) /\ <<>> \in Seq(Nat \ {0})
  OBVIOUS
<1>2. Sums(<<>>)[0] = 0
  BY <1>1, SumsStep
<1> QED
  BY <1>1, <1>2 DEF Total

\* Quotient and remainder of a division.
LEMMA Division ==
    ASSUME NEW a \in Nat, NEW d \in Nat \ {0}
    PROVE  /\ a \div d \in Nat /\ a % d \in 0 .. (d - 1)
           /\ a = (a \div d) * d + (a % d) /\ (a \div d) * d \in Nat
<1>1. a = d * (a \div d) + (a % d) /\ a \div d \in Nat /\ a % d \in 0 .. (d - 1)
  OBVIOUS
<1>2. (a \div d) * d = d * (a \div d) /\ (a \div d) * d \in Nat
  BY <1>1
<1> QED
  BY <1>1, <1>2

\* The blocks of a partition that is not a bootloader: whole chunks, and the rest.
LEMMA ChunkedBlocks ==
    ASSUME plan \in Seq(Job), NEW j \in DOMAIN plan, plan[j].kind # "bootloader",
           NEW L \in Nat \ {0}
    PROVE  LET B      == BlocksList(j, L)
               m      == Len(EncrBlocks(j))
               actual == (ChunkSize(j) - m * Overhead) % WordModulus
           IN  /\ B \in Seq(Nat) /\ Len(B) \in Nat \ {0}
               /\ m \in Nat \ {0} /\ actual \in Nat \ {0}
               /\ actual + m * Overhead = ChunkSize(j)
               /\ ~Misfit(j) =>
                     /\ B \in Seq(Nat \ {0}) /\ Total(B) = L
                     /\ \A k \in 0 .. (L \div actual) :
                           /\ k * m \in 0 .. Len(B)
                           /\ Sums(B)[k * m] = k * actual
               /\ Len(B) - (L \div actual) * m \in
                     IF L % actual = 0 THEN {0} ELSE 1 .. m
<1> DEFINE each == EncrBlocks(j)
           m == Len(each)
           actual == (ChunkSize(j) - m * Overhead) % WordModulus
           q == L \div actual
           r == L % actual
           rest == IF r = 0 THEN <<>> ELSE Cover(each, r)
           front == Copies(each, q)
           B == BlocksList(j, L)
<1>1. /\ each \in Seq(Nat) /\ m \in Nat \ {0}
      /\ actual \in Nat \ {0} /\ actual + m * Overhead = ChunkSize(j)
      /\ ~Misfit(j) => each \in Seq(Nat \ {0}) /\ Total(each) = actual
  BY EachFills
<1>2. B = front \o rest
  BY DEF BlocksList
<1> HIDE DEF B, each, actual
<1>3. /\ q \in Nat /\ r \in 0 .. (actual - 1) /\ L = q * actual + r
      /\ q * actual \in Nat
  BY <1>1, Division
<1> HIDE DEF q, r
<1>4. each # <<>>
  BY <1>1
<1>5. /\ front \in Seq(Nat) /\ Len(front) = q * m
      /\ each \in Seq(Nat \ {0}) => front \in Seq(Nat \ {0})
      /\ \A k \in 0 .. q : k * m \in 0 .. Len(front) /\ Sums(front)[k * m] = k * Total(each)
  BY <1>1, <1>3, <1>4, CopiesSum
<1> HIDE DEF front
<1>6. /\ rest \in Seq(Nat) /\ Len(rest) \in Nat
      /\ each \in Seq(Nat \ {0}) => rest \in Seq(Nat \ {0})
      /\ Len(rest) \in IF r = 0 THEN {0} ELSE 1 .. m
      /\ r <= Total(each) => Total(rest) = r
  <2>1. CASE r = 0
    BY <1>3, <2>1, EmptyTotal
  <2>2. CASE r # 0
    <3>1. r \in Nat \ {0} /\ rest = Cover(each, r)
      BY <1>3, <2>2
    <3>2. /\ rest \in Seq(Nat) /\ Len(rest) \in 1 .. Len(each)
          /\ each \in Seq(Nat \ {0}) => rest \in Seq(Nat \ {0})
          /\ r <= Total(each) => Total(rest) = r
      BY <1>1, <1>4, <3>1, CoverExact
    <3> HIDE DEF rest
    <3>3. Len(rest) \in 1 .. m /\ Len(rest) \in Nat
      BY <3>2, <1>1
    <3> QED BY <2>2, <3>2, <3>3
  <2> QED BY <2>1, <2>2
<1> HIDE DEF rest
<1>7. /\ B \in Seq(Nat) /\ Len(B) = Len(front) + Len(rest)
      /\ \A i \in 0 .. Len(front) : Sums(B)[i] = Sums(front)[i]
      /\ \A i \in 0 .. Len(rest) : Sums(B)[Len(front) + i] = Total(front) + Sums(rest)[i]
  BY <1>2, <1>5, <1>6, SumsJoined
<1>8. Len(B) \in Nat \ {0}
  <2>1. CASE r # 0
    <3>1. Len(rest) \in 1 .. m
      BY <1>6, <2>1
    <3> QED BY <1>1, <1>5, <1>6, <1>7, <3>1
  <2>2. CASE r = 0
    <3>1. q # 0
      BY <1>1, <1>3, <2>2
    <3>2. q * m >= 1 * m /\ q * m \in Nat
      BY <1>1, <1>3, <3>1, Grows, SMTT(30)
    <3> QED BY <1>1, <1>5, <1>6, <1>7, <3>2
  <2> QED BY <2>1, <2>2
<1>9. ASSUME ~Misfit(j)
      PROVE  /\ B \in Seq(Nat \ {0}) /\ Total(B) = L
             /\ \A k \in 0 .. q : k * m \in 0 .. Len(B) /\ Sums(B)[k * m] = k * actual
  <2>1. each \in Seq(Nat \ {0}) /\ Total(each) = actual
    BY <1>1, <1>9
  <2>2. front \in Seq(Nat \ {0}) /\ rest \in Seq(Nat \ {0})
    BY <1>5, <1>6, <2>1
  <2>3. B \in Seq(Nat \ {0})
    BY <1>2, <2>2
  <2>4. Total(rest) = r
    BY <1>1, <1>3, <1>6, <2>1
  <2>5. Total(front) = q * actual
    <3>1. q \in 0 .. q
      BY <1>3
    <3> QED BY <1>5, <2>1, <3>1 DEF Total
  <2>6. Total(B) = q * actual + r
    <3>1. Len(rest) \in 0 .. Len(rest)
      BY <1>6
    <3>2. Sums(B)[Len(front) + Len(rest)] = Total(front) + Sums(rest)[Len(rest)]
      BY <1>7, <3>1
    <3> QED BY <1>7, <2>4, <2>5, <3>2 DEF Total
  <2>7. \A k \in 0 .. q : k * m \in 0 .. Len(B) /\ Sums(B)[k * m] = k * actual
    BY <1>5, <1>6, <1>7, <2>1
  <2> QED BY <1>3, <2>3, <2>6, <2>7
<1>10. Len(B) - q * m \in IF r = 0 THEN {0} ELSE 1 .. m
  <2>1. Len(B) - q * m = Len(rest)
    <3>1. Len(front) \in Nat
      BY <1>5
    <3>2. q * m \in Int
      BY <1>5, <3>1
    <3> QED BY <1>5, <1>6, <1>7, <3>2
  <2> QED BY <1>6, <2>1
<1> QED
  BY <1>1, <1>7, <1>8, <1>9, <1>10 DEF B, each, actual, q, r

\* Rounding a quotient up covers what is divided.
LEMMA RoundedUpCovers ==
    ASSUME NEW a \in Nat \ {0}, NEW d \in Nat \ {0}
    PROVE  /\ RoundedUp(a, d) \in Nat \ {0} /\ a <= RoundedUp(a, d) * d
           /\ RoundedUp(a, d) * d < a + d
<1> DEFINE x == a + d - 1
           q == x \div d
<1>1. x \in Nat /\ x >= d
  OBVIOUS
<1> HIDE DEF x
<1>2. q \in Nat /\ x % d \in 0 .. (d - 1) /\ x = d * q + (x % d) /\ d * q = q * d
  BY <1>1
<1> HIDE DEF q
<1>3. a <= q * d /\ q * d < a + d
  BY <1>2 DEF x
<1>4. q # 0
  <2>1. q = 0 => q * d = 0
    BY <1>2
  <2> QED BY <1>3, <2>1
<1> QED
  BY <1>2, <1>3, <1>4 DEF RoundedUp, q, x

\* The blocks of a bootloader: the user's, and as many of the default size as are left.
LEMMA BootloaderBlocks ==
    ASSUME plan \in Seq(Job), NEW j \in DOMAIN plan, plan[j].kind = "bootloader",
           NEW L \in Nat \ {0}
    PROVE  LET B == BlocksList(j, L)
           IN  /\ B \in Seq(Nat \ {0}) /\ Len(B) \in Nat \ {0}
               /\ L <= Total(B)
               /\ Total(B) = Total(plan[j].blocks) \/ Total(B) <= L + plan[j].default
<1> DEFINE user == plan[j].blocks
           def == plan[j].default
           left == L - Total(user)
           rest == IF left <= 0 THEN <<>>
                   ELSE IF def = 0 THEN <<left>>
                   ELSE [i \in 1 .. RoundedUp(left, def) |-> def]
           B == BlocksList(j, L)
<1>1. user \in Seq(Nat \ {0}) /\ def \in Nat
  BY JobFields
<1>2. user \in Seq(Nat) /\ Len(user) \in Nat /\ Len(user) \in 0 .. Len(user)
  BY <1>1
<1>3. Total(user) \in Nat /\ (Len(user) = 0 => Total(user) = 0)
  <2>1. Total(user) \in Nat
    BY <1>2, SumsNat DEF Total
  <2>2. Len(user) = 0 => Sums(user)[Len(user)] = 0
    BY <1>2, SumsStep
  <2> QED BY <2>1, <2>2 DEF Total
<1>4. B = user \o rest
  BY DEF BlocksList, EncrBlocks
<1> HIDE DEF B, user, def
<1>5. left \in Int
  BY <1>3
<1>6. rest \in Seq(Nat \ {0}) /\ left <= Total(rest) /\ Total(rest) \in Nat
      /\ (left > 0 => Len(rest) # 0)
      /\ (Total(rest) = 0 \/ Total(rest) <= left + def)
  <2>1. CASE left <= 0
    BY <1>5, <2>1, EmptyTotal
  <2>2. CASE left > 0 /\ def = 0
    <3>1. rest = <<left>>
      BY <1>5, <2>2
    <3> HIDE DEF left, rest
    <3>2. rest \in Seq(Nat) /\ rest \in Seq(Nat \ {0}) /\ Len(rest) = 1 /\ rest[1] = left
      BY <1>5, <2>2, <3>1
    <3>3. Sums(rest)[1] = Sums(rest)[0] + left /\ Sums(rest)[0] = 0
      <4>1. Len(rest) \in Nat /\ 0 \in 0 .. Len(rest) /\ 1 \in 0 .. Len(rest)
        BY <3>2
      <4>2. \A i \in 0 .. Len(rest) : Sums(rest)[i] = IF i = 0 THEN 0 ELSE Sums(rest)[i - 1] + rest[i]
        BY <4>1, SumsStep
      <4>3. Sums(rest)[0] = 0 /\ Sums(rest)[1] = Sums(rest)[1 - 1] + rest[1]
        BY <4>1, <4>2
      <4> QED BY <3>2, <4>3
    <3> QED BY <1>1, <1>5, <2>2, <3>2, <3>3 DEF Total
  <2>3. CASE left > 0 /\ def # 0
    <3> DEFINE n == RoundedUp(left, def)
    <3>1. n \in Nat \ {0} /\ left <= n * def /\ n * def < left + def
      <4>1. left \in Nat \ {0} /\ def \in Nat \ {0}
        BY <1>1, <1>5, <2>3
      <4> HIDE DEF left
      <4> QED BY <4>1, RoundedUpCovers
    <3>2. rest = [i \in 1 .. n |-> def]
      BY <1>5, <2>3
    <3> HIDE DEF n, rest, left
    <3>3. Len(rest) = n /\ \A i \in 0 .. n : Sums(rest)[i] = i * def
      BY <1>1, <3>1, <3>2, SumsOfEqual
    <3>4. rest \in Seq(Nat \ {0})
      BY <1>1, <2>3, <3>1, <3>2
    <3>5. Total(rest) = n * def /\ n * def \in Nat
      BY <1>1, <3>1, <3>3 DEF Total
    <3>6. left <= Total(rest) /\ Total(rest) \in Nat /\ Total(rest) <= left + def
      <4>1. left \in Int /\ def \in Nat
        BY <1>1, <1>5
      <4> QED BY <3>1, <3>5, <4>1
    <3>7. Len(rest) # 0
      BY <3>1, <3>3
    <3> QED BY <3>4, <3>6, <3>7
  <2>4. left <= 0 \/ (left > 0 /\ def = 0) \/ (left > 0 /\ def # 0)
    <3> HIDE DEF left
    <3> QED BY <1>5
  <2> HIDE DEF left, rest
  <2> QED BY <2>1, <2>2, <2>3, <2>4
<1> HIDE DEF rest
<1>7. /\ Len(B) = Len(user) + Len(rest)
      /\ Sums(B)[Len(user) + Len(rest)] = Total(user) + Sums(rest)[Len(rest)]
  <2>1. rest \in Seq(Nat) /\ Len(rest) \in 0 .. Len(rest)
    BY <1>6
  <2> QED BY <1>2, <1>4, <2>1, SumsJoined
<1>8. Total(B) = Total(user) + Total(rest)
  BY <1>7 DEF Total
<1>9. B \in Seq(Nat \ {0})
  BY <1>1, <1>4, <1>6
<1>10. Len(B) # 0
  <2>1. CASE left > 0
    BY <1>2, <1>6, <1>7, <2>1
  <2>2. CASE ~(left > 0)
    <3>1. Total(user) # 0
      BY <1>3, <2>2
    <3> QED BY <1>2, <1>3, <1>6, <1>7, <3>1
  <2> QED BY <2>1, <2>2
<1>11. Total(B) = Total(user) \/ Total(B) <= L + def
  BY <1>1, <1>3, <1>6, <1>8
<1> QED
  BY <1>3, <1>6, <1>8, <1>9, <1>10, <1>11 DEF B, user, def

-----------------------------------------------------------------------------
(* Types.                                                                    *)

\* The next step, and the blocks it works on.
PositionInv ==
    /\ \E input \in Inputs : plan = input.plan
    /\ job \in DOMAIN plan /\ stream \in DOMAIN plan[job].lengths
    /\ phase \in {"start", "file", "read", "pairs", "repeats", "header", "block", "hash"}
    /\ status \in {"building", "done", "error", "crashed"}
    /\ phase \notin {"start", "hash"} => plan[job].encrypted
    /\ IF phase # "start" /\ plan[job].encrypted
       THEN blocksList = BlocksList(job, Total(plan[job].lengths))
       ELSE blocksList \in Seq(Nat)

Contexts ==
    [aesKey : KeyBytes \cup {Null}, aesIv : KeyBytes \cup {Null}, seed : Nat, fid : Nat,
     seedExists : BOOLEAN, fidExists : BOOLEAN]

\* The key files and what has been taken from them; a pair needs a key.
KeysInv ==
    /\ IsDisk(disk)
    /\ usedFiles \subseteq Files
    /\ key0Of \in [Sources -> KeyBytes \cup {Null}]
    /\ ctx \in Contexts
    /\ aesKeyVec \in Seq(KeyTexts) /\ aesIvVec \in Seq(KeyTexts)
    /\ fresh \in Nat
    /\ phase \in {"pairs", "repeats", "header", "block"} => ctx.aesKey # Null

CountsInv == blkPtr \in Nat /\ bytesWritten \in Nat /\ nextBlkSize \in Nat

TypeInv == PositionInv /\ KeysInv /\ CountsInv

\* The plan is one of the inputs, and every partition of it has a length.
LEMMA PlanFacts ==
    ASSUME PositionInv
    PROVE  /\ plan \in Seq(Job) /\ job \in DOMAIN plan
           /\ \A j \in DOMAIN plan :
                 /\ plan[j].lengths \in Seq(Nat \ {0}) /\ Len(plan[j].lengths) \in Nat \ {0}
                 /\ plan[j].files \in Seq(Files)
                 /\ Len(plan[j].files) = Len(plan[j].lengths)
                 /\ Total(plan[j].lengths) \in Nat \ {0}
<1>1. PICK input \in Inputs : plan = input.plan
  BY DEF PositionInv
<1>2. /\ plan \in Seq(Job)
      /\ \A j \in DOMAIN plan : plan[j].lengths # <<>> /\ Len(plan[j].files) = Len(plan[j].lengths)
  BY <1>1, InputsAssumption
<1>3. ASSUME NEW j \in DOMAIN plan
      PROVE  /\ plan[j].lengths \in Seq(Nat \ {0}) /\ Len(plan[j].lengths) \in Nat \ {0}
             /\ plan[j].files \in Seq(Files)
             /\ Total(plan[j].lengths) \in Nat \ {0}
  <2>1. plan[j].lengths \in Seq(Nat \ {0}) /\ plan[j].files \in Seq(Files)
    BY <1>2, JobFields
  <2>2. plan[j].lengths # <<>>
    BY <1>2
  <2> DEFINE s == plan[j].lengths
  <2> HIDE DEF s
  <2>3. s \in Seq(Nat \ {0}) /\ s # <<>>
    BY <2>1, <2>2 DEF s
  <2>4. Len(s) \in Nat \ {0} /\ Len(s) \in 0 .. Len(s)
    BY <2>3
  <2>5. Sums(s)[Len(s)] \in Nat /\ Sums(s)[Len(s)] >= Len(s)
    BY <2>3, <2>4, SumsPositive
  <2> QED BY <2>1, <2>4, <2>5 DEF s, Total
<1> QED
  BY <1>2, <1>3 DEF PositionInv

\* Every list of blocks has blocks, and they are natural numbers.
LEMMA BlocksListType ==
    ASSUME plan \in Seq(Job), NEW j \in DOMAIN plan, NEW L \in Nat \ {0}
    PROVE  BlocksList(j, L) \in Seq(Nat) /\ Len(BlocksList(j, L)) \in Nat \ {0}
<1>1. CASE plan[j].kind = "bootloader"
  <2>1. BlocksList(j, L) \in Seq(Nat \ {0}) /\ Len(BlocksList(j, L)) \in Nat \ {0}
    BY <1>1, BootloaderBlocks
  <2> QED BY <2>1
<1>2. CASE plan[j].kind # "bootloader"
  BY <1>2, ChunkedBlocks
<1> QED
  BY <1>1, <1>2

\* The blocks of the partition that is built are those of BlocksList.
LEMMA ListType ==
    ASSUME PositionInv
    PROVE  /\ blocksList \in Seq(Nat)
           /\ phase \notin {"start", "hash"} =>
                 /\ Len(blocksList) \in Nat \ {0}
                 /\ blocksList = BlocksList(job, Total(plan[job].lengths))
<1>1. /\ plan \in Seq(Job) /\ job \in DOMAIN plan
      /\ Total(plan[job].lengths) \in Nat \ {0}
  BY PlanFacts
<1>2. CASE phase # "start" /\ plan[job].encrypted
  <2>1. blocksList = BlocksList(job, Total(plan[job].lengths))
    BY <1>2 DEF PositionInv
  <2>2. blocksList \in Seq(Nat) /\ Len(blocksList) \in Nat \ {0}
    BY <1>1, <2>1, BlocksListType
  <2> QED BY <2>1, <2>2
<1>3. CASE ~(phase # "start" /\ plan[job].encrypted)
  BY <1>3 DEF PositionInv
<1> QED
  BY <1>2, <1>3

\* The part that is encrypted has a file and data, and two pairs at least:
\* that of the secure header and that of its first block.
LEMMA FileType ==
    ASSUME PositionInv
    PROVE  /\ File \in Files /\ Source \in Sources
           /\ InLen \in Nat \ {0} /\ Pairs \in Nat \ {0}
           /\ phase \notin {"start", "hash"} => Pairs >= 2
<1>1. /\ plan \in Seq(Job) /\ job \in DOMAIN plan
      /\ plan[job].lengths \in Seq(Nat \ {0}) /\ plan[job].files \in Seq(Files)
      /\ Len(plan[job].files) = Len(plan[job].lengths)
  BY PlanFacts
<1>2. stream \in DOMAIN plan[job].lengths
  BY DEF PositionInv
<1>3. Source \in Sources
  BY <1>1, JobFields DEF Source
<1>4. File \in Files
  BY <1>1, <1>2 DEF File
<1>5. InLen \in Nat \ {0}
  BY <1>1, <1>2 DEF InLen
<1>6. Pairs \in Nat \ {0} /\ (phase \notin {"start", "hash"} => Pairs >= 2)
  BY ListType DEF Pairs
<1> QED
  BY <1>3, <1>4, <1>5, <1>6

\* The place in the plan that the sum of its lengths and the list depend on.
LEMMA PositionStep ==
    ASSUME PositionInv, Next
    PROVE  PositionInv'
<1>0. UNCHANGED plan
  BY DEF Next, ReadKeys, PreparePairs, Encrypt, RefuseBlocks, StartJob, GenerateKeyFile,
         KeyFileExists, ReadKeyFile, RefuseKeyFile, NoKeyToCopy, TakePairs, TooFewPairs,
         DerivePairs, CheckPairs, RefusePairs, EncryptHeader, EncryptBlock, Overrun,
         EndStream, RefuseLength, StartPmcData, NextJob, Fail, inputs
<1>1. /\ plan \in Seq(Job) /\ job \in DOMAIN plan
      /\ \A j \in DOMAIN plan : Len(plan[j].lengths) \in Nat \ {0} /\ plan[j].lengths \in Seq(Nat \ {0})
  BY PlanFacts
<1>2. \A j, L : BlocksList(j, L)' = BlocksList(j, L)
  BY <1>0 DEF BlocksList, EncrBlocks, ChunkSize, Signed, LastBlock, UncutBlocks, WholeBlocks,
              DefaultBlocks
<1>3. blocksList \in Seq(Nat)
  BY ListType
<1>4. CASE \/ RefuseBlocks \/ KeyFileExists \/ RefuseKeyFile \/ NoKeyToCopy
           \/ TooFewPairs \/ RefusePairs \/ Overrun \/ RefuseLength
  <2>1. UNCHANGED <<position, blocksList>> /\ status' \in {"error", "crashed"}
    BY <1>4 DEF RefuseBlocks, KeyFileExists, RefuseKeyFile, NoKeyToCopy, TooFewPairs,
                RefusePairs, Overrun, RefuseLength, Fail
  <2> QED BY <1>0, <1>2, <2>1 DEF PositionInv, position
<1>5. CASE \/ GenerateKeyFile \/ ReadKeyFile \/ TakePairs \/ DerivePairs \/ CheckPairs
           \/ EncryptHeader \/ EncryptBlock
  <2>1. /\ UNCHANGED <<job, stream, status, blocksList>>
        /\ phase' \in {"read", "pairs", "repeats", "header", "block"}
        /\ phase \notin {"start", "hash"}
    BY <1>5 DEF GenerateKeyFile, ReadKeyFile, TakePairs, DerivePairs, CheckPairs,
                EncryptHeader, EncryptBlock, Go, At, KeyFileThere, position
  <2>2. plan[job].encrypted
    BY <2>1 DEF PositionInv
  <2> QED BY <1>0, <1>2, <2>1, <2>2 DEF PositionInv
<1>6. CASE EndStream
  <2>1. /\ UNCHANGED <<job, stream, status, blocksList>>
        /\ phase' = "hash" /\ phase = "block"
    BY <1>6 DEF EndStream, Go, At
  <2>2. plan[job].encrypted
    BY <2>1 DEF PositionInv
  <2> QED BY <1>0, <1>2, <2>1, <2>2 DEF PositionInv
<1>7. CASE StartJob
  <2>1. /\ UNCHANGED <<job, stream, status>>
        /\ IF plan[job].encrypted
           THEN blocksList' = BlocksList(job, Total(plan[job].lengths)) /\ phase' = "file"
           ELSE blocksList' = <<>> /\ phase' = "hash"
    BY <1>7 DEF StartJob, Go
  <2>2. CASE plan[job].encrypted
    BY <1>0, <1>2, <2>1, <2>2 DEF PositionInv
  <2>3. CASE ~plan[job].encrypted
    <3>1. blocksList' \in Seq(Nat) /\ phase' = "hash" /\ ~plan'[job'].encrypted
      BY <1>0, <2>1, <2>3, EmptyTotal
    <3> QED BY <1>0, <2>1, <3>1 DEF PositionInv
  <2> QED BY <2>2, <2>3
<1>8. CASE StartPmcData
  <2>1. /\ UNCHANGED <<job, status, blocksList>> /\ phase = "hash" /\ plan[job].encrypted
        /\ stream' = stream + 1 /\ stream < Len(plan[job].lengths) /\ phase' = "file"
    BY <1>8 DEF StartPmcData, At
  <2>2. stream' \in DOMAIN plan[job].lengths
    BY <1>1, <2>1 DEF PositionInv
  <2> QED BY <1>0, <1>2, <2>1, <2>2 DEF PositionInv
<1>9. CASE NextJob
  <2>1. CASE job = Len(plan)
    <3>1. UNCHANGED <<job, stream, phase, blocksList>> /\ status' = "done"
      BY <1>9, <2>1 DEF NextJob, position
    <3> QED BY <1>0, <1>2, <3>1 DEF PositionInv
  <2>2. CASE job # Len(plan)
    <3>1. job' = job + 1 /\ stream' = 1 /\ phase' = "start" /\ UNCHANGED <<status, blocksList>>
      BY <1>9, <2>2 DEF NextJob
    <3>2. job' \in DOMAIN plan
      BY <1>1, <2>2, <3>1
    <3>3. stream' \in DOMAIN plan[job'].lengths
      BY <1>1, <3>1, <3>2
    <3> QED BY <1>0, <1>3, <3>1, <3>2, <3>3 DEF PositionInv
  <2> QED BY <2>1, <2>2
<1> QED
  BY <1>4, <1>5, <1>6, <1>7, <1>8, <1>9 DEF Next, ReadKeys, PreparePairs, Encrypt

\* A new context has neither key nor IV.
LEMMA FreshContextType ==
    FreshContext \in Contexts /\ FreshContext.aesKey = Null /\ FreshContext.aesIv = Null
BY DEF FreshContext, Contexts, NoSeed

\* What a context holds.
LEMMA ContextFields ==
    ASSUME NEW c \in Contexts
    PROVE  /\ c.aesKey \in KeyBytes \cup {Null} /\ c.aesIv \in KeyBytes \cup {Null}
           /\ c.seed \in Nat /\ c.fid \in Nat
BY DEF Contexts

\* Outputs of the KDF are keys, and the texts of keys, and none is the missing key.
LEMMA KDFType ==
    ASSUME NEW s \in Nat, NEW f \in Nat, NEW x \in Nat
    PROVE  /\ DerivedBytes(s, f, x) \in KeyBytes /\ DerivedBytes(s, f, x) # Null
           /\ TextOf(DerivedBytes(s, f, x)) \in KeyTexts
           /\ TextOf(DerivedBytes(s, f, x)).bytes = DerivedBytes(s, f, x)
           /\ GeneratedText(s, f, x) \in KeyTexts
<1>1. \A w \in BOOLEAN : <<s, f, x, w>> \in KeyBytes
  BY DEF KeyBytes
<1>2. DerivedBytes(s, f, x) # Null
  BY DEF DerivedBytes, Null
<1> QED
  BY <1>1, <1>2 DEF DerivedBytes, GeneratedText, TextOf, KeyTexts

\* The bytes of a key, and the text of the swapped bytes, which the context lends.
LEMMA KeyTextsType ==
    /\ \A text \in KeyTexts : text.bytes \in KeyBytes
    /\ \A key \in KeyBytes : key # Null /\ TextOf(Swapped(key)) \in KeyTexts
    /\ \A key \in KeyBytes, upper \in BOOLEAN : [bytes |-> key, upper |-> upper] \in KeyTexts
<1>1. ASSUME NEW key \in KeyBytes PROVE key # Null /\ Swapped(key) \in KeyBytes
  <2>1. key[1] \in Nat /\ key[2] \in Nat /\ key[3] \in Nat
    BY DEF KeyBytes
  <2>2. PICK w \in BOOLEAN : w = ~key[4]
    OBVIOUS
  <2>3. Swapped(key) = <<key[1], key[2], key[3], w>>
    BY <2>2 DEF Swapped
  <2>4. Swapped(key) \in KeyBytes
    BY <2>1, <2>3 DEF KeyBytes
  <2>5. key # Null
    BY SMTT(30) DEF KeyBytes, Null
  <2> QED
    BY <2>4, <2>5
<1> QED
  BY <1>1 DEF KeyTexts, TextOf

\* A key vector that is filled up with outputs of the KDF.
LEMMA FilledType ==
    ASSUME NEW v \in Seq(KeyTexts), NEW s \in Nat, NEW f \in Nat, NEW n \in Nat
    PROVE  LET w == [x \in 1 .. n |-> IF x \in DOMAIN v THEN v[x] ELSE TextOf(DerivedBytes(s, f, x - Len(v) - 1))]
           IN  w \in Seq(KeyTexts) /\ Len(w) = n
<1> DEFINE w == [x \in 1 .. n |-> IF x \in DOMAIN v THEN v[x] ELSE TextOf(DerivedBytes(s, f, x - Len(v) - 1))]
<1>1. ASSUME NEW x \in 1 .. n PROVE w[x] \in KeyTexts
  <2>1. CASE x \in DOMAIN v
    BY <2>1
  <2>2. CASE x \notin DOMAIN v
    <3>1. x - Len(v) - 1 \in Nat
      BY <2>2
    <3>2. TextOf(DerivedBytes(s, f, x - Len(v) - 1)) \in KeyTexts
      BY <3>1, KDFType
    <3> QED BY <2>2, <3>2
  <2> QED BY <2>1, <2>2
<1> HIDE DEF w
<1>2. DOMAIN w = 1 .. n
  BY DEF w
<1>3. w = [x \in 1 .. n |-> w[x]]
  BY DEF w
<1>4. w \in Seq(KeyTexts)
  BY <1>1, <1>3
<1>5. Len(w) = n
  BY <1>2, <1>4
<1> QED
  BY <1>4, <1>5 DEF w

\* The first keys of a file, as many as there are pairs to use.
LEMMA FirstOfType ==
    ASSUME NEW T, NEW v \in Seq(T), Pairs \in Nat \ {0}
    PROVE  /\ FirstOf(v) \in Seq(T)
           /\ Len(FirstOf(v)) = Lesser(Pairs, Len(v))
           /\ v = <<>> => FirstOf(v) = <<>>
           /\ v # <<>> => FirstOf(v) # <<>> /\ FirstOf(v)[1] = v[1]
<1> DEFINE n == Lesser(Pairs, Len(v))
<1>1. n \in Nat /\ n <= Len(v) /\ Len(v) \in Nat /\ n <= Pairs
  BY DEF Lesser
<1>2. Len(v) = 0 => n = 0
  BY <1>1
<1>3. Len(v) # 0 => n # 0
  BY <1>1 DEF Lesser
<1>4. FirstOf(v) = [x \in 1 .. n |-> v[x]]
  BY DEF FirstOf
<1> HIDE DEF n
<1>5. \A x \in 1 .. n : v[x] \in T
  BY <1>1
<1>6. FirstOf(v) \in Seq(T) /\ Len(FirstOf(v)) = n
  BY <1>1, <1>4, <1>5
<1> QED
  BY <1>1, <1>2, <1>3, <1>4, <1>6 DEF n

\* What a key file of the directory holds.
LEMMA KeyFileFields ==
    ASSUME IsDisk(disk), NEW f \in DOMAIN disk
    PROVE  /\ disk[f] \in KeyFile
           /\ disk[f].keys \in Seq(KeyTexts) /\ disk[f].ivs \in Seq(KeyTexts)
           /\ disk[f].seed \in Nat /\ disk[f].fid \in Nat
<1>1. disk[f] \in KeyFile
  BY DEF IsDisk
<1> QED
  BY <1>1 DEF KeyFile

\* What is read from a file is a context again.
LEMMA ContextAfterType ==
    ASSUME ctx \in Contexts, NEW f \in KeyFile
    PROVE  ContextAfter(f) \in Contexts
<1>1. f.keys \in Seq(KeyTexts) /\ f.ivs \in Seq(KeyTexts) /\ f.seed \in Nat /\ f.fid \in Nat
  BY DEF KeyFile
<1>2. /\ f.keys # <<>> => f.keys[1].bytes \in KeyBytes
      /\ f.ivs # <<>> => f.ivs[1].bytes \in KeyBytes
  BY <1>1, KeyTextsType
<1>3. /\ ctx.aesKey \in KeyBytes \cup {Null} /\ ctx.aesIv \in KeyBytes \cup {Null}
      /\ ctx.seed \in Nat /\ ctx.fid \in Nat
      /\ ctx.seedExists \in BOOLEAN /\ ctx.fidExists \in BOOLEAN
  BY DEF Contexts
<1>4. (ctx.seedExists \/ f.seed # NoSeed) \in BOOLEAN /\ (ctx.fidExists \/ f.fid # NoSeed) \in BOOLEAN
  OBVIOUS
<1> QED
  BY <1>1, <1>2, <1>3, <1>4 DEF ContextAfter, Contexts

\* A generated key file is a key file, and its context is one.
LEMMA GenerateKeys ==
    ASSUME PositionInv, KeysInv, GenerateKeyFile
    PROVE  KeysInv'
<1> DEFINE key0 == IF key0Of[Source] # Null THEN key0Of[Source] ELSE ctx.aesKey
           pair == [x \in 1 .. Pairs |-> GeneratedText(fresh, fresh, x - 1)]
           new  == [keys |-> WithFirstKey(pair, key0), ivs |-> pair, seed |-> NoSeed,
                    fid |-> NoSeed, fidFirst |-> FALSE]
<1>1. File \in Files /\ Source \in Sources /\ Pairs \in Nat \ {0}
  BY FileType
<1>2. key0 \in KeyBytes \cup {Null}
  BY <1>1, ContextFields DEF KeysInv
<1>3. fresh \in Nat
  BY DEF KeysInv
<1>4. \A x \in 1 .. Pairs : GeneratedText(fresh, fresh, x - 1) \in KeyTexts
  BY <1>3, KDFType
<1>5. pair \in Seq(KeyTexts)
  BY <1>1, <1>4
<1> HIDE DEF key0
<1>6. WithFirstKey(pair, key0) \in Seq(KeyTexts)
  <2>1. CASE key0 = Null
    BY <1>5, <2>1 DEF WithFirstKey
  <2>2. CASE key0 # Null
    <3> DEFINE first == [bytes |-> key0, upper |-> TRUE]
               w == [pair EXCEPT ![1] = first]
    <3>0. first \in KeyTexts
      BY <1>2, <2>2, KeyTextsType
    <3>1. w = [x \in 1 .. Pairs |-> w[x]]
      OBVIOUS
    <3>2. \A x \in 1 .. Pairs : w[x] \in KeyTexts
      BY <1>4, <3>0
    <3>3. WithFirstKey(pair, key0) = w
      BY <2>2 DEF WithFirstKey
    <3> HIDE DEF w, pair, first
    <3>4. w \in Seq(KeyTexts)
      BY <1>1, <3>1, <3>2
    <3> QED BY <3>3, <3>4
  <2> QED BY <2>1, <2>2
<1> HIDE DEF pair
<1>7. new \in KeyFile
  BY <1>5, <1>6 DEF KeyFile, NoSeed
<1> HIDE DEF new
<1>8. /\ disk' = [f \in DOMAIN disk \cup {File} |-> IF f # File THEN disk[f] ELSE new]
      /\ ctx' = [ctx EXCEPT !.aesKey = key0, !.seed = fresh, !.fid = fresh]
      /\ fresh' = fresh + 1 /\ phase' = "read"
      /\ UNCHANGED <<usedFiles, key0Of, aesKeyVec, aesIvVec>>
  BY DEF GenerateKeyFile, Go, new, pair, key0
<1>9. IsDisk(disk')
  BY <1>1, <1>7, <1>8 DEF KeysInv, IsDisk
<1>10. ctx' \in Contexts
  BY <1>2, <1>3, <1>8 DEF KeysInv, Contexts
<1> QED
  BY <1>8, <1>9, <1>10 DEF KeysInv

\* A key file that is read leaves a key in the context and for its source.
LEMMA ReadKeys1 ==
    ASSUME PositionInv, KeysInv, Inv, ReadKeyFile
    PROVE  KeysInv'
<1>1. File \in Files /\ Source \in Sources
  BY FileType
<1>2. File \in DOMAIN disk
  BY FileFound DEF Inv, ReadKeyFile
<1>3. disk[File] \in KeyFile /\ disk[File].keys \in Seq(KeyTexts) /\ disk[File].ivs \in Seq(KeyTexts)
  BY <1>2, KeyFileFields DEF KeysInv
<1>4. ContextAfter(disk[File]) \in Contexts
  BY <1>3, ContextAfterType DEF KeysInv
<1>5. /\ ctx' = ContextAfter(disk[File]) /\ ctx'.aesKey # Null
      /\ usedFiles' = usedFiles \cup {File}
      /\ key0Of' = [key0Of EXCEPT ![Source] = ctx'.aesKey]
      /\ aesKeyVec' = disk[File].keys /\ aesIvVec' = disk[File].ivs
      /\ phase' = "pairs" /\ UNCHANGED <<disk, fresh>>
  BY DEF ReadKeyFile, Go, inputs
<1>6. ctx' \in Contexts /\ ctx'.aesKey \in KeyBytes
  BY <1>4, <1>5, ContextFields
<1>7. key0Of' \in [Sources -> KeyBytes \cup {Null}]
  BY <1>5, <1>6 DEF KeysInv
<1> QED
  BY <1>1, <1>3, <1>5, <1>6, <1>7 DEF KeysInv

\* The pairs that are derived: as many as are needed, the first ones from the file
\* and the context.
LEMMA DerivedPairs ==
    ASSUME PositionInv, KeysInv, DerivePairs
    PROVE  /\ aesKeyVec' \in Seq(KeyTexts) /\ aesIvVec' \in Seq(KeyTexts)
           /\ Len(aesKeyVec') = Pairs
           /\ aesKeyVec'[1] = IF aesKeyVec = <<>> THEN BorrowedKey ELSE aesKeyVec[1]
           /\ aesIvVec # <<>> => aesIvVec'[1] = aesIvVec[1]
           /\ aesIvVec = <<>> /\ ctx.aesIv = Null => aesIvVec'[1].bytes = ctx'.aesIv
           /\ ctx' \in Contexts /\ ctx'.aesKey = ctx.aesKey /\ fresh' \in Nat
           /\ ctx.aesIv # Null => ctx'.aesIv = ctx.aesIv
<1> DEFINE keyVec  == IF aesKeyVec = <<>> THEN <<BorrowedKey>> ELSE FirstOf(aesKeyVec)
           ivVec   == FirstOf(aesIvVec)
           blocks  == IF ivVec = <<>> THEN Pairs ELSE Pairs - 1
           seed    == IF ctx.seed = NoSeed THEN fresh ELSE ctx.seed
           fid     == IF ctx.fid = NoSeed THEN fresh ELSE ctx.fid
           Count(v) == Lesser(Len(v) + blocks, Pairs)
           Fill(v) == [x \in 1 .. Count(v) |->
                          IF x \in DOMAIN v THEN v[x] ELSE TextOf(DerivedBytes(seed, fid, x - Len(v) - 1))]
<1>1. Pairs \in Nat \ {0}
  BY FileType
<1>2. /\ ctx \in Contexts /\ fresh \in Nat /\ aesKeyVec \in Seq(KeyTexts)
      /\ aesIvVec \in Seq(KeyTexts) /\ ctx.aesKey # Null /\ phase = "pairs"
  BY DEF KeysInv, DerivePairs, At
<1>3. ctx.aesKey \in KeyBytes /\ BorrowedKey \in KeyTexts /\ ctx.aesIv \in KeyBytes \cup {Null} 
      /\ ctx.seed \in Nat /\ ctx.fid \in Nat
  BY <1>2, ContextFields, KeyTextsType DEF BorrowedKey
<1>4. seed \in Nat /\ fid \in Nat
  BY <1>2, <1>3
<1>5. /\ aesKeyVec' = Fill(keyVec) /\ aesIvVec' = Fill(ivVec)
      /\ ctx' = [ctx EXCEPT !.seed = seed, !.fid = fid,
                            !.aesIv = IF @ = Null THEN DerivedBytes(seed, fid, 0) ELSE @]
      /\ fresh' = IF NoSeed \in {ctx.seed, ctx.fid} THEN fresh + 1 ELSE fresh
  BY DEF DerivePairs
<1> HIDE DEF seed, fid
<1>6. DerivedBytes(seed, fid, 0) \in KeyBytes
  BY <1>4, KDFType
<1>7. ctx' \in Contexts /\ ctx'.aesKey = ctx.aesKey /\ fresh' \in Nat
      /\ ctx'.aesIv = IF ctx.aesIv = Null THEN DerivedBytes(seed, fid, 0) ELSE ctx.aesIv
  <2> DEFINE iv == IF ctx.aesIv = Null THEN DerivedBytes(seed, fid, 0) ELSE ctx.aesIv
  <2>1. iv \in KeyBytes \cup {Null}
    BY <1>3, <1>6
  <2>2. ctx' = [ctx EXCEPT !.seed = seed, !.fid = fid, !.aesIv = iv]
    BY <1>2, <1>5 DEF Contexts
  <2>3. fresh' \in Nat
    BY <1>2, <1>5
  <2> HIDE DEF iv
  <2>4. ctx' \in Contexts /\ ctx'.aesKey = ctx.aesKey /\ ctx'.aesIv = iv
    BY <1>2, <1>4, <2>1, <2>2 DEF Contexts
  <2> QED BY <2>3, <2>4 DEF iv
<1>8. /\ ivVec \in Seq(KeyTexts) /\ Len(ivVec) = Lesser(Pairs, Len(aesIvVec))
      /\ aesIvVec = <<>> => ivVec = <<>>
      /\ aesIvVec # <<>> => ivVec # <<>> /\ ivVec[1] = aesIvVec[1]
  BY <1>1, <1>2, FirstOfType
<1>9. /\ keyVec \in Seq(KeyTexts) /\ keyVec # <<>> /\ Len(keyVec) <= Pairs
      /\ keyVec[1] = IF aesKeyVec = <<>> THEN BorrowedKey ELSE aesKeyVec[1]
  <2>1. CASE aesKeyVec = <<>>
    BY <1>1, <1>3, <2>1
  <2>2. CASE aesKeyVec # <<>>
    <3>1. /\ FirstOf(aesKeyVec) \in Seq(KeyTexts) /\ FirstOf(aesKeyVec) # <<>>
          /\ FirstOf(aesKeyVec)[1] = aesKeyVec[1]
          /\ Len(FirstOf(aesKeyVec)) = Lesser(Pairs, Len(aesKeyVec))
      BY <1>1, <1>2, <2>2, FirstOfType
    <3>2. Lesser(Pairs, Len(aesKeyVec)) <= Pairs
      BY <1>1, <1>2 DEF Lesser
    <3> QED BY <2>2, <3>1, <3>2
  <2> QED BY <2>1, <2>2
<1> HIDE DEF keyVec, ivVec
<1>10. Len(keyVec) \in Nat \ {0} /\ Len(ivVec) \in Nat /\ (ivVec = <<>> <=> Len(ivVec) = 0)
  BY <1>8, <1>9
<1>11. blocks \in Nat /\ blocks >= Pairs - 1 /\ (ivVec = <<>> => blocks = Pairs)
  BY <1>1
<1> HIDE DEF blocks
<1>12. Count(keyVec) = Pairs
  BY <1>1, <1>9, <1>10, <1>11 DEF Lesser
<1>13. Count(ivVec) \in Nat \ {0} /\ Count(ivVec) <= Pairs
  BY <1>1, <1>10, <1>11 DEF Lesser
<1> HIDE DEF Count
<1>14. Fill(keyVec) \in Seq(KeyTexts) /\ Len(Fill(keyVec)) = Pairs
  BY <1>1, <1>4, <1>9, <1>12, FilledType
<1>15. Fill(ivVec) \in Seq(KeyTexts)
  BY <1>4, <1>8, <1>13, FilledType, ZenonT(30)
<1>16. Fill(keyVec)[1] = keyVec[1]
  <2>1. 1 \in 1 .. Count(keyVec) /\ 1 \in DOMAIN keyVec
    BY <1>1, <1>9, <1>10, <1>12
  <2> HIDE DEF Count
  <2> QED BY <2>1
<1>17. ivVec # <<>> => Fill(ivVec)[1] = ivVec[1]
  <2> SUFFICES ASSUME ivVec # <<>> PROVE Fill(ivVec)[1] = ivVec[1]
    OBVIOUS
  <2>1. 1 \in 1 .. Count(ivVec) /\ 1 \in DOMAIN ivVec
    BY <1>8, <1>10, <1>13
  <2> HIDE DEF Count
  <2> QED BY <2>1
<1>18. ivVec = <<>> => Fill(ivVec)[1] = TextOf(DerivedBytes(seed, fid, 0))
  <2> SUFFICES ASSUME ivVec = <<>> PROVE Fill(ivVec)[1] = TextOf(DerivedBytes(seed, fid, 0))
    OBVIOUS
  <2>1. 1 \in 1 .. Count(ivVec)
    BY <1>13
  <2>3. PICK n \in Nat : n = Len(ivVec) /\ n = 0 /\ 1 - n - 1 = 0
    BY <1>10
  <2>4. 1 \notin DOMAIN ivVec
    BY <1>8, <2>3
  <2> HIDE DEF Count
  <2>2. Fill(ivVec)[1] = TextOf(DerivedBytes(seed, fid, 1 - Len(ivVec) - 1))
    BY <2>1, <2>4
  <2> QED BY <2>2, <2>3
<1>19. ivVec = <<>> => Fill(ivVec)[1].bytes = DerivedBytes(seed, fid, 0)
  BY <1>18 DEF TextOf
<1> HIDE DEF Fill
<1> QED
  BY <1>5, <1>7, <1>8, <1>9, <1>14, <1>15, <1>16, <1>17, <1>19

\* Every step keeps keys keys.
LEMMA KeysStep ==
    ASSUME PositionInv, KeysInv, Inv, Next
    PROVE  KeysInv'
<1>1. CASE GenerateKeyFile
  BY <1>1, GenerateKeys
<1>2. CASE ReadKeyFile
  BY <1>2, ReadKeys1
<1>3. CASE DerivePairs
  <2>1. UNCHANGED <<disk, usedFiles, key0Of>> /\ phase' = "repeats" /\ ctx.aesKey # Null
    BY <1>3 DEF DerivePairs, Go, inputs, KeysInv, At
  <2> QED BY <1>3, <2>1, DerivedPairs DEF KeysInv
<1>4. CASE TakePairs
  <2>1. UNCHANGED <<disk, usedFiles, key0Of, ctx, fresh>> /\ phase' = "repeats" /\ ctx.aesKey # Null
        /\ aesKeyVec' = FirstOf(aesKeyVec) /\ aesIvVec' = FirstOf(aesIvVec)
    BY <1>4 DEF TakePairs, Go, inputs, KeysInv, At
  <2>2. Pairs \in Nat \ {0} /\ aesKeyVec \in Seq(KeyTexts) /\ aesIvVec \in Seq(KeyTexts)
    BY FileType DEF KeysInv
  <2>3. FirstOf(aesKeyVec) \in Seq(KeyTexts)
    BY <2>2, FirstOfType
  <2>4. FirstOf(aesIvVec) \in Seq(KeyTexts)
    BY <2>2, FirstOfType
  <2> QED BY <2>1, <2>3, <2>4 DEF KeysInv
<1>5. CASE CheckPairs \/ EncryptHeader \/ EncryptBlock
  <2>1. /\ UNCHANGED <<disk, usedFiles, key0Of, ctx, fresh, aesKeyVec, aesIvVec>>
        /\ phase \in {"repeats", "header", "block"}
    BY <1>5 DEF CheckPairs, EncryptHeader, EncryptBlock, Go, inputs, keys, At
  <2> QED BY <2>1 DEF KeysInv
<1>6. CASE StartJob \/ EndStream
  <2>1. UNCHANGED <<disk, usedFiles, key0Of, ctx, fresh, aesKeyVec, aesIvVec>>
        /\ phase' \in {"file", "hash"}
    BY <1>6 DEF StartJob, EndStream, Go, inputs, keys
  <2> QED BY <2>1 DEF KeysInv
<1>7. CASE StartPmcData \/ NextJob
  <2>1. UNCHANGED <<disk, usedFiles, key0Of, fresh, aesKeyVec, aesIvVec>>
        /\ (ctx' = ctx \/ ctx' = FreshContext) /\ phase' \in {"file", "start", "hash"}
    BY <1>7 DEF StartPmcData, NextJob, inputs, keys, At, position
  <2> QED BY <2>1, FreshContextType DEF KeysInv
<1>8. CASE \/ RefuseBlocks \/ KeyFileExists \/ RefuseKeyFile \/ NoKeyToCopy
           \/ TooFewPairs \/ RefusePairs \/ Overrun \/ RefuseLength
  <2>1. UNCHANGED <<inputs, position, keys>>
    BY <1>8 DEF RefuseBlocks, KeyFileExists, RefuseKeyFile, NoKeyToCopy, TooFewPairs,
                RefusePairs, Overrun, RefuseLength, Fail
  <2> QED BY <2>1 DEF KeysInv, inputs, position, keys
<1> QED
  BY <1>1, <1>2, <1>3, <1>4, <1>5, <1>6, <1>7, <1>8 DEF Next, ReadKeys, PreparePairs, Encrypt

\* What a block leaves of the data is not less than nothing.
LEMMA NextSizeType ==
    ASSUME PositionInv, CountsInv, NEW written \in Nat, written <= InLen
    PROVE  NextSize(written) \in Nat
<1>1. blocksList \in Seq(Nat) /\ InLen \in Nat
  BY ListType, FileType
<1>2. blkPtr \in Nat
  BY DEF CountsInv
<1>3. blkPtr < Len(blocksList) => blocksList[blkPtr + 1] \in Nat
  <2>1. blkPtr < Len(blocksList) => blkPtr + 1 \in 1 .. Len(blocksList)
    BY <1>1, <1>2
  <2> QED BY <1>1, <2>1
<1>4. InLen - written \in Nat
  BY <1>1
<1> QED
  BY <1>3, <1>4 DEF NextSize

\* Every step keeps the counts natural numbers: what is left to encrypt
\* is not cut below nothing.
LEMMA CountsStep ==
    ASSUME PositionInv, CountsInv, Next
    PROVE  CountsInv'
<1>1. CASE EncryptHeader
  <2>1. bytesWritten' = 0 /\ blkPtr' = 1 /\ nextBlkSize' = Lesser(blocksList[1], InLen) /\ phase = "header"
    BY <1>1 DEF EncryptHeader, AddRecord, At
  <2>2. blocksList[1] \in Nat /\ InLen \in Nat
    BY <2>1, ListType, FileType
  <2>3. Lesser(blocksList[1], InLen) \in Nat
    BY <2>2 DEF Lesser
  <2> QED BY <2>1, <2>3 DEF CountsInv
<1>2. CASE EncryptBlock
  <2> DEFINE written == bytesWritten + nextBlkSize
  <2>1. bytesWritten' = written /\ blkPtr' = blkPtr + 1 /\ nextBlkSize' = NextSize(written)
        /\ ~Outside
    BY <1>2 DEF EncryptBlock, AddRecord
  <2>2. written \in Nat /\ blkPtr \in Nat /\ InLen \in Nat
    BY FileType DEF CountsInv
  <2>3. written <= InLen
    BY <2>1, <2>2 DEF Outside
  <2> HIDE DEF written
  <2>4. NextSize(written) \in Nat
    BY <2>2, <2>3, NextSizeType
  <2> QED BY <2>1, <2>2, <2>4 DEF CountsInv
<1>3. CASE ~(EncryptHeader \/ EncryptBlock)
  <2>1. UNCHANGED cipher
    BY <1>3 DEF Next, ReadKeys, PreparePairs, Encrypt, RefuseBlocks, StartJob, GenerateKeyFile,
         KeyFileExists, ReadKeyFile, RefuseKeyFile, NoKeyToCopy, TakePairs, TooFewPairs,
         DerivePairs, CheckPairs, RefusePairs, Overrun,
         EndStream, RefuseLength, StartPmcData, NextJob, Fail
  <2> QED BY <2>1 DEF CountsInv, cipher
<1> QED
  BY <1>1, <1>2, <1>3

\* Every input starts with the types.
LEMMA TypeInit == Init => TypeInv
<1> SUFFICES ASSUME NEW input \in Inputs, InitOf(input) PROVE TypeInv
  BY DEF Init
<1>1. /\ plan = input.plan /\ plan \in Seq(Job) /\ plan # <<>>
      /\ \A j \in DOMAIN plan : plan[j].lengths # <<>>
  BY InputsAssumption DEF InitOf
<1>2. job \in DOMAIN plan /\ job = 1
  BY <1>1 DEF InitOf
<1>3. stream \in DOMAIN plan[job].lengths
  <2>1. plan[job].lengths \in Seq(Nat \ {0}) /\ plan[job].lengths # <<>>
    BY <1>1, <1>2, JobFields
  <2> QED BY <2>1 DEF InitOf
<1>4. PositionInv
  BY <1>1, <1>2, <1>3, EmptyTotal DEF InitOf, PositionInv
<1>5. IsDisk(disk)
  BY InputsAssumption DEF InitOf
<1>6. KeysInv
  <2>1. <<>> \in Seq(KeyTexts) /\ FirstRandom \in Nat
    BY Constants
  <2>2. [s \in Sources |-> Null] \in [Sources -> KeyBytes \cup {Null}]
    OBVIOUS
  <2> QED BY <1>5, <2>1, <2>2, FreshContextType DEF InitOf, KeysInv
<1>7. CountsInv
  BY DEF InitOf, CountsInv
<1> QED
  BY <1>4, <1>6, <1>7 DEF TypeInv

\* A step that changes nothing keeps the types.
LEMMA TypeStutter ==
    ASSUME TypeInv, UNCHANGED vars
    PROVE  TypeInv'
<1>1. UNCHANGED <<plan, disk, job, stream, phase, blocksList, usedFiles, key0Of, ctx, aesKeyVec,
                  aesIvVec, fresh, blkPtr, bytesWritten, nextBlkSize, status>>
  BY DEF vars, inputs, position, keys, cipher
<1>2. PositionInv'
  <2>1. \A j, L : BlocksList(j, L)' = BlocksList(j, L)
    BY <1>1 DEF BlocksList, EncrBlocks, ChunkSize, Signed, LastBlock, UncutBlocks,
                WholeBlocks, DefaultBlocks
  <2> QED BY <1>1, <2>1 DEF TypeInv, PositionInv
<1>3. KeysInv'
  BY <1>1 DEF TypeInv, KeysInv
<1>4. CountsInv'
  BY <1>1 DEF TypeInv, CountsInv
<1> QED
  BY <1>2, <1>3, <1>4 DEF TypeInv

\* Every step keeps the types.
LEMMA TypeStep ==
    ASSUME TypeInv, Inv, Next
    PROVE  TypeInv'
BY PositionStep, KeysStep, CountsStep DEF TypeInv

\* Whatever the BIF and the key files hold, Process works with keys that are keys,
\* a list of blocks whose sizes are natural numbers, also when they wrap around, and
\* counts that never fall below nothing.
THEOREM KeyRollingTyped == Spec => []KeyRollingTypeOK
<1>1. Inv /\ TypeInv /\ [Next]_vars => Inv' /\ TypeInv'
  BY KeyRollingStep, KeyRollingStutter, TypeStep, TypeStutter
<1>2. TypeInv => KeyRollingTypeOK
  <2> SUFFICES ASSUME TypeInv PROVE KeyRollingTypeOK
    OBVIOUS
  <2>1. blocksList \in Seq(Nat)
    BY ListType DEF TypeInv
  <2>2. ctx.aesKey \in KeyBytes \cup {Null} /\ ctx.aesIv \in KeyBytes \cup {Null}
    BY ContextFields DEF TypeInv, KeysInv
  <2> QED BY <2>1, <2>2 DEF KeyRollingTypeOK, TypeInv, PositionInv, KeysInv, CountsInv
<1> QED
  BY InitFiles, TypeInit, <1>1, <1>2, PTL DEF Spec

-----------------------------------------------------------------------------
(* Only checked pairs.                                                       *)

\* An earlier partition of the image has left what it read in the context.
SharesContext == \E i \in 1 .. (job - 1) : plan[i].image = plan[job].image

\* What OnlyCheckedPairs excepts.
Excepted == SomeMisfit \/ \E j \in DOMAIN plan : plan[j].encrypted /\ Borrows(j)

\* The context holds the first of the pairs that are checked, and each record
\* carries the next of them.
FirstPairInv ==
    /\ phase \in {"start", "file"} /\ ctx.aesKey # Null => stream = 1 /\ SharesContext
    /\ phase \in {"start", "file", "read"} /\ ctx.aesIv # Null => stream = 1 /\ SharesContext
    /\ phase = "read" => disk[File].keys # <<>>
    /\ phase = "pairs" =>
          /\ IF aesKeyVec # <<>> THEN aesKeyVec[1].bytes = ctx.aesKey ELSE Excepted
          /\ IF aesIvVec # <<>> THEN aesIvVec[1].bytes = ctx.aesIv
             ELSE ctx.aesIv = Null \/ Excepted
    /\ phase \in {"repeats", "header"} =>
          (aesKeyVec[1].bytes = ctx.aesKey /\ aesIvVec[1].bytes = ctx.aesIv) \/ Excepted

CarriedPairInv ==
    /\ phase \in {"repeats", "header", "block"} => Len(aesKeyVec) = Pairs
    /\ phase = "block" =>
          IF nextBlkSize = 0 THEN bytesWritten >= InLen \/ Excepted
          ELSE /\ blkPtr + 1 \in DOMAIN aesKeyVec
               /\ <<Last(records).nextKey, Last(records).nextIv>> = PairBytes(blkPtr + 1)
    /\ offList = {} \/ Excepted

CheckedInv == FirstPairInv /\ CarriedPairInv

\* The plan never changes, and a key file stays as it is.
LEMMA PlanConstant ==
    ASSUME Next \/ UNCHANGED vars
    PROVE  /\ UNCHANGED plan
           /\ DOMAIN disk \subseteq DOMAIN disk' /\ \A f \in DOMAIN disk : disk'[f] = disk[f]
<1>1. CASE GenerateKeyFile
  BY <1>1 DEF GenerateKeyFile, Absent
<1>2. CASE ~GenerateKeyFile
  <2>1. UNCHANGED inputs
    BY <1>2 DEF Next, ReadKeys, PreparePairs, Encrypt, RefuseBlocks, StartJob,
         KeyFileExists, ReadKeyFile, RefuseKeyFile, NoKeyToCopy, TakePairs, TooFewPairs,
         DerivePairs, CheckPairs, RefusePairs, EncryptHeader, EncryptBlock, Overrun,
         EndStream, RefuseLength, StartPmcData, NextJob, Fail, vars
  <2> QED BY <2>1 DEF inputs
<1> QED
  BY <1>1, <1>2

\* Whether a block does not fit depends on the plan alone.
LEMMA MisfitConstant ==
    ASSUME UNCHANGED plan
    PROVE  SomeMisfit' = SomeMisfit
<1>1. \A j : Misfit(j)' = Misfit(j)
  BY DEF Misfit, LastBlock, ChunkSize, Signed, UncutBlocks, WholeBlocks, DefaultBlocks
<1> QED
  BY <1>1 DEF SomeMisfit

\* What OnlyCheckedPairs excepts does not go away: key files are only added.
LEMMA ExceptedStays ==
    ASSUME Next \/ UNCHANGED vars, Excepted
    PROVE  Excepted'
<1>1. /\ UNCHANGED plan
      /\ DOMAIN disk \subseteq DOMAIN disk' /\ \A f \in DOMAIN disk : disk'[f] = disk[f]
  BY PlanConstant
<1>2. SomeMisfit' = SomeMisfit
  BY <1>1, MisfitConstant
<1>3. \A j : Borrows(j) => Borrows(j)'
  BY <1>1 DEF Borrows, Absent
<1> QED
  BY <1>1, <1>2, <1>3 DEF Excepted

\* Without a misfit every block has a size, and the list covers the partition.
LEMMA ListCovers ==
    ASSUME PositionInv, phase \notin {"start", "hash"}, ~SomeMisfit
    PROVE  /\ blocksList \in Seq(Nat \ {0})
           /\ Total(plan[job].lengths) <= Total(blocksList)
<1>1. /\ plan \in Seq(Job) /\ job \in DOMAIN plan
      /\ Total(plan[job].lengths) \in Nat \ {0}
  BY PlanFacts
<1>2. blocksList = BlocksList(job, Total(plan[job].lengths)) /\ plan[job].encrypted
  BY ListType DEF PositionInv
<1>3. CASE plan[job].kind = "bootloader"
  BY <1>1, <1>2, <1>3, BootloaderBlocks
<1>4. CASE plan[job].kind # "bootloader"
  <2>1. ~Misfit(job)
    BY <1>1, <1>2, <1>4 DEF SomeMisfit
  <2>2. blocksList \in Seq(Nat \ {0}) /\ Total(blocksList) = Total(plan[job].lengths)
    BY <1>1, <1>2, <1>4, <2>1, ChunkedBlocks
  <2> QED BY <1>1, <2>2
<1> QED
  BY <1>3, <1>4

\* The file that leaves the key or the IV to the context, when the context has one.
LEMMA ReadFirstPair ==
    ASSUME PositionInv, KeysInv, Inv, FirstPairInv, ReadKeyFile
    PROVE  FirstPairInv'
<1> DEFINE f == disk[File]
<1>1. File \in DOMAIN disk
  BY FileFound DEF Inv, ReadKeyFile
<1>2. f \in KeyFile /\ f.keys \in Seq(KeyTexts) /\ f.ivs \in Seq(KeyTexts)
  BY <1>1, KeyFileFields DEF KeysInv
<1>3. /\ ctx' = ContextAfter(f) /\ aesKeyVec' = f.keys /\ aesIvVec' = f.ivs
      /\ phase' = "pairs" /\ phase \in {"file", "read"} /\ plan[job].encrypted
  BY DEF ReadKeyFile, Go, KeyFileThere, At, PositionInv
<1>4. /\ ctx'.aesKey = IF f.keys # <<>> THEN f.keys[1].bytes ELSE ctx.aesKey
      /\ ctx'.aesIv = IF f.ivs # <<>> THEN f.ivs[1].bytes ELSE ctx.aesIv
      /\ ctx'.aesKey # Null
  BY <1>3 DEF ContextAfter, ReadKeyFile
<1>5. ASSUME \/ f.ivs = <<>> /\ ctx.aesIv # Null
             \/ f.keys = <<>> /\ ctx.aesKey # Null
      PROVE  Excepted
  <2>1. stream = 1 /\ SharesContext
    BY <1>3, <1>5 DEF FirstPairInv
  <2>2. Borrows(job)
    BY <1>1, <1>5, <2>1 DEF Borrows, SharesContext, File, Absent
  <2> QED BY <1>3, <2>2 DEF Excepted, PositionInv
<1>6. Excepted => Excepted'
  <2>1. Next
    BY DEF Next, ReadKeys
  <2> QED BY <2>1, ExceptedStays
<1> HIDE DEF f
<1> QED
  BY <1>3, <1>4, <1>5, <1>6 DEF FirstPairInv

\* A generated key file has a key.
LEMMA GeneratedHasKeys ==
    ASSUME PositionInv, GenerateKeyFile
    PROVE  disk'[File].keys # <<>>
<1> DEFINE key0 == IF key0Of[Source] # Null THEN key0Of[Source] ELSE ctx.aesKey
           pair == [x \in 1 .. Pairs |-> GeneratedText(fresh, fresh, x - 1)]
<1>1. disk'[File].keys = WithFirstKey(pair, key0)
  BY DEF GenerateKeyFile
<1>2. Pairs \in Nat \ {0}
  BY FileType
<1>3. 1 \in DOMAIN pair
  BY <1>2
<1> HIDE DEF key0
<1>4. DOMAIN WithFirstKey(pair, key0) = DOMAIN pair
  BY DEF WithFirstKey
<1>5. DOMAIN <<>> = {}
  OBVIOUS
<1> QED
  BY <1>1, <1>3, <1>4, <1>5

\* Every step keeps the first pair of the file that of the context.
LEMMA FirstPairStep ==
    ASSUME PositionInv, KeysInv, Inv, FirstPairInv, Next
    PROVE  FirstPairInv'
<1>1. Excepted => Excepted'
  BY ExceptedStays
<1>2. UNCHANGED plan
  BY PlanConstant
<1>3. CASE ReadKeyFile
  BY <1>3, ReadFirstPair
<1>4. CASE TakePairs
  <2>1. /\ aesKeyVec' = FirstOf(aesKeyVec) /\ aesIvVec' = FirstOf(aesIvVec) /\ ctx' = ctx
        /\ phase = "pairs" /\ phase' = "repeats"
        /\ Len(aesKeyVec) >= Pairs /\ Len(aesIvVec) >= Pairs
    BY <1>4 DEF TakePairs, Go, At
  <2>2. aesKeyVec \in Seq(KeyTexts) /\ aesIvVec \in Seq(KeyTexts) /\ Pairs \in Nat \ {0}
    BY FileType DEF KeysInv
  <2>3. aesKeyVec # <<>> /\ aesIvVec # <<>>
    BY <2>1, <2>2
  <2>4. FirstOf(aesKeyVec)[1] = aesKeyVec[1]
    BY <2>2, <2>3, FirstOfType
  <2>5. FirstOf(aesIvVec)[1] = aesIvVec[1]
    BY <2>2, <2>3, FirstOfType
  <2> QED BY <2>1, <2>3, <2>4, <2>5 DEF FirstPairInv
<1>5. CASE DerivePairs
  <2>1. phase = "pairs" /\ phase' = "repeats"
    BY <1>5 DEF DerivePairs, Go, At
  <2>2. /\ aesKeyVec'[1] = IF aesKeyVec = <<>> THEN BorrowedKey ELSE aesKeyVec[1]
        /\ aesIvVec # <<>> => aesIvVec'[1] = aesIvVec[1]
        /\ aesIvVec = <<>> /\ ctx.aesIv = Null => aesIvVec'[1].bytes = ctx'.aesIv
        /\ ctx'.aesKey = ctx.aesKey
        /\ ctx.aesIv # Null => ctx'.aesIv = ctx.aesIv
    BY <1>5, DerivedPairs
  <2>3. aesIvVec # <<>> => aesIvVec[1].bytes # Null
    <3>1. aesIvVec \in Seq(KeyTexts)
      BY DEF KeysInv
    <3>2. aesIvVec # <<>> => aesIvVec[1] \in KeyTexts
      BY <3>1
    <3> QED BY <3>2, KeyTextsType
  <2> QED BY <1>1, <2>1, <2>2, <2>3 DEF FirstPairInv
<1>6. CASE CheckPairs
  <2>1. phase = "repeats" /\ phase' = "header" /\ UNCHANGED <<ctx, aesKeyVec, aesIvVec>>
    BY <1>6 DEF CheckPairs, Go, At
  <2> QED BY <1>1, <2>1 DEF FirstPairInv
<1>7. CASE StartJob
  <2>1. UNCHANGED <<job, stream, ctx>> /\ phase = "start" /\ phase' \in {"file", "hash"}
    BY <1>7 DEF StartJob, Go, At, keys
  <2> QED BY <1>2, <2>1 DEF FirstPairInv, SharesContext
<1>12. CASE GenerateKeyFile
  <2>1. /\ UNCHANGED <<job, stream>> /\ ctx'.aesIv = ctx.aesIv
        /\ phase = "file" /\ phase' = "read"
    BY <1>12 DEF GenerateKeyFile, Go, At, KeysInv, Contexts
  <2>2. disk'[File].keys # <<>>
    BY <1>12, GeneratedHasKeys
  <2>3. File' = File
    BY <1>2, <2>1 DEF File
  <2> QED BY <1>2, <2>1, <2>2, <2>3 DEF FirstPairInv, SharesContext
<1>8. CASE EncryptHeader \/ EncryptBlock \/ EndStream
  <2>1. phase' \in {"block", "hash"}
    BY <1>8 DEF EncryptHeader, EncryptBlock, EndStream, Go, At, position
  <2> QED BY <2>1 DEF FirstPairInv
<1>9. CASE StartPmcData
  <2>1. phase' = "file" /\ ctx' = FreshContext
    BY <1>9 DEF StartPmcData
  <2> QED BY <2>1, FreshContextType DEF FirstPairInv
<1>10. CASE NextJob
  <2>1. CASE job = Len(plan)
    <3>1. phase' = phase /\ phase = "hash"
      BY <1>10, <2>1 DEF NextJob, position, At
    <3> QED BY <3>1 DEF FirstPairInv
  <2>2. CASE job # Len(plan)
    <3>1. /\ phase' = "start" /\ job' = job + 1 /\ stream' = 1
          /\ ctx' = IF plan[job + 1].image = plan[job].image THEN ctx ELSE FreshContext
      BY <1>10, <2>2 DEF NextJob
    <3>2. job \in 1 .. (job' - 1)
      BY <3>1, PlanFacts
    <3>3. plan[job + 1].image = plan[job].image => SharesContext'
      BY <1>2, <3>1, <3>2 DEF SharesContext
    <3> QED BY <3>1, <3>3, FreshContextType DEF FirstPairInv
  <2> QED BY <2>1, <2>2
<1>11. CASE \/ RefuseBlocks \/ KeyFileExists \/ RefuseKeyFile \/ NoKeyToCopy
            \/ TooFewPairs \/ RefusePairs \/ Overrun \/ RefuseLength
  <2>1. UNCHANGED <<inputs, position, keys>>
    BY <1>11 DEF RefuseBlocks, KeyFileExists, RefuseKeyFile, NoKeyToCopy, TooFewPairs,
                RefusePairs, Overrun, RefuseLength, Fail
  <2> QED BY <1>1, <2>1 DEF FirstPairInv, SharesContext, File, inputs, position, keys
<1> QED
  BY <1>3, <1>4, <1>5, <1>6, <1>7, <1>8, <1>9, <1>10, <1>11, <1>12
     DEF Next, ReadKeys, PreparePairs, Encrypt

\* The last element of a list that has got one.
LEMMA LastAppended ==
    ASSUME NEW s, IsSequence(s), NEW e
    PROVE  Last(Append(s, e)) = e /\ Len(Append(s, e)) = Len(s) + 1
<1> DEFINE S == {s[i] : i \in DOMAIN s}
           t == Append(s, e)
<1>1. s \in Seq(S \cup {e})
  <2>1. s \in Seq(S)
    BY DEF IsSequence
  <2> QED BY <2>1
<1>2. Len(t) = Len(s) + 1 /\ t[Len(s) + 1] = e
  BY <1>1
<1> QED
  BY <1>2 DEF Last

\* The record made carries the pair given, and is on the list if that is the i-th.
LEMMA AddRecordCarries ==
    ASSUME IsSequence(records), NEW pair, NEW i, NEW from, NEW size, NEW after, NEW next,
           AddRecord(pair, i, from, size, after, next)
    PROVE  /\ Last(records').nextKey = after[1] /\ Last(records').nextIv = after[2]
           /\ nextBlkSize' = next
           /\ i \in DOMAIN aesKeyVec /\ pair = PairBytes(i) => offList' = offList
<1> DEFINE r == [job |-> job, stream |-> stream, key |-> pair[1], iv |-> pair[2],
                 from |-> from, size |-> size, nextKey |-> after[1], nextIv |-> after[2],
                 nextWords |-> WordsToCome(next)]
<1>1. records' = Append(records, r) /\ nextBlkSize' = next
  BY DEF AddRecord
<1>2. i \in DOMAIN aesKeyVec /\ pair = PairBytes(i) => offList' = offList
  BY DEF AddRecord
<1>3. r.nextKey = after[1] /\ r.nextIv = after[2]
  OBVIOUS
<1> HIDE DEF r
<1>4. Last(records') = r
  BY <1>1, LastAppended
<1> QED
  BY <1>1, <1>2, <1>3, <1>4

\* The secure header takes the first pair and carries the second.
LEMMA HeaderCarries ==
    ASSUME TypeInv, Inv, CheckedInv, EncryptHeader
    PROVE  CarriedPairInv'
<1> DEFINE next == Lesser(blocksList[1], InLen)
<1>1. /\ AddRecord(<<ctx.aesKey, ctx.aesIv>>, 1, 0, 0, PairBytes(2), next)
      /\ blkPtr' = 1 /\ phase = "header" /\ phase' = "block"
      /\ UNCHANGED <<blocksList, aesKeyVec, aesIvVec>>
  BY DEF EncryptHeader, At, Go, keys
<1>2. /\ aesKeyVec \in Seq(KeyTexts) /\ Len(aesKeyVec) = Pairs /\ Pairs >= 2 /\ Pairs \in Nat
      /\ InLen \in Nat \ {0}
  BY <1>1, FileType DEF TypeInv, KeysInv, CheckedInv, CarriedPairInv
<1>3. 1 \in DOMAIN aesKeyVec /\ 2 \in DOMAIN aesKeyVec
  BY <1>2
<1>4. Excepted => Excepted'
  <2>1. Next
    BY DEF Next, Encrypt
  <2> QED BY <2>1, ExceptedStays
<1>5. <<ctx.aesKey, ctx.aesIv>> = PairBytes(1) \/ Excepted
  BY <1>1 DEF CheckedInv, FirstPairInv, Pair, PairBytes, BytesOf
<1>6. blocksList[1] \in Nat /\ (blocksList[1] = 0 => Excepted)
  <2>1. blocksList \in Seq(Nat) /\ Len(blocksList) \in Nat \ {0}
    BY <1>1, ListType DEF TypeInv
  <2>2. 1 \in 1 .. Len(blocksList)
    BY <2>1
  <2>3. ~SomeMisfit => blocksList[1] \in Nat \ {0}
    <3>1. ~SomeMisfit => blocksList \in Seq(Nat \ {0})
      BY <1>1, ListCovers DEF TypeInv
    <3> QED BY <2>2, <3>1
  <2> QED BY <2>1, <2>2, <2>3 DEF Excepted
<1>7. next = 0 => Excepted
  BY <1>2, <1>6 DEF Lesser
<1> HIDE DEF next
<1>8. IsSequence(records)
  BY DEF Inv, PairsInv
<1>9. /\ Last(records').nextKey = PairBytes(2)[1] /\ Last(records').nextIv = PairBytes(2)[2]
      /\ nextBlkSize' = next
      /\ <<ctx.aesKey, ctx.aesIv>> = PairBytes(1) => offList' = offList
  BY <1>1, <1>3, <1>8, AddRecordCarries
<1>10. <<Last(records').nextKey, Last(records').nextIv>> = PairBytes(2)
  BY <1>9 DEF PairBytes, BytesOf
<1>11. Pairs' = Pairs /\ PairBytes(2)' = PairBytes(2)
  BY <1>1 DEF Pairs, Pair, PairBytes
<1>12. offList' = {} \/ Excepted'
  BY <1>4, <1>5, <1>9 DEF CheckedInv, CarriedPairInv
<1>13. blkPtr' + 1 = 2
  BY <1>1
<1> QED
  BY <1>1, <1>2, <1>3, <1>4, <1>7, <1>9, <1>10, <1>11, <1>12, <1>13 DEF CarriedPairInv, PairBytes

\* A block takes the pair that the record before it carries, and carries the next.
LEMMA BlockCarries ==
    ASSUME TypeInv, Inv, CheckedInv, EncryptBlock
    PROVE  CarriedPairInv'
<1> DEFINE written == bytesWritten + nextBlkSize
           next == NextSize(written)
           pair == <<Last(records).nextKey, Last(records).nextIv>>
<1>1. /\ AddRecord(pair, blkPtr + 1, bytesWritten, nextBlkSize, PairAfter(next), next)
      /\ blkPtr' = blkPtr + 1 /\ phase = "block" /\ phase' = "block" /\ bytesWritten' = written
      /\ UNCHANGED <<plan, job, stream, blocksList, aesKeyVec, aesIvVec>>
      /\ ~PairMissing(next) /\ bytesWritten < InLen /\ ~Outside
  BY DEF EncryptBlock, At, position, keys, inputs
<1>2. /\ aesKeyVec \in Seq(KeyTexts) /\ Len(aesKeyVec) = Pairs /\ Pairs \in Nat
      /\ InLen \in Nat \ {0} /\ blkPtr \in Nat /\ bytesWritten \in Nat /\ nextBlkSize \in Nat
  BY <1>1, FileType DEF TypeInv, KeysInv, CheckedInv, CarriedPairInv, CountsInv
<1>3. written \in Nat /\ written <= InLen
  BY <1>1, <1>2 DEF Outside
<1>4. Excepted => Excepted'
  <2>1. Next
    BY DEF Next, Encrypt
  <2> QED BY <2>1, ExceptedStays
<1>5. (blkPtr + 1 \in DOMAIN aesKeyVec /\ pair = PairBytes(blkPtr + 1)) \/ Excepted
  <2>1. CASE nextBlkSize = 0
    BY <1>1, <1>2, <2>1 DEF CheckedInv, CarriedPairInv
  <2>2. CASE nextBlkSize # 0
    BY <1>1, <2>2 DEF CheckedInv, CarriedPairInv
  <2> QED BY <2>1, <2>2
<1>6. InLen' = InLen /\ Pairs' = Pairs
  BY <1>1 DEF InLen, Pairs
<1> HIDE DEF written, pair
<1>7. next = 0 => written >= InLen \/ Excepted
  <2> SUFFICES ASSUME next = 0, ~SomeMisfit PROVE written >= InLen
    BY DEF Excepted
  <2>1. blocksList \in Seq(Nat \ {0})
    BY <1>1, ListCovers DEF TypeInv
  <2>2. blkPtr < Len(blocksList) => blocksList[blkPtr + 1] # 0
    <3>1. blkPtr < Len(blocksList) => blkPtr + 1 \in 1 .. Len(blocksList)
      BY <1>2, <2>1
    <3> QED BY <2>1, <3>1
  <2>3. InLen - written = 0 => written >= InLen
    BY <1>2, <1>3
  <2> QED BY <2>2, <2>3 DEF NextSize
<1>8. next # 0 => blkPtr + 2 \in DOMAIN aesKeyVec
  BY <1>1, <1>2 DEF PairMissing
<1> HIDE DEF next
<1>9. IsSequence(records)
  BY DEF Inv, PairsInv
<1>10. /\ Last(records').nextKey = PairAfter(next)[1] /\ Last(records').nextIv = PairAfter(next)[2]
       /\ nextBlkSize' = next
       /\ blkPtr + 1 \in DOMAIN aesKeyVec /\ pair = PairBytes(blkPtr + 1) => offList' = offList
  BY <1>1, <1>9, AddRecordCarries
<1>11. next # 0 => <<Last(records').nextKey, Last(records').nextIv>> = PairBytes(blkPtr + 2)
  BY <1>10 DEF PairAfter, PairBytes, BytesOf
<1>12. offList' = {} \/ Excepted'
  BY <1>4, <1>5, <1>10 DEF CheckedInv, CarriedPairInv
<1>13. PICK p \in Nat : p = blkPtr + 2 /\ blkPtr' + 1 = p
  BY <1>1, <1>2
<1>14. next # 0 => /\ blkPtr' + 1 \in DOMAIN aesKeyVec'
                   /\ <<Last(records').nextKey, Last(records').nextIv>> = PairBytes(blkPtr + 1)'
  BY <1>1, <1>8, <1>11, <1>13 DEF Pair, PairBytes
<1>15. nextBlkSize' = 0 => bytesWritten' >= InLen' \/ Excepted'
  BY <1>1, <1>4, <1>6, <1>7, <1>10
<1>16. Len(aesKeyVec') = Pairs'
  BY <1>1, <1>2, <1>6
<1> QED
  BY <1>10, <1>12, <1>14, <1>15, <1>16 DEF CarriedPairInv

\* Every step keeps the pair that is carried the next of those checked.
LEMMA CarriedPairStep ==
    ASSUME TypeInv, Inv, CheckedInv, Next
    PROVE  CarriedPairInv'
<1>1. Excepted => Excepted'
  BY ExceptedStays
<1>2. CASE EncryptHeader
  BY <1>2, HeaderCarries
<1>3. CASE EncryptBlock
  BY <1>3, BlockCarries
<1>4. CASE TakePairs \/ DerivePairs
  <2>1. phase = "pairs" /\ phase' = "repeats" /\ offList' = offList /\ blocksList' = blocksList
    BY <1>4 DEF TakePairs, DerivePairs, Go, At, cipher
  <2>2. Pairs' = Pairs
    BY <2>1 DEF Pairs
  <2>3. Len(aesKeyVec') = Pairs
    <3>1. CASE DerivePairs
      BY <3>1, DerivedPairs DEF TypeInv
    <3>2. CASE TakePairs
      <4>1. aesKeyVec' = FirstOf(aesKeyVec) /\ Len(aesKeyVec) >= Pairs
        BY <3>2 DEF TakePairs
      <4>2. aesKeyVec \in Seq(KeyTexts) /\ Pairs \in Nat \ {0}
        BY FileType DEF TypeInv, KeysInv
      <4>3. Len(aesKeyVec') = Lesser(Pairs, Len(aesKeyVec))
        BY <4>1, <4>2, FirstOfType
      <4> QED BY <4>1, <4>2, <4>3 DEF Lesser
    <3> QED BY <1>4, <3>1, <3>2
  <2> QED BY <1>1, <2>1, <2>2, <2>3 DEF CheckedInv, CarriedPairInv
<1>5. CASE CheckPairs
  <2>1. /\ phase = "repeats" /\ phase' = "header" /\ UNCHANGED <<aesKeyVec, offList, blocksList>>
    BY <1>5 DEF CheckPairs, Go, At, cipher
  <2> QED BY <1>1, <2>1 DEF CheckedInv, CarriedPairInv, Pairs
<1>6. CASE \/ StartJob \/ GenerateKeyFile \/ ReadKeyFile \/ EndStream \/ StartPmcData \/ NextJob
  <2>1. phase' \in {"start", "file", "read", "pairs", "hash"} /\ offList' = offList
    BY <1>6 DEF StartJob, GenerateKeyFile, ReadKeyFile, EndStream, StartPmcData, NextJob, Go, At,
                cipher, position
  <2> QED BY <1>1, <2>1 DEF CheckedInv, CarriedPairInv
<1>7. CASE \/ RefuseBlocks \/ KeyFileExists \/ RefuseKeyFile \/ NoKeyToCopy
           \/ TooFewPairs \/ RefusePairs \/ Overrun \/ RefuseLength
  <2>1. UNCHANGED <<inputs, position, keys, cipher, blocksList>>
    BY <1>7 DEF RefuseBlocks, KeyFileExists, RefuseKeyFile, NoKeyToCopy, TooFewPairs,
                RefusePairs, Overrun, RefuseLength, Fail
  <2> QED BY <1>1, <2>1 DEF CheckedInv, CarriedPairInv, inputs, position, keys, cipher, Pairs, Pair, PairBytes, InLen
<1> QED
  BY <1>2, <1>3, <1>4, <1>5, <1>6, <1>7 DEF Next, ReadKeys, PreparePairs, Encrypt

\* A step that changes nothing keeps both.
LEMMA CheckedStutter ==
    ASSUME CheckedInv, UNCHANGED vars
    PROVE  CheckedInv'
<1>1. UNCHANGED <<inputs, position, keys, cipher, blocksList>>
  BY DEF vars
<1>2. Excepted => Excepted'
  BY ExceptedStays
<1>3. FirstPairInv'
  BY <1>1, <1>2 DEF CheckedInv, FirstPairInv, SharesContext, File, inputs, position, keys
<1>4. CarriedPairInv'
  BY <1>1, <1>2 DEF CheckedInv, CarriedPairInv, inputs, position, keys, cipher, Pairs, Pair, PairBytes, InLen
<1> QED
  BY <1>3, <1>4 DEF CheckedInv

\* Every secure header and block is encrypted under the pair that
\* CheckForRepeatedKeyIVPairs has checked for it, the first from the context and the
\* rest as carried by the record before, unless a file borrows the key or the IV of the
\* context or a block is left with no room.
THEOREM OnlyChecked == Spec => []OnlyCheckedPairs
<1>1. Inv /\ TypeInv /\ CheckedInv /\ [Next]_vars => Inv' /\ TypeInv' /\ CheckedInv'
  <2>1. ASSUME Inv, TypeInv, CheckedInv, Next PROVE Inv' /\ TypeInv' /\ CheckedInv'
    BY <2>1, KeyRollingStep, TypeStep, FirstPairStep, CarriedPairStep DEF CheckedInv, TypeInv
  <2> QED BY <2>1, KeyRollingStutter, TypeStutter, CheckedStutter
<1>2. Init => CheckedInv
  BY FreshContextType DEF Init, InitOf, CheckedInv, FirstPairInv, CarriedPairInv
<1>3. CheckedInv => OnlyCheckedPairs
  BY DEF CheckedInv, CarriedPairInv, OnlyCheckedPairs, Excepted
<1> QED
  BY InitFiles, TypeInit, <1>1, <1>2, <1>3, PTL DEF Spec

-----------------------------------------------------------------------------
(* Whole words.                                                            *)

\* Sums and differences of words.
LEMMA WordsAdd ==
    ASSUME NEW a \in WholeWords, NEW b \in WholeWords
    PROVE  /\ a + b \in WholeWords
           /\ b <= a => a - b \in WholeWords
BY DEF WholeWords, WordBytes

\* A number of times as many words.
LEMMA WordsTimes ==
    ASSUME NEW k \in Nat, NEW a \in WholeWords
    PROVE  k * a \in WholeWords /\ a \in Nat
<1>1. PICK d \in Nat : a = 4 * d
  <2>1. a \div 4 \in Nat /\ a = 4 * (a \div 4)
    BY DEF WholeWords, WordBytes
  <2> QED BY <2>1
<1>2. PICK e \in Nat : e = k * d
  BY ProductNat
<1>3. k * a = 4 * e
  BY <1>1, <1>2
<1> QED
  BY <1>1, <1>2, <1>3 DEF WholeWords, WordBytes

\* The sums of lists of words.
LEMMA WordSums ==
    ASSUME NEW s \in Seq(WholeWords)
    PROVE  \A i \in 0 .. Len(s) : Sums(s)[i] \in WholeWords
<1> DEFINE G == {i \in 0 .. Len(s) : Sums(s)[i] \in WholeWords}
<1>0. Len(s) \in Nat
  OBVIOUS
<1>1. 0 \in G
  <2>1. Sums(s)[0] = 0
    BY <1>0, SumsStep
  <2> QED BY <1>0, <2>1 DEF WholeWords, WordBytes
<1>2. ASSUME NEW i \in 1 .. Len(s), i - 1 \in G PROVE i \in G
  <2>1. Sums(s)[i] = Sums(s)[i - 1] + s[i]
    BY SumsStep
  <2> QED BY <2>1, <1>2, WordsAdd
<1> HIDE DEF G
<1>3. \A i \in 0 .. Len(s) : i \in G
  BY <1>0, <1>1, <1>2, UpToN
<1> QED
  BY <1>3 DEF G

\* Lists of words are lists of numbers.
LEMMA WordList ==
    ASSUME NEW s \in Seq(WholeWords)
    PROVE  s \in Seq(Nat)
<1>1. \A n \in WholeWords : n \in Nat
  BY DEF WholeWords
<1> QED
  BY <1>1

\* Room, blocks and overhead of a chunk are words, and so is what the last block
\* takes.
LEMMA EachOfWords ==
    ASSUME plan \in Seq(Job), NEW j \in DOMAIN plan, plan[j].kind # "bootloader", ~Misfit(j)
    PROVE  EncrBlocks(j) \in Seq(WholeWords)
<1> DEFINE U == UncutBlocks(j)
           n == Len(U)
           last == LastBlock(j)
<1>1. U \in Seq(WholeWords) /\ Taken(U, n) < ChunkSize(j)
  BY UncutFits
<1>2. n \in Nat /\ n \in 0 .. Len(U)
  BY <1>1
<1>3. SecureChunk \in WholeWords /\ HashLength \in WholeWords /\ Overhead \in WholeWords
  BY KeyRollingAssumption
<1>4. ChunkSize(j) \in WholeWords /\ ChunkSize(j) < WordModulus
  <2>1. SecureChunk - HashLength \in WholeWords
    <3>1. HashLength <= SecureChunk
      <4>1. Overhead * Overhead \in Nat
        BY Constants, ProductNat
      <4> QED BY Constants, <4>1
    <3> QED BY <1>3, <3>1, WordsAdd
  <2> QED BY <1>3, <2>1, ChunkRoom DEF ChunkSize
<1>5. Sums(U)[n] \in WholeWords
  BY <1>1, <1>2, WordSums
<1> HIDE DEF U, n
<1>6. Taken(U, n) \in WholeWords
  BY <1>2, <1>3, <1>5, WordsTimes, WordsAdd DEF Taken
<1>7. last = ChunkSize(j) - Taken(U, n) - Overhead /\ last > 0
  <2>1. \A w \in WholeWords : w \in Nat
    BY DEF WholeWords
  <2>2. last = ChunkSize(j) - Taken(U, n) - Overhead
    BY DEF LastBlock, U, n
  <2>3. last \in Int
    BY <1>3, <1>4, <1>6, <2>1, <2>2
  <2> QED BY <2>2, <2>3 DEF Misfit
<1>8. last \in WholeWords /\ last \in Nat /\ last < WordModulus
  <2>1. PICK c \in WholeWords : c = ChunkSize(j)
    BY <1>4
  <2>2. PICK t \in WholeWords : t = Taken(U, n)
    BY <1>6
  <2>3. c \in Nat /\ t \in Nat /\ Overhead \in Nat
    BY <1>3 DEF WholeWords
  <2>4. last = c - t - Overhead /\ last > 0
    BY <1>7, <2>1, <2>2
  <2>5. t <= c /\ Overhead <= c - t
    BY <2>3, <2>4
  <2>6. last \in WholeWords
    BY <1>3, <2>1, <2>2, <2>4, <2>5, WordsAdd
  <2>7. last \in Nat /\ last <= c
    BY <2>3, <2>4
  <2>8. c < WordModulus
    BY <1>4, <2>1
  <2> HIDE DEF last
  <2> QED BY <2>3, <2>6, <2>7, <2>8, Constants
<1>9. last % WordModulus = last
  <2> HIDE DEF last
  <2>1. WordModulus \in Nat \ {0} /\ last \in 0 .. (WordModulus - 1)
    BY <1>8, Constants
  <2> QED BY <2>1, SmallMod
<1>10. EncrBlocks(j) = Append(U, last)
  BY <1>9 DEF EncrBlocks, U
<1> HIDE DEF last
<1> QED
  BY <1>1, <1>8, <1>10

\* A list of blocks that is cut to words consists of words.
LEMMA CoverOfWords ==
    ASSUME NEW b \in Seq(WholeWords), b # <<>>, NEW r \in WholeWords \ {0}, r <= Total(b)
    PROVE  Cover(b, r) \in Seq(WholeWords)
<1> DEFINE c == Cover(b, r)
<1>1. b \in Seq(Nat) /\ r \in Nat \ {0}
  BY WordList DEF WholeWords
<1>2. /\ c \in Seq(Nat) /\ Len(c) \in 1 .. Len(b) /\ Total(c) = r
      /\ \A i \in 1 .. (Len(c) - 1) : c[i] = b[i]
  BY <1>1, CoverExact
<1> HIDE DEF c
<1>3. PICK n \in Nat : n + 1 = Len(c) /\ n <= Len(b)
  <2>1. Len(c) - 1 \in Nat /\ (Len(c) - 1) + 1 = Len(c) /\ Len(c) - 1 <= Len(b)
    BY <1>2
  <2> QED BY <2>1, ZenonT(30)
<1>4. Sums(c)[n] = Sums(b)[n]
  <2>1. /\ Len(b) \in Nat /\ Len(c) \in Nat /\ n <= Len(c) /\ n \in 0 .. n
        /\ \A i \in 1 .. n : c[i] = b[i]
    BY <1>2, <1>3
  <2> QED BY <1>3, <2>1, SumsAgree
<1>5. Sums(b)[n] \in WholeWords
  <2>1. n \in 0 .. Len(b)
    BY <1>3
  <2> QED BY <2>1, WordSums
<1>6. r = Sums(b)[n] + c[n + 1]
  <2>1. n + 1 \in 0 .. Len(c) /\ n + 1 # 0 /\ (n + 1) - 1 = n /\ Len(c) \in Nat
    BY <1>2, <1>3
  <2>2. Sums(c)[n + 1] = Sums(c)[n] + c[n + 1]
    BY <2>1, SumsStep
  <2> QED BY <1>2, <1>3, <1>4, <2>2 DEF Total
<1>7. c[n + 1] \in WholeWords
  <2>1. PICK s \in WholeWords : s = Sums(b)[n]
    BY <1>5
  <2>2. PICK l \in Nat : l = c[n + 1]
    BY <1>2, <1>3
  <2>3. r = s + l /\ s \in Nat /\ r \in Nat
    BY <1>1, <1>6, <2>1, <2>2 DEF WholeWords
  <2>4. s <= r /\ l = r - s
    BY <2>3
  <2> QED BY <2>1, <2>2, <2>4, WordsAdd
<1>8. \A i \in 1 .. Len(c) : c[i] \in WholeWords
  <2> SUFFICES ASSUME NEW i \in 1 .. Len(c) PROVE c[i] \in WholeWords
    OBVIOUS
  <2>1. CASE i = n + 1
    BY <1>7, <2>1
  <2>2. CASE i # n + 1
    <3>1. i \in 1 .. n /\ i \in 1 .. (Len(c) - 1) /\ i \in DOMAIN b
      BY <1>2, <1>3, <2>2
    <3>2. c[i] = b[i]
      BY <1>2, <3>1
    <3> QED BY <3>1, <3>2
  <2> QED BY <2>1, <2>2
<1>9. c = [i \in 1 .. Len(c) |-> c[i]] /\ Len(c) \in Nat
  BY <1>2
<1> QED
  BY <1>8, <1>9 DEF c

\* So do copies of it.
LEMMA CopiesOfWords ==
    ASSUME NEW b \in Seq(WholeWords), b # <<>>, NEW n \in Nat
    PROVE  Copies(b, n) \in Seq(WholeWords)
<1>1. PICK m \in Nat \ {0} : m = Len(b)
  OBVIOUS
<1>2. n * m \in Nat
  BY ProductNat
<1>3. \A i \in 1 .. (n * m) : ((i - 1) % m) + 1 \in 1 .. m
  <2> SUFFICES ASSUME NEW i \in 1 .. (n * m) PROVE ((i - 1) % m) + 1 \in 1 .. m
    OBVIOUS
  <2>1. i - 1 \in Nat
    BY <1>2
  <2>2. (i - 1) % m \in 0 .. (m - 1)
    BY <2>1
  <2> QED BY <2>2
<1>4. Copies(b, n) = [i \in 1 .. (n * m) |-> b[((i - 1) % m) + 1]]
  BY <1>1 DEF Copies
<1>5. \A i \in 1 .. m : b[i] \in WholeWords
  BY <1>1
<1> QED
  BY <1>2, <1>3, <1>4, <1>5

\* Every block that Process makes is a number of words, unless a block does not fit.
LEMMA BlocksOfWords ==
    ASSUME plan \in Seq(Job), NEW j \in DOMAIN plan, NEW L \in WholeWords \ {0},
           plan[j].kind = "bootloader" \/ ~Misfit(j)
    PROVE  BlocksList(j, L) \in Seq(WholeWords)
<1>1. CASE plan[j].kind = "bootloader"
  <2> DEFINE user == plan[j].blocks
             def  == plan[j].default
             left == L - Total(user)
             rest == IF left <= 0 THEN <<>>
                     ELSE IF def = 0 THEN <<left>>
                     ELSE [i \in 1 .. RoundedUp(left, def) |-> def]
  <2>1. user \in Seq(WholeWords) /\ def \in WholeWords /\ L \in Nat /\ def \in Nat
    BY JobFields DEF WholeWords
  <2>2. BlocksList(j, L) = user \o rest
    BY <1>1 DEF BlocksList, EncrBlocks
  <2> HIDE DEF user, def
  <2>3. Total(user) \in WholeWords /\ Total(user) \in Nat
    <3>1. Len(user) \in 0 .. Len(user)
      BY <2>1
    <3>2. Total(user) \in WholeWords
      BY <2>1, <3>1, WordSums DEF Total
    <3> QED BY <3>2 DEF WholeWords
  <2>4. left \in Int /\ (left > 0 => left \in WholeWords)
    <3>1. left \in Int /\ (left > 0 => Total(user) <= L)
      BY <2>1, <2>3
    <3> QED BY <2>3, <3>1, WordsAdd
  <2> HIDE DEF left
  <2>5. rest \in Seq(WholeWords)
    <3>1. CASE left <= 0
      BY <3>1
    <3>2. CASE ~(left <= 0) /\ def = 0
      BY <2>4, <3>2
    <3>3. CASE ~(left <= 0) /\ def # 0
      <4>1. RoundedUp(left, def) \in Nat
        <5>1. left \in Nat \ {0} /\ def \in Nat \ {0}
          BY <2>1, <2>4, <3>3
        <5> QED BY <5>1, RoundedUpCovers
      <4> QED BY <2>1, <3>3, <4>1
    <3> QED BY <3>1, <3>2, <3>3
  <2> HIDE DEF rest
  <2> QED BY <2>1, <2>2, <2>5
<1>2. CASE plan[j].kind # "bootloader"
  <2> DEFINE each == EncrBlocks(j)
             m == Len(each)
             actual == (ChunkSize(j) - m * Overhead) % WordModulus
             q == L \div actual
             r == L % actual
             rest == IF r = 0 THEN <<>> ELSE Cover(each, r)
  <2>1. each \in Seq(WholeWords) /\ L \in Nat
    BY <1>1, <1>2, EachOfWords DEF WholeWords
  <2>2. /\ m \in Nat \ {0} /\ actual \in Nat \ {0} /\ Total(each) = actual
    BY <1>1, <1>2, EachFills
  <2>3. actual \in WholeWords
    <3>1. m \in 0 .. Len(each)
      BY <2>2
    <3> QED BY <2>1, <2>2, <3>1, WordSums DEF Total
  <2>4. BlocksList(j, L) = Copies(each, q) \o rest
    BY <1>2 DEF BlocksList
  <2> HIDE DEF each, actual
  <2>5. q \in Nat /\ r \in 0 .. (actual - 1) /\ L = q * actual + r /\ q * actual \in Nat
    BY <2>1, <2>2, Division
  <2> HIDE DEF q, r
  <2>6. r \in WholeWords
    <3>1. PICK x \in WholeWords : x = q * actual /\ x \in Nat
      BY <2>3, <2>5, WordsTimes
    <3>2. x <= L /\ r = L - x
      BY <2>1, <2>2, <2>5, <3>1
    <3> QED BY <3>1, <3>2, WordsAdd
  <2>7. Copies(each, q) \in Seq(WholeWords)
    BY <2>1, <2>2, <2>5, CopiesOfWords
  <2>8. rest \in Seq(WholeWords)
    <3>1. CASE r = 0
      BY <3>1
    <3>2. CASE r # 0
      <4>1. each # <<>> /\ r <= Total(each) /\ r \in WholeWords \ {0}
        BY <2>2, <2>5, <2>6, <3>2
      <4> QED BY <2>1, <3>2, <4>1, CoverOfWords
    <3> QED BY <3>1, <3>2
  <2> HIDE DEF rest
  <2> QED BY <2>4, <2>7, <2>8
<1> QED
  BY <1>1, <1>2

-----------------------------------------------------------------------------
(* The sizes of the blocks.                                                *)

\* Sizes are uint32_t: so are the sum of the user's blocks, and the length of a
\* partition with one more block of the default size.
SizesFit ==
    \A input \in Inputs : \A j \in DOMAIN input.plan :
        /\ Total(input.plan[j].blocks) < WordModulus
        /\ Total(input.plan[j].lengths) + input.plan[j].default < WordModulus

\* Every block of partition j has a size.
Fitting(j) == plan[j].kind = "bootloader" \/ ~Misfit(j)

\* Blocks end where the sums of the list say, or with the data.
SizesInv ==
    phase = "block" /\ Fitting(job) =>
        /\ blkPtr \in 1 .. (Len(blocksList) + 1)
        /\ bytesWritten = Lesser(Sums(blocksList)[blkPtr - 1], InLen)
        /\ bytesWritten + nextBlkSize =
              Lesser(Sums(blocksList)[Lesser(blkPtr, Len(blocksList))], InLen)

\* The part that is encrypted is not longer than the partition, and but for a
\* bootloader it is all of it.
LEMMA PartLength ==
    ASSUME PositionInv
    PROVE  /\ InLen \in WholeWords \ {0} /\ Total(plan[job].lengths) \in WholeWords \ {0}
           /\ InLen <= Total(plan[job].lengths)
           /\ plan[job].kind # "bootloader" =>
                 InLen = Total(plan[job].lengths) /\ Len(plan[job].lengths) = 1
<1> DEFINE s == plan[job].lengths
<1>1. /\ plan \in Seq(Job) /\ job \in DOMAIN plan
      /\ s \in Seq(Nat \ {0}) /\ Total(s) \in Nat \ {0}
  BY PlanFacts
<1>2. s \in Seq(WholeWords)
  BY <1>1, JobFields
<1>3. stream \in DOMAIN s /\ InLen = s[stream]
  BY DEF PositionInv, InLen
<1>4. plan[job].kind # "bootloader" => Len(s) = 1
  <2>1. PICK input \in Inputs : plan = input.plan
    BY DEF PositionInv
  <2> QED BY <1>1, <2>1, InputsAssumption
<1> HIDE DEF s
<1>5. InLen \in WholeWords \ {0}
  BY <1>1, <1>2, <1>3
<1>6. PICK n \in Nat : n = Len(s) /\ stream \in 1 .. n /\ DOMAIN s = 1 .. n
  BY <1>1, <1>3
<1>7. s \in Seq(Nat) /\ \A i \in 0 .. n : Sums(s)[i] \in Nat
  <2>1. s \in Seq(Nat)
    BY <1>1
  <2> QED BY <1>6, <2>1, SumsNat
<1>8. Sums(s)[stream] = Sums(s)[stream - 1] + s[stream]
  <2>1. stream \in 0 .. Len(s) /\ stream # 0 /\ Len(s) \in Nat
    BY <1>6
  <2> QED BY <2>1, SumsStep
<1>9. Sums(s)[stream] <= Sums(s)[n]
  <2>1. stream \in 0 .. Len(s) /\ n \in stream .. Len(s)
    BY <1>6
  <2> QED BY <1>7, <2>1, SumsGrow
<1>10. InLen <= Total(s)
  <2>1. stream \in 0 .. n /\ stream - 1 \in 0 .. n /\ n \in 0 .. n
    BY <1>6
  <2>2. InLen \in Nat
    BY <1>5 DEF WholeWords
  <2> QED BY <1>3, <1>6, <1>7, <1>8, <1>9, <2>1, <2>2 DEF Total
<1>11. Total(s) \in WholeWords
  <2>1. n \in 0 .. Len(s)
    BY <1>6
  <2> QED BY <1>2, <1>6, <2>1, WordSums DEF Total
<1>12. n = 1 => InLen = Total(s)
  <2> SUFFICES ASSUME n = 1 PROVE InLen = Total(s)
    OBVIOUS
  <2>1. stream = 1 /\ 0 \in 0 .. Len(s) /\ Len(s) \in Nat
    BY <1>6
  <2>2. Sums(s)[0] = 0
    BY <2>1, SumsStep
  <2>3. PICK x \in Nat : x = InLen /\ x = s[stream]
    BY <1>3, <1>5 DEF WholeWords
  <2>4. stream - 1 = 0 /\ Len(s) = stream
    BY <1>6, <2>1
  <2>5. Sums(s)[stream] = 0 + x
    BY <1>8, <2>2, <2>3, <2>4
  <2> QED BY <2>3, <2>4, <2>5 DEF Total
<1> QED
  BY <1>1, <1>4, <1>5, <1>6, <1>10, <1>11, <1>12 DEF s

\* When every block has a size, the list covers the partition.
LEMMA FittingList ==
    ASSUME PositionInv, phase \notin {"start", "hash"}, Fitting(job)
    PROVE  /\ blocksList \in Seq(Nat \ {0}) /\ blocksList \in Seq(WholeWords)
           /\ Len(blocksList) \in Nat \ {0}
           /\ Total(plan[job].lengths) <= Total(blocksList) /\ Total(blocksList) \in Nat
           /\ plan[job].kind # "bootloader" => Total(blocksList) = InLen
           /\ SizesFit => Total(blocksList) < WordModulus
<1> DEFINE L == Total(plan[job].lengths)
<1>1. /\ plan \in Seq(Job) /\ job \in DOMAIN plan /\ L \in WholeWords \ {0}
  BY PlanFacts, PartLength
<1>2. L \in Nat \ {0}
  BY <1>1 DEF WholeWords
<1>3. blocksList = BlocksList(job, L) /\ Len(blocksList) \in Nat \ {0}
  BY ListType
<1> HIDE DEF L
<1>4. blocksList \in Seq(WholeWords)
  BY <1>1, <1>3, BlocksOfWords DEF Fitting
<1>5. Total(blocksList) \in Nat
  <2>1. blocksList \in Seq(Nat) /\ Len(blocksList) \in 0 .. Len(blocksList)
    BY <1>3, <1>4, WordList
  <2> QED BY <2>1, SumsNat DEF Total
<1>6. CASE plan[job].kind = "bootloader"
  <2>1. blocksList \in Seq(Nat \ {0}) /\ L <= Total(blocksList)
    BY <1>1, <1>2, <1>3, <1>6, BootloaderBlocks
  <2>2. \/ Total(blocksList) = Total(plan[job].blocks)
        \/ Total(blocksList) <= L + plan[job].default
    BY <1>1, <1>2, <1>3, <1>6, BootloaderBlocks
  <2>3. SizesFit => Total(plan[job].blocks) < WordModulus /\ L + plan[job].default < WordModulus
    <3>1. PICK input \in Inputs : plan = input.plan
      BY DEF PositionInv
    <3> QED BY <1>1, <3>1 DEF SizesFit, L
  <2>4. plan[job].default \in Nat /\ WordModulus \in Nat
    BY <1>1, JobFields, Constants
  <2>5. SizesFit => Total(blocksList) < WordModulus
    BY <1>2, <1>5, <2>2, <2>3, <2>4
  <2> QED BY <1>3, <1>4, <1>5, <1>6, <2>1, <2>5 DEF L
<1>7. CASE plan[job].kind # "bootloader"
  <2>1. ~Misfit(job)
    BY <1>7 DEF Fitting
  <2>2. blocksList \in Seq(Nat \ {0}) /\ Total(blocksList) = L
    BY <1>1, <1>2, <1>3, <1>7, <2>1, ChunkedBlocks
  <2>3. InLen = L
    BY <1>7, PartLength DEF L
  <2>4. SizesFit => L < WordModulus
    <3>1. PICK input \in Inputs : plan = input.plan
      BY DEF PositionInv
    <3>2. SizesFit => L + plan[job].default < WordModulus
      BY <1>1, <3>1 DEF SizesFit, L
    <3>3. plan[job].default \in Nat /\ WordModulus \in Nat
      BY <1>1, JobFields, Constants
    <3> QED BY <1>2, <3>2, <3>3
  <2> QED BY <1>2, <1>3, <1>4, <2>2, <2>3, <2>4 DEF L
<1> QED
  BY <1>6, <1>7

\* All other steps leave what is encrypted alone, and the block where it is.
LEMMA OtherSteps ==
    ASSUME Next \/ UNCHANGED vars, ~EncryptHeader, ~EncryptBlock
    PROVE  /\ UNCHANGED cipher
           /\ phase' = "block" => UNCHANGED <<position, blocksList, aesKeyVec>>
<1>1. CASE UNCHANGED vars
  BY <1>1 DEF vars, keys
<1>2. CASE \/ StartJob \/ GenerateKeyFile \/ ReadKeyFile \/ EndStream \/ StartPmcData
           \/ TakePairs \/ DerivePairs \/ CheckPairs
  <2>1. phase' # "block" /\ UNCHANGED cipher
    BY <1>2 DEF StartJob, GenerateKeyFile, ReadKeyFile, EndStream, StartPmcData, TakePairs,
                DerivePairs, CheckPairs, Go
  <2> QED BY <2>1
<1>3. CASE NextJob
  <2>1. UNCHANGED cipher /\ phase' # "block"
    BY <1>3 DEF NextJob, At, position
  <2> QED BY <2>1
<1>4. CASE \/ RefuseBlocks \/ KeyFileExists \/ RefuseKeyFile \/ NoKeyToCopy
           \/ TooFewPairs \/ RefusePairs \/ Overrun \/ RefuseLength
  BY <1>4 DEF RefuseBlocks, KeyFileExists, RefuseKeyFile, NoKeyToCopy, TooFewPairs,
              RefusePairs, Overrun, RefuseLength, Fail, keys
<1> QED
  BY <1>1, <1>2, <1>3, <1>4 DEF Next, ReadKeys, PreparePairs, Encrypt

\* Of two numbers one is the lesser.
LEMMA LesserType ==
    ASSUME NEW a \in Nat, NEW b \in Nat
    PROVE  /\ Lesser(a, b) \in Nat /\ Lesser(a, b) <= a /\ Lesser(a, b) <= b
           /\ a <= b => Lesser(a, b) = a
           /\ b <= a => Lesser(a, b) = b
BY DEF Lesser

\* The secure header announces the first block.
LEMMA HeaderSizes ==
    ASSUME TypeInv, EncryptHeader
    PROVE  SizesInv'
<1>1. /\ bytesWritten' = 0 /\ blkPtr' = 1 /\ nextBlkSize' = Lesser(blocksList[1], InLen)
      /\ phase = "header" /\ phase' = "block" /\ UNCHANGED <<plan, job, stream, blocksList>>
  BY DEF EncryptHeader, AddRecord, At, Go, inputs
<1>2. Fitting(job)' = Fitting(job) /\ InLen' = InLen
  <2>1. \A j : Misfit(j)' = Misfit(j)
    BY <1>1 DEF Misfit, LastBlock, ChunkSize, Signed, UncutBlocks, WholeBlocks, DefaultBlocks
  <2> QED BY <1>1, <2>1 DEF Fitting, InLen
<1> SUFFICES ASSUME Fitting(job)
             PROVE  /\ 1 \in 1 .. (Len(blocksList) + 1)
                    /\ 0 = Lesser(Sums(blocksList)[1 - 1], InLen)
                    /\ 0 + Lesser(blocksList[1], InLen) =
                          Lesser(Sums(blocksList)[Lesser(1, Len(blocksList))], InLen)
  BY <1>1, <1>2 DEF SizesInv
<1>3. /\ blocksList \in Seq(Nat \ {0}) /\ Len(blocksList) \in Nat \ {0} /\ InLen \in Nat \ {0}
  BY <1>1, FittingList, FileType DEF TypeInv
<1>4. /\ Sums(blocksList)[0] = 0 /\ Sums(blocksList)[1] = Sums(blocksList)[0] + blocksList[1]
  <2>1. 0 \in 0 .. Len(blocksList) /\ 1 \in 0 .. Len(blocksList) /\ 1 - 1 = 0
    BY <1>3
  <2>2. \A i \in 0 .. Len(blocksList) :
           Sums(blocksList)[i] = IF i = 0 THEN 0 ELSE Sums(blocksList)[i - 1] + blocksList[i]
    BY <1>3, SumsStep
  <2>3. Sums(blocksList)[1] = Sums(blocksList)[1 - 1] + blocksList[1]
    BY <2>1, <2>2
  <2> QED BY <2>1, <2>2, <2>3
<1>5. PICK b \in Nat : b = blocksList[1]
  <2>1. 1 \in DOMAIN blocksList
    BY <1>3
  <2> QED BY <1>3, <2>1
<1>6. Lesser(1, Len(blocksList)) = 1
  BY <1>3 DEF Lesser
<1>7. 1 - 1 = 0 /\ Sums(blocksList)[1] = b
  BY <1>4, <1>5
<1>8. Lesser(0, InLen) = 0 /\ 0 + Lesser(b, InLen) = Lesser(b, InLen)
  BY <1>3 DEF Lesser
<1>9. 1 \in 1 .. (Len(blocksList) + 1)
  BY <1>3
<1> QED
  BY <1>4, <1>5, <1>6, <1>7, <1>8, <1>9

\* Where the block that is encrypted ends, and how far the one after it goes.
LEMMA NextBlockSize ==
    ASSUME SizesFit, TypeInv, SizesInv, phase = "block", Fitting(job), bytesWritten < InLen
    PROVE  LET n == Len(blocksList)
               written == bytesWritten + nextBlkSize
           IN  /\ n \in Nat /\ blkPtr \in 1 .. n
               /\ written \in Nat /\ written <= InLen
               /\ written = Lesser(Sums(blocksList)[blkPtr], InLen)
               /\ written + NextSize(written) =
                     Lesser(Sums(blocksList)[Lesser(blkPtr + 1, n)], InLen)
               /\ blkPtr = n => NextSize(written) = 0
               /\ written = InLen => NextSize(written) = 0
               /\ written < InLen => NextSize(written) # 0
               /\ NextSize(written) \in WholeWords
<1> DEFINE B == blocksList
           S == Sums(B)
           written == bytesWritten + nextBlkSize
           next == NextSize(written)
<1>1. /\ B \in Seq(Nat \ {0}) /\ B \in Seq(Nat) /\ B \in Seq(WholeWords)
      /\ Len(B) \in Nat \ {0} /\ Total(B) \in Nat /\ Total(B) < WordModulus
      /\ Total(plan[job].lengths) <= Total(B)
  <2>1. PositionInv /\ phase \notin {"start", "hash"}
    BY DEF TypeInv
  <2> QED BY <2>1, FittingList
<1>2. InLen \in Nat \ {0} /\ InLen \in WholeWords /\ InLen <= Total(B)
  <2>1. /\ InLen \in Nat \ {0} /\ InLen \in WholeWords /\ InLen <= Total(plan[job].lengths)
        /\ Total(plan[job].lengths) \in Nat
    BY FileType, PartLength DEF TypeInv, WholeWords
  <2> QED BY <1>1, <2>1
<1>3. PICK n \in Nat : n = Len(B) /\ n # 0
  BY <1>1
<1>4. PICK len \in Nat : len = InLen
  BY <1>2
<1>5. /\ \A i \in 0 .. n : S[i] \in Nat /\ S[i] \in WholeWords
      /\ \A i \in 1 .. n : S[i] = S[i - 1] + B[i] /\ B[i] \in Nat \ {0}
      /\ \A i \in 0 .. n : S[i] <= S[n]
      /\ S[n] = Total(B)
  <2>1. \A i \in 0 .. n : S[i] \in Nat
    BY <1>1, <1>3, SumsNat
  <2>2. \A i \in 0 .. n : S[i] \in WholeWords
    BY <1>1, <1>3, WordSums
  <2>3. ASSUME NEW i \in 1 .. n PROVE S[i] = S[i - 1] + B[i] /\ B[i] \in Nat \ {0}
    <3>1. i \in 0 .. Len(B) /\ i # 0 /\ Len(B) \in Nat /\ i \in DOMAIN B
      BY <1>1, <1>3
    <3> QED BY <1>1, <3>1, SumsStep
  <2>4. ASSUME NEW i \in 0 .. n PROVE S[i] <= S[n]
    <3>1. i \in 0 .. Len(B) /\ n \in i .. Len(B)
      BY <1>3
    <3> QED BY <1>1, <3>1, SumsGrow
  <2> QED BY <1>3, <2>1, <2>2, <2>3, <2>4 DEF Total
<1>6. /\ blkPtr \in 1 .. (n + 1) /\ bytesWritten = Lesser(S[blkPtr - 1], len)
      /\ written = Lesser(S[Lesser(blkPtr, n)], len)
  BY <1>3, <1>4 DEF SizesInv
<1> HIDE DEF B, S
<1>7. blkPtr \in 1 .. n
  <2> SUFFICES ASSUME blkPtr = n + 1 PROVE FALSE
    BY <1>3, <1>6
  <2>1. bytesWritten = Lesser(S[n], len)
    <3>1. blkPtr - 1 = n
      BY <1>3
    <3> QED BY <1>6, <3>1
  <2>2. n \in 0 .. n
    BY <1>3
  <2>3. S[n] \in Nat /\ len <= S[n]
    BY <1>2, <1>4, <1>5, <2>2
  <2>4. bytesWritten = len
    BY <2>1, <2>3, LesserType
  <2> QED BY <1>4, <2>4
<1>8. PICK p \in 1 .. n : p = blkPtr
  BY <1>7
<1>9. PICK sp \in Nat : sp = S[p]
  <2>1. p \in 0 .. n
    BY <1>8
  <2> QED BY <1>5, <2>1
<1>10. written = Lesser(sp, len)
  <2>1. Lesser(blkPtr, n) = p
    BY <1>3, <1>8 DEF Lesser
  <2> QED BY <1>6, <1>9, <2>1
<1> HIDE DEF written
<1>11. PICK w \in Nat : w = written /\ w <= len /\ w <= sp /\ (sp <= len => w = sp) /\ (len <= sp => w = len)
  BY <1>10, LesserType
<1>12. len < WordModulus /\ WordModulus \in Nat
  BY <1>1, <1>2, <1>4, Constants
<1>13. ASSUME p < n
       PROVE  /\ w + next = Lesser(S[p + 1], len)
              /\ w = len => next = 0
              /\ w < len => next # 0
              /\ next \in Nat
  <2>1. p + 1 \in 1 .. n /\ p + 1 \in 0 .. n /\ (p + 1) - 1 = p /\ n \in 0 .. n
    BY <1>3, <1>13
  <2>2. PICK b \in Nat \ {0} : b = B[p + 1]
    BY <1>5, <2>1
  <2>3. PICK t \in Nat : t = S[p + 1] /\ t = sp + b /\ t < WordModulus
    <3>1. S[p + 1] = sp + b /\ S[p + 1] <= S[n] /\ S[p + 1] \in Nat /\ S[n] \in Nat
      BY <1>5, <1>9, <2>1, <2>2
    <3> QED BY <1>1, <1>5, <1>12, <3>1
  <2>4. next = IF (b + w) % WordModulus > len THEN len - w ELSE b
    BY <1>3, <1>4, <1>8, <1>11, <1>13, <2>2 DEF NextSize, B
  <2>5. (b + w) % WordModulus = b + w
    <3>1. b + w \in Nat /\ b + w < WordModulus
      BY <1>11, <1>12, <2>3
    <3>2. WordModulus \in Nat \ {0} /\ b + w \in 0 .. (WordModulus - 1)
      BY <1>12, <3>1
    <3> QED BY <3>2, SmallMod
  <2> HIDE DEF next
  <2>6. next = IF b + w > len THEN len - w ELSE b
    BY <2>4, <2>5
  <2>7. next \in Nat /\ (w = len => next = 0) /\ (w < len => next # 0)
    BY <1>11, <2>6
  <2>8. w + next = Lesser(t, len)
    <3>1. CASE b + w > len
      <4>1. w + next = len /\ t >= len
        BY <1>11, <2>3, <2>6, <3>1
      <4> QED BY <4>1, LesserType
    <3>2. CASE ~(b + w > len)
      <4>1. w + next = b + w /\ w < len
        BY <1>11, <2>6, <3>2
      <4>2. w = sp
        BY <1>11, <4>1
      <4>3. w + next = t /\ t <= len
        BY <2>3, <3>2, <4>1, <4>2
      <4> QED BY <4>3, LesserType
    <3> QED BY <3>1, <3>2
  <2> QED BY <2>3, <2>7, <2>8
<1>14. ASSUME p = n
       PROVE  w = len /\ next = 0
  <2>1. n \in 0 .. n /\ len <= sp
    BY <1>2, <1>4, <1>5, <1>9, <1>14
  <2>2. w = len
    BY <1>11, <2>1
  <2>3. next = IF (0 + len) % WordModulus > len THEN 0 ELSE 0
    <3>1. ~(p < Len(blocksList)) /\ len - len = 0
      BY <1>3, <1>14 DEF B
    <3> QED BY <1>4, <1>8, <1>11, <2>2, <3>1 DEF NextSize
  <2> QED BY <2>2, <2>3
<1>15. w + next = Lesser(S[Lesser(p + 1, n)], len)
  <2>1. CASE p < n
    <3>1. Lesser(p + 1, n) = p + 1
      BY <1>3, <2>1 DEF Lesser
    <3> QED BY <1>13, <2>1, <3>1
  <2>2. CASE p = n
    <3>1. Lesser(p + 1, n) = n
      BY <1>3, <2>2 DEF Lesser
    <3>2. Lesser(sp, len) = len /\ w + next = len
      BY <1>10, <1>11, <1>14, <2>2
    <3> QED BY <1>9, <2>2, <3>1, <3>2
  <2> QED BY <2>1, <2>2
<1>16. next \in WholeWords
  <2>1. len \in WholeWords /\ sp \in WholeWords
    <3>1. p \in 0 .. n
      BY <1>8
    <3> QED BY <1>2, <1>4, <1>5, <1>9, <3>1
  <2>2. w \in WholeWords
    BY <1>10, <1>11, <2>1 DEF Lesser
  <2>3. PICK m \in 0 .. n : m = Lesser(p + 1, n)
    BY <1>3 DEF Lesser
  <2>4. S[m] \in WholeWords
    BY <1>5
  <2>5. PICK e \in WholeWords : e = Lesser(S[m], len)
    BY <2>1, <2>4 DEF Lesser
  <2>6. next \in Nat
    BY <1>13, <1>14
  <2> HIDE DEF next
  <2>7. e = w + next
    BY <1>15, <2>3, <2>5
  <2>8. e - w = next /\ w <= e
    BY <1>11, <2>6, <2>7
  <2> QED BY <2>2, <2>5, <2>8, WordsAdd
<1> HIDE DEF next
<1>17. /\ w = len => next = 0
       /\ w < len => next # 0
       /\ p = n => next = 0
  BY <1>11, <1>13, <1>14, <1>8
<1> QED
  BY <1>3, <1>4, <1>7, <1>8, <1>9, <1>10, <1>11, <1>15, <1>16, <1>17 DEF written, next, B, S

\* The block after the one that is encrypted begins where that one ends.
LEMMA BlockSizes ==
    ASSUME SizesFit, TypeInv, SizesInv, EncryptBlock
    PROVE  SizesInv'
<1> DEFINE written == bytesWritten + nextBlkSize
           next == NextSize(written)
<1>1. /\ bytesWritten' = written /\ blkPtr' = blkPtr + 1 /\ nextBlkSize' = next
      /\ phase = "block" /\ phase' = "block" /\ UNCHANGED <<plan, job, stream, blocksList>>
      /\ bytesWritten < InLen
  BY DEF EncryptBlock, AddRecord, At, position, inputs
<1>2. Fitting(job)' = Fitting(job) /\ InLen' = InLen
  <2>1. \A j : Misfit(j)' = Misfit(j)
    BY <1>1 DEF Misfit, LastBlock, ChunkSize, Signed, UncutBlocks, WholeBlocks, DefaultBlocks
  <2> QED BY <1>1, <2>1 DEF Fitting, InLen
<1> SUFFICES ASSUME Fitting(job)
             PROVE  /\ blkPtr + 1 \in 1 .. (Len(blocksList) + 1)
                    /\ written = Lesser(Sums(blocksList)[(blkPtr + 1) - 1], InLen)
                    /\ written + next =
                          Lesser(Sums(blocksList)[Lesser(blkPtr + 1, Len(blocksList))], InLen)
  BY <1>1, <1>2 DEF SizesInv
<1>3. /\ Len(blocksList) \in Nat /\ blkPtr \in 1 .. Len(blocksList)
      /\ written = Lesser(Sums(blocksList)[blkPtr], InLen)
      /\ written + next = Lesser(Sums(blocksList)[Lesser(blkPtr + 1, Len(blocksList))], InLen)
  BY <1>1, NextBlockSize
<1>4. (blkPtr + 1) - 1 = blkPtr /\ blkPtr + 1 \in 1 .. (Len(blocksList) + 1)
  BY <1>3
<1> QED
  BY <1>3, <1>4

\* Every step keeps the blocks where the sums say.
LEMMA SizesStep ==
    ASSUME SizesFit, TypeInv, SizesInv, Next \/ UNCHANGED vars
    PROVE  SizesInv'
<1>1. CASE EncryptHeader
  BY <1>1, HeaderSizes
<1>2. CASE EncryptBlock
  BY <1>2, BlockSizes
<1>3. CASE ~EncryptHeader /\ ~EncryptBlock
  <2>1. UNCHANGED cipher /\ (phase' = "block" => UNCHANGED <<position, blocksList, aesKeyVec>>)
    BY <1>3, OtherSteps
  <2>2. UNCHANGED plan
    BY PlanConstant
  <2>3. \A j : Misfit(j)' = Misfit(j)
    BY <2>2 DEF Misfit, LastBlock, ChunkSize, Signed, UncutBlocks, WholeBlocks, DefaultBlocks
  <2>4. CASE phase' = "block"
    <3>1. UNCHANGED <<job, stream, phase, blocksList, blkPtr, bytesWritten, nextBlkSize>>
      BY <2>1, <2>4 DEF position, cipher
    <3>2. Fitting(job)' = Fitting(job) /\ InLen' = InLen
      BY <2>2, <2>3, <3>1 DEF Fitting, InLen
    <3> QED BY <3>1, <3>2 DEF SizesInv
  <2>5. CASE phase' # "block"
    BY <2>5 DEF SizesInv
  <2> QED BY <2>4, <2>5
<1> QED
  BY <1>1, <1>2, <1>3

\* A part that is written has taken all blocks, if it is all of its partition.
LEMMA AllTaken ==
    ASSUME SizesFit, TypeInv, SizesInv, phase = "block", Fitting(job), bytesWritten >= InLen
    PROVE  /\ blkPtr \in 1 .. Pairs /\ Pairs \in Nat
           /\ bytesWritten = InLen /\ nextBlkSize = 0
           /\ plan[job].kind # "bootloader" => blkPtr = Pairs
<1> DEFINE B == blocksList
           S == Sums(B)
<1>1. /\ B \in Seq(Nat \ {0}) /\ B \in Seq(Nat) /\ Len(B) \in Nat \ {0}
      /\ plan[job].kind # "bootloader" => Total(B) = InLen
  <2>1. PositionInv /\ phase \notin {"start", "hash"}
    BY DEF TypeInv
  <2> QED BY <2>1, FittingList
<1>2. PICK n \in Nat : n = Len(B) /\ n # 0 /\ Pairs = n + 1
  BY <1>1 DEF Pairs
<1>3. PICK p \in 1 .. (n + 1) : p = blkPtr
  BY <1>2 DEF SizesInv
<1>4. PICK len \in Nat : len = InLen
  BY FileType DEF TypeInv
<1>5. \A i \in 0 .. n : S[i] \in Nat
  BY <1>1, <1>2, SumsNat
<1>6. bytesWritten = Lesser(S[p - 1], len) /\ bytesWritten + nextBlkSize = Lesser(S[Lesser(p, n)], len)
  BY <1>2, <1>3, <1>4 DEF SizesInv
<1>7. bytesWritten \in Nat /\ nextBlkSize \in Nat
  BY DEF TypeInv, CountsInv
<1> HIDE DEF B, S
<1>8. p - 1 \in 0 .. n /\ Lesser(p, n) \in 0 .. n
  BY <1>2, <1>3 DEF Lesser
<1>9. PICK a \in Nat, b \in Nat : a = S[p - 1] /\ b = S[Lesser(p, n)]
  BY <1>5, <1>8
<1>10. bytesWritten = len /\ nextBlkSize = 0 /\ a >= len
  <2>1. /\ Lesser(a, len) \in Nat /\ Lesser(a, len) <= len /\ Lesser(a, len) <= a
        /\ Lesser(b, len) \in Nat /\ Lesser(b, len) <= len
    BY LesserType
  <2> QED BY <1>4, <1>6, <1>7, <1>9, <2>1
<1>11. ASSUME plan[job].kind # "bootloader" PROVE p = n + 1
  <2> SUFFICES ASSUME p \in 1 .. n PROVE FALSE
    BY <1>2, <1>3
  <2>1. S[p] = S[p - 1] + B[p] /\ B[p] \in Nat \ {0}
    <3>1. p \in 0 .. Len(B) /\ p # 0 /\ Len(B) \in Nat /\ p \in DOMAIN B
      BY <1>1, <1>2
    <3> QED BY <1>1, <3>1, SumsStep DEF S
  <2>2. S[p] <= S[n]
    <3>1. p \in 0 .. Len(B) /\ n \in p .. Len(B)
      BY <1>2
    <3> QED BY <1>1, <3>1, SumsGrow DEF S
  <2>3. S[n] = len
    BY <1>1, <1>2, <1>4, <1>11 DEF Total, S
  <2>4. p \in 0 .. n /\ S[p] \in Nat
    BY <1>5
  <2> QED BY <1>9, <1>10, <2>1, <2>2, <2>3, <2>4
<1> QED
  BY <1>2, <1>3, <1>4, <1>10, <1>11

\* Neither data nor pairs are missing, and what was set aside is enough.
LEMMA EnoughOfAll ==
    ASSUME SizesFit, TypeInv, CheckedInv, SizesInv
    PROVE  NeverOverrun
<1> SUFFICES ASSUME ~SomeMisfit, phase = "block"
             PROVE  IF bytesWritten < InLen
                    THEN ~Outside /\ ~PairMissing(NextSize(bytesWritten + nextBlkSize))
                    ELSE Actual <= Estimated /\ ~LengthRefused
  BY DEF NeverOverrun
<1>1. Fitting(job)
  <2>1. plan[job].encrypted /\ job \in DOMAIN plan
    BY DEF TypeInv, PositionInv
  <2> QED BY <2>1 DEF SomeMisfit, Fitting
<1>2. CASE bytesWritten < InLen
  <2> DEFINE written == bytesWritten + nextBlkSize
             next == NextSize(written)
             n == Len(blocksList)
  <2>1. /\ n \in Nat /\ blkPtr \in 1 .. n /\ written <= InLen /\ (blkPtr = n => next = 0)
        /\ written \in Nat /\ InLen \in Nat
    BY <1>1, <1>2, NextBlockSize, FileType DEF TypeInv
  <2>2. ~Outside
    BY <2>1 DEF Outside
  <2>3. Len(aesKeyVec) = n + 1
    BY DEF CheckedInv, CarriedPairInv, Pairs
  <2>4. ~PairMissing(next)
    <3> HIDE DEF next, n
    <3> QED BY <2>1, <2>3 DEF PairMissing
  <2> QED BY <1>2, <2>2, <2>4
<1>3. CASE ~(bytesWritten < InLen)
  <2>1. InLen \in Nat /\ bytesWritten \in Nat
    BY FileType DEF TypeInv, CountsInv
  <2>2. /\ blkPtr \in 1 .. Pairs /\ Pairs \in Nat
        /\ plan[job].kind # "bootloader" => blkPtr = Pairs
    BY <1>1, <1>3, <2>1, AllTaken
  <2>3. blkPtr * Overhead <= Pairs * Overhead
    BY <2>2, Constants, Grows
  <2>4. blkPtr * Overhead \in Nat /\ Pairs * Overhead \in Nat
    BY <2>2, Constants, ProductNat
  <2>5. Actual <= Estimated
    BY <2>1, <2>3, <2>4 DEF Actual, Estimated
  <2>6. Actual \in Nat /\ Estimated \in Nat
    BY <2>1, <2>4 DEF Actual, Estimated
  <2>7. plan[job].kind = "metaheader" => Actual = Estimated
    BY <2>2 DEF Actual, Estimated
  <2>8. ~LengthRefused
    <3>1. ~(Actual > Estimated)
      BY <2>5, <2>6
    <3> QED BY <2>7, <3>1 DEF LengthRefused
  <2> QED BY <1>3, <2>5, <2>8
<1> QED
  BY <1>2, <1>3

\* While a part is encrypted, neither data nor pairs are taken from beyond their
\* end, the meta header fills exactly what was set aside for it and a bootloader with
\* PMC data no more, however the blocks are cut, unless one is left with no room.
THEOREM NothingOverrun ==
    ASSUME SizesFit
    PROVE  Spec => []NeverOverrun
<1>1. Inv /\ TypeInv /\ CheckedInv /\ SizesInv /\ [Next]_vars
          => Inv' /\ TypeInv' /\ CheckedInv' /\ SizesInv'
  <2>1. ASSUME Inv, TypeInv, CheckedInv, SizesInv, Next
        PROVE  Inv' /\ TypeInv' /\ CheckedInv' /\ SizesInv'
    BY <2>1, KeyRollingStep, TypeStep, FirstPairStep, CarriedPairStep, SizesStep
       DEF CheckedInv, TypeInv
  <2> QED BY <2>1, KeyRollingStutter, TypeStutter, CheckedStutter, SizesStep
<1>2. Init => CheckedInv /\ SizesInv
  BY FreshContextType DEF Init, InitOf, CheckedInv, FirstPairInv, CarriedPairInv, SizesInv
<1>3. TypeInv /\ CheckedInv /\ SizesInv => NeverOverrun
  BY EnoughOfAll
<1> QED
  BY InitFiles, TypeInit, <1>1, <1>2, <1>3, PTL DEF Spec

-----------------------------------------------------------------------------
(* The chain.                                                              *)

\* Part p of partition j is encrypted.
Done(j, p) ==
    j < job \/ (j = job /\ (p < stream \/ (p = stream /\ phase = "hash")))

\* Records come in the order of the parts.
OrderInv ==
    \A i \in DOMAIN records :
        /\ records[i].job \in Nat /\ records[i].stream \in Nat \ {0}
        /\ \/ records[i].job < job
           \/ records[i].job = job /\ records[i].stream < stream
           \/ /\ records[i].job = job /\ records[i].stream = stream
              /\ phase \in {"block", "hash"}

\* The part that is encrypted is chained up to its last record, which announces the
\* block to come.
ChainInv ==
    phase = "block" /\ Fitting(job) =>
        LET l == Len(records) IN
        /\ l \in PartRecords(job, stream)
        /\ \A i \in PartRecords(job, stream) :
              i # l => i + 1 \in PartRecords(job, stream) /\ Chained(i)
        /\ l + 1 \notin DOMAIN records
        /\ records[l].from + records[l].size = bytesWritten
        /\ records[l].nextWords * WordBytes = nextBlkSize /\ records[l].nextWords \in Nat
        /\ bytesWritten < InLen => nextBlkSize # 0

\* What has been encrypted can be recovered.
DoneInv ==
    \A j \in 1 .. job : plan[j].encrypted /\ Fitting(j) =>
        \A p \in DOMAIN plan[j].lengths :
            Done(j, p) => Recovered(PartRecords(j, p), plan[j].lengths[p])

ReceiverInv == OrderInv /\ ChainInv /\ DoneInv

\* A record more leaves those before it as they are.
LEMMA RecordAppended ==
    ASSUME IsSequence(records), NEW r, records' = Append(records, r)
    PROVE  LET l == Len(records) IN
           /\ l \in Nat /\ DOMAIN records = 1 .. l
           /\ Len(records') = l + 1 /\ DOMAIN records' = 1 .. (l + 1)
           /\ records'[l + 1] = r
           /\ \A i \in 1 .. l : records'[i] = records[i]
<1> DEFINE S == {records[i] : i \in DOMAIN records} \cup {r}
<1>1. records \in Seq({records[i] : i \in DOMAIN records})
  BY DEF IsSequence
<1>2. records \in Seq(S)
  BY <1>1
<1> HIDE DEF S
<1>3. r \in S
  BY DEF S
<1>4. Append(records, r) \in Seq(S)
  BY <1>2, <1>3
<1> QED
  BY <1>2, <1>3, <1>4

\* Only the part that is encrypted gets the record.
LEMMA OtherParts ==
    ASSUME IsSequence(records), NEW r, records' = Append(records, r),
           NEW j, NEW p, r.job # j \/ r.stream # p
    PROVE  /\ PartRecords(j, p)' = PartRecords(j, p)
           /\ \A length : Recovered(PartRecords(j, p), length)
                             => Recovered(PartRecords(j, p), length)'
<1> DEFINE own == PartRecords(j, p)
<1>1. PICK l \in Nat :
         /\ l = Len(records) /\ DOMAIN records = 1 .. l
         /\ DOMAIN records' = 1 .. (l + 1) /\ records'[l + 1] = r
         /\ \A i \in 1 .. l : records'[i] = records[i]
  BY RecordAppended
<1>2. own' = own
  BY <1>1 DEF PartRecords, RecordsOf
<1>3. own \subseteq 1 .. l
  BY <1>1 DEF PartRecords, RecordsOf
<1> HIDE DEF own
<1>4. ASSUME NEW length, Recovered(own, length)
      PROVE  Recovered(own, length)'
  <2>1. \A i \in own : i + 1 \in own => (Chained(i) => Chained(i)')
    <3> SUFFICES ASSUME NEW i \in own, i + 1 \in own PROVE Chained(i) => Chained(i)'
      OBVIOUS
    <3>1. records'[i] = records[i] /\ records'[i + 1] = records[i + 1]
      BY <1>1, <1>3
    <3> QED BY <3>1 DEF Chained
  <2>2. \A i \in own : records'[i] = records[i]
    BY <1>1, <1>3
  <2> QED BY <1>2, <1>4, <2>1, <2>2 DEF Recovered
<1> QED
  BY <1>2, <1>4 DEF own

\* Sizes of whole words are carried in full.
LEMMA WordsCarried ==
    ASSUME NEW n \in WholeWords
    PROVE  WordsToCome(n) \in Nat /\ WordsToCome(n) * WordBytes = n
<1>1. n \in Nat /\ n % 4 = 0
  BY DEF WholeWords, WordBytes
<1>2. n \div 4 \in Nat /\ (n \div 4) * 4 = n
  BY <1>1
<1> QED
  BY <1>2 DEF WordsToCome, WordBytes

\* What AddRecord puts at the end.
LEMMA RecordMade ==
    ASSUME IsSequence(records), NEW pair, NEW i, NEW from, NEW size, NEW after, NEW next,
           AddRecord(pair, i, from, size, after, next)
    PROVE  \E l, r :
              /\ l \in Nat /\ l = Len(records) /\ DOMAIN records = 1 .. l
              /\ records' = Append(records, r) /\ nextBlkSize' = next
              /\ Len(records') = l + 1 /\ DOMAIN records' = 1 .. (l + 1)
              /\ records'[l + 1] = r /\ \A k \in 1 .. l : records'[k] = records[k]
              /\ r.job = job /\ r.stream = stream /\ r.key = pair[1] /\ r.iv = pair[2]
              /\ r.from = from /\ r.size = size /\ r.nextWords = WordsToCome(next)
<1> DEFINE r == [job |-> job, stream |-> stream, key |-> pair[1], iv |-> pair[2],
                 from |-> from, size |-> size, nextKey |-> after[1], nextIv |-> after[2],
                 nextWords |-> WordsToCome(next)]
<1>1. records' = Append(records, r) /\ nextBlkSize' = next
  BY DEF AddRecord
<1>2. /\ r.job = job /\ r.stream = stream /\ r.key = pair[1] /\ r.iv = pair[2]
      /\ r.from = from /\ r.size = size /\ r.nextWords = WordsToCome(next)
  OBVIOUS
<1> HIDE DEF r
<1> QED
  BY <1>1, <1>2, RecordAppended

\* The secure header begins the chain.
LEMMA HeaderChain ==
    ASSUME TypeInv, Inv, OrderInv, EncryptHeader
    PROVE  ChainInv'
<1> DEFINE next == Lesser(blocksList[1], InLen)
           pair == <<ctx.aesKey, ctx.aesIv>>
<1>1. /\ AddRecord(pair, 1, 0, 0, PairBytes(2), next)
      /\ bytesWritten' = 0 /\ phase = "header" /\ phase' = "block"
      /\ UNCHANGED <<plan, job, stream, blocksList>>
  BY DEF EncryptHeader, At, Go, inputs
<1>2. Fitting(job)' = Fitting(job) /\ InLen' = InLen
  <2>1. \A j : Misfit(j)' = Misfit(j)
    BY <1>1 DEF Misfit, LastBlock, ChunkSize, Signed, UncutBlocks, WholeBlocks, DefaultBlocks
  <2> QED BY <1>1, <2>1 DEF Fitting, InLen
<1>3. ASSUME Fitting(job)
      PROVE  next \in WholeWords /\ next # 0
  <2>1. PositionInv /\ phase \notin {"start", "hash"}
    BY <1>1 DEF TypeInv
  <2>2. /\ blocksList \in Seq(Nat \ {0}) /\ blocksList \in Seq(WholeWords)
        /\ Len(blocksList) \in Nat \ {0} /\ InLen \in WholeWords \ {0}
    BY <1>3, <2>1, FittingList, PartLength
  <2>3. 1 \in DOMAIN blocksList
    BY <2>2
  <2>4. blocksList[1] \in WholeWords /\ blocksList[1] # 0
    BY <2>2, <2>3
  <2> QED BY <2>2, <2>4 DEF Lesser
<1> HIDE DEF next, pair
<1>4. IsSequence(records)
  BY DEF Inv, PairsInv
<1>5. PICK l, r :
         /\ l \in Nat /\ l = Len(records) /\ DOMAIN records = 1 .. l /\ nextBlkSize' = next
         /\ Len(records') = l + 1 /\ DOMAIN records' = 1 .. (l + 1)
         /\ records'[l + 1] = r /\ \A k \in 1 .. l : records'[k] = records[k]
         /\ r.job = job /\ r.stream = stream
         /\ r.from = 0 /\ r.size = 0 /\ r.nextWords = WordsToCome(next)
  BY <1>1, <1>4, RecordMade
<1>6. PICK j, p : j = job /\ p = stream
  OBVIOUS
<1>7. j \in Nat /\ p \in Nat
  <2>1. PositionInv /\ plan \in Seq(Job) /\ plan[job].lengths \in Seq(Nat \ {0})
    BY PlanFacts DEF TypeInv
  <2> QED BY <1>6, <2>1 DEF PositionInv
<1>8. PartRecords(j, p)' = {l + 1}
  <2>1. ASSUME NEW i \in 1 .. l PROVE ~(records[i].job = j /\ records[i].stream = p)
    BY <1>1, <1>5, <1>6, <1>7 DEF OrderInv
  <2>2. PartRecords(j, p)' = {i \in 1 .. (l + 1) : records'[i].job = j /\ records'[i].stream = p}
    BY <1>5 DEF PartRecords, RecordsOf
  <2>3. l + 1 \in 1 .. (l + 1) /\ \A i \in 1 .. (l + 1) : i \in 1 .. l \/ i = l + 1
    BY <1>5
  <2> QED BY <1>5, <1>6, <2>1, <2>2, <2>3
<1>9. PartRecords(job, stream)' = {l + 1}
  BY <1>1, <1>6, <1>8
<1>10. (l + 1) + 1 \notin DOMAIN records'
  BY <1>5
<1> SUFFICES ASSUME Fitting(job)
             PROVE  /\ r.from + r.size = 0
                    /\ r.nextWords * WordBytes = next /\ r.nextWords \in Nat /\ next # 0
  BY <1>1, <1>2, <1>5, <1>9, <1>10 DEF ChainInv
<1> QED
  BY <1>3, <1>5, WordsCarried

\* A block is chained to the record before it.
LEMMA BlockChain ==
    ASSUME SizesFit, TypeInv, Inv, SizesInv, ChainInv, EncryptBlock
    PROVE  ChainInv'
<1> DEFINE written == bytesWritten + nextBlkSize
           next == NextSize(written)
           pair == <<Last(records).nextKey, Last(records).nextIv>>
<1>1. /\ AddRecord(pair, blkPtr + 1, bytesWritten, nextBlkSize, PairAfter(next), next)
      /\ phase = "block" /\ phase' = "block" /\ bytesWritten' = written
      /\ UNCHANGED <<plan, job, stream, blocksList>>
      /\ bytesWritten < InLen
  BY DEF EncryptBlock, At, position, keys, inputs
<1>2. Fitting(job)' = Fitting(job) /\ InLen' = InLen
  <2>1. \A j : Misfit(j)' = Misfit(j)
    BY <1>1 DEF Misfit, LastBlock, ChunkSize, Signed, UncutBlocks, WholeBlocks, DefaultBlocks
  <2> QED BY <1>1, <2>1 DEF Fitting, InLen
<1> SUFFICES ASSUME Fitting(job) PROVE ChainInv'
  BY <1>2 DEF ChainInv
<1>3. next \in WholeWords /\ (written < InLen => next # 0)
  BY <1>1, NextBlockSize
<1> DEFINE after == PairAfter(next)
<1>4. AddRecord(pair, blkPtr + 1, bytesWritten, nextBlkSize, after, next)
  BY <1>1
<1> HIDE DEF next, written, pair, after
<1>5. IsSequence(records)
  BY DEF Inv, PairsInv
<1>6. PICK l, r :
         /\ l \in Nat /\ l = Len(records) /\ DOMAIN records = 1 .. l /\ nextBlkSize' = next
         /\ Len(records') = l + 1 /\ DOMAIN records' = 1 .. (l + 1)
         /\ records'[l + 1] = r /\ \A k \in 1 .. l : records'[k] = records[k]
         /\ r.job = job /\ r.stream = stream /\ r.key = pair[1] /\ r.iv = pair[2]
         /\ r.from = bytesWritten /\ r.size = nextBlkSize /\ r.nextWords = WordsToCome(next)
  BY <1>4, <1>5, RecordMade, SMTT(30)
<1>7. PICK j, p : j = job /\ p = stream
  OBVIOUS
<1> DEFINE own == PartRecords(j, p)
<1>8. /\ l \in own
      /\ \A i \in own : i # l => i + 1 \in own /\ Chained(i)
      /\ records[l].from + records[l].size = bytesWritten
      /\ records[l].nextWords * WordBytes = nextBlkSize /\ records[l].nextWords \in Nat
      /\ nextBlkSize # 0
  BY <1>1, <1>6, <1>7 DEF ChainInv
<1>9. own \subseteq 1 .. l
  BY <1>6 DEF PartRecords, RecordsOf
<1>10. own' = own \cup {l + 1}
  <2>1. own' = {i \in 1 .. (l + 1) : records'[i].job = j /\ records'[i].stream = p}
    BY <1>6 DEF PartRecords, RecordsOf
  <2>2. own = {i \in 1 .. l : records[i].job = j /\ records[i].stream = p}
    BY <1>6 DEF PartRecords, RecordsOf
  <2>3. /\ l + 1 \in 1 .. (l + 1) /\ \A i \in 1 .. (l + 1) : i \in 1 .. l \/ i = l + 1
        /\ \A k \in 1 .. l : k \in 1 .. (l + 1)
    BY <1>6
  <2> HIDE DEF own
  <2> QED BY <1>6, <1>7, <2>1, <2>2, <2>3
<1> HIDE DEF own
<1>11. Chained(l)'
  <2>1. pair[1] = records[l].nextKey /\ pair[2] = records[l].nextIv
    BY <1>6 DEF pair, Last
  <2>2. records'[l] = records[l]
    BY <1>6, <1>8, <1>9
  <2>3. records[l].nextWords # 0
    BY <1>8 DEF WordBytes
  <2> QED BY <1>6, <1>8, <2>1, <2>2, <2>3 DEF Chained
<1>12. ASSUME NEW i \in own, i # l
       PROVE  i + 1 \in own' /\ Chained(i)'
  <2>1. i + 1 \in own /\ Chained(i)
    BY <1>8, <1>12
  <2>2. records'[i] = records[i] /\ records'[i + 1] = records[i + 1]
    BY <1>6, <1>9, <2>1
  <2> QED BY <1>10, <2>1, <2>2 DEF Chained
<1>13. ASSUME NEW i \in own', i # l + 1
       PROVE  i + 1 \in own' /\ Chained(i)'
  BY <1>10, <1>11, <1>12, <1>13
<1>14. PartRecords(job, stream)' = own'
  BY <1>1, <1>7 DEF own
<1>15. (l + 1) + 1 \notin DOMAIN records' /\ l + 1 \in own'
  BY <1>6, <1>10
<1>16. /\ r.from + r.size = bytesWritten'
       /\ r.nextWords * WordBytes = nextBlkSize' /\ r.nextWords \in Nat
       /\ bytesWritten' < InLen' => nextBlkSize' # 0
  BY <1>1, <1>2, <1>3, <1>6, WordsCarried DEF written
<1> QED
  BY <1>6, <1>13, <1>14, <1>15, <1>16 DEF ChainInv

\* Which step adds a record, and of what.
LEMMA RecordSteps ==
    ASSUME Inv, Next \/ UNCHANGED vars
    PROVE  \/ UNCHANGED records
           \/ /\ phase \in {"header", "block"} /\ phase' = "block" /\ UNCHANGED <<plan, job, stream>>
              /\ \E r : records' = Append(records, r) /\ r.job = job /\ r.stream = stream
<1>1. IsSequence(records)
  BY DEF Inv, PairsInv
<1>2. CASE EncryptHeader
  <2> DEFINE next == Lesser(blocksList[1], InLen)
             pair == <<ctx.aesKey, ctx.aesIv>>
             after == PairBytes(2)
  <2>1. /\ AddRecord(pair, 1, 0, 0, after, next)
        /\ phase = "header" /\ phase' = "block" /\ UNCHANGED <<plan, job, stream>>
    BY <1>2 DEF EncryptHeader, At, Go, inputs
  <2> HIDE DEF next, pair, after
  <2>2. \E r : records' = Append(records, r) /\ r.job = job /\ r.stream = stream
    BY <1>1, <2>1, RecordMade
  <2> QED BY <2>1, <2>2
<1>3. CASE EncryptBlock
  <2> DEFINE next == NextSize(bytesWritten + nextBlkSize)
             pair == <<Last(records).nextKey, Last(records).nextIv>>
             after == PairAfter(next)
             i == blkPtr + 1
  <2>1. /\ AddRecord(pair, i, bytesWritten, nextBlkSize, after, next)
        /\ phase = "block" /\ phase' = "block" /\ UNCHANGED <<plan, job, stream>>
    BY <1>3 DEF EncryptBlock, At, position, inputs
  <2> HIDE DEF next, pair, after, i
  <2>2. \E r : records' = Append(records, r) /\ r.job = job /\ r.stream = stream
    BY <1>1, <2>1, RecordMade
  <2> QED BY <2>1, <2>2
<1>4. CASE ~EncryptHeader /\ ~EncryptBlock
  BY <1>4, OtherSteps DEF cipher
<1> QED
  BY <1>2, <1>3, <1>4

\* From one part to the next, and from one phase to the next.
LEMMA PartSteps ==
    ASSUME TypeInv, Next \/ UNCHANGED vars
    PROVE  \/ UNCHANGED <<job, stream>> /\ (phase' = "hash" => phase = "hash")
              /\ (phase' = "block" => phase \in {"header", "block"})
              /\ (phase \in {"block", "hash"} => phase' = phase)
           \/ EndStream /\ UNCHANGED <<job, stream>> /\ phase = "block" /\ phase' = "hash"
           \/ StartJob /\ UNCHANGED <<job, stream>> /\ phase = "start"
              /\ phase' = IF plan[job].encrypted THEN "file" ELSE "hash"
           \/ UNCHANGED job /\ stream' = stream + 1 /\ phase = "hash" /\ phase' = "file"
           \/ job' = job + 1 /\ stream' = 1 /\ phase = "hash" /\ phase' = "start"
              /\ (plan[job].encrypted => stream = Len(plan[job].lengths))
<1>1. CASE UNCHANGED vars
  BY <1>1 DEF vars, position
<1>2. CASE EndStream
  BY <1>2 DEF EndStream, Go, At
<1>3. CASE StartJob
  <2>1. UNCHANGED <<job, stream>> /\ phase = "start"
        /\ phase' = IF plan[job].encrypted THEN "file" ELSE "hash"
    BY <1>3 DEF StartJob, Go, At
  <2> QED BY <1>3, <2>1
<1>4. CASE StartPmcData
  BY <1>4 DEF StartPmcData, At
<1>5. CASE NextJob
  BY <1>5 DEF NextJob, At, position
<1>6. CASE \/ GenerateKeyFile \/ ReadKeyFile \/ TakePairs \/ DerivePairs \/ CheckPairs \/ EncryptHeader
  <2>1. /\ UNCHANGED <<job, stream>> /\ phase \notin {"block", "hash"} /\ phase' # "hash"
        /\ phase' = "block" => phase = "header"
    BY <1>6 DEF GenerateKeyFile, ReadKeyFile, KeyFileThere, TakePairs, DerivePairs, CheckPairs,
                EncryptHeader, Go, At
  <2> QED BY <2>1
<1>7. CASE \/ RefuseBlocks \/ KeyFileExists \/ RefuseKeyFile \/ NoKeyToCopy \/ EncryptBlock
           \/ TooFewPairs \/ RefusePairs \/ Overrun \/ RefuseLength
  <2>1. UNCHANGED position
    BY <1>7 DEF RefuseBlocks, KeyFileExists, RefuseKeyFile, NoKeyToCopy, TooFewPairs,
                RefusePairs, Overrun, RefuseLength, Fail, EncryptBlock
  <2> QED BY <2>1 DEF position
<1> QED
  BY <1>1, <1>2, <1>3, <1>4, <1>5, <1>6, <1>7 DEF Next, ReadKeys, PreparePairs, Encrypt

\* Numbers of parts are numbers.
LEMMA PlaceNat ==
    ASSUME TypeInv
    PROVE  job \in Nat /\ stream \in Nat \ {0} /\ plan \in Seq(Job) /\ job \in DOMAIN plan
<1>1. PositionInv /\ plan \in Seq(Job) /\ job \in DOMAIN plan /\ plan[job].lengths \in Seq(Nat \ {0})
  BY PlanFacts DEF TypeInv
<1> QED
  BY <1>1 DEF PositionInv

\* Every step keeps the records in order.
LEMMA OrderStep ==
    ASSUME TypeInv, Inv, OrderInv, Next \/ UNCHANGED vars
    PROVE  OrderInv'
<1>1. job \in Nat /\ stream \in Nat \ {0}
  BY PlaceNat
<1>2. CASE UNCHANGED records
  <2> SUFFICES ASSUME NEW i \in DOMAIN records
               PROVE  \/ records[i].job < job'
                      \/ records[i].job = job' /\ records[i].stream < stream'
                      \/ /\ records[i].job = job' /\ records[i].stream = stream'
                         /\ phase' \in {"block", "hash"}
    BY <1>2 DEF OrderInv
  <2>1. /\ records[i].job \in Nat /\ records[i].stream \in Nat \ {0}
        /\ \/ records[i].job < job
           \/ records[i].job = job /\ records[i].stream < stream
           \/ /\ records[i].job = job /\ records[i].stream = stream
              /\ phase \in {"block", "hash"}
    BY DEF OrderInv
  <2>2. \/ UNCHANGED <<job, stream>> /\ (phase \in {"block", "hash"} => phase' \in {"block", "hash"})
        \/ job' = job /\ stream' = stream + 1
        \/ job' = job + 1
    <3>1. \/ UNCHANGED <<job, stream>> /\ (phase \in {"block", "hash"} => phase' = phase)
          \/ UNCHANGED <<job, stream>> /\ phase = "block" /\ phase' = "hash"
          \/ UNCHANGED <<job, stream>> /\ phase = "start"
          \/ UNCHANGED job /\ stream' = stream + 1
          \/ job' = job + 1
      BY PartSteps
    <3> QED BY <3>1
  <2>3. PICK j \in Nat, p \in Nat : j = records[i].job /\ p = records[i].stream
    BY <2>1
  <2> QED BY <1>1, <2>1, <2>2, <2>3
<1>3. CASE ~UNCHANGED records
  <2>1. /\ phase' = "block" /\ UNCHANGED <<job, stream>>
        /\ \E r : records' = Append(records, r) /\ r.job = job /\ r.stream = stream
    BY <1>3, RecordSteps
  <2>2. PICK r : records' = Append(records, r) /\ r.job = job /\ r.stream = stream
    BY <2>1
  <2>3. PICK l \in Nat :
           /\ DOMAIN records = 1 .. l /\ DOMAIN records' = 1 .. (l + 1)
           /\ records'[l + 1] = r /\ \A i \in 1 .. l : records'[i] = records[i]
    BY <2>2, RecordAppended DEF Inv, PairsInv
  <2> SUFFICES ASSUME NEW i \in 1 .. (l + 1)
               PROVE  /\ records'[i].job \in Nat /\ records'[i].stream \in Nat \ {0}
                      /\ \/ records'[i].job < job
                         \/ records'[i].job = job /\ records'[i].stream < stream
                         \/ records'[i].job = job /\ records'[i].stream = stream
    BY <2>1, <2>3 DEF OrderInv
  <2>4. CASE i = l + 1
    BY <1>1, <2>2, <2>3, <2>4
  <2>5. CASE i \in 1 .. l
    BY <2>3, <2>5 DEF OrderInv
  <2> QED BY <2>4, <2>5
<1> QED
  BY <1>2, <1>3

\* Every step keeps the chain.
LEMMA ChainStep ==
    ASSUME SizesFit, TypeInv, Inv, SizesInv, OrderInv, ChainInv, Next \/ UNCHANGED vars
    PROVE  ChainInv'
<1>1. CASE EncryptHeader
  BY <1>1, HeaderChain
<1>2. CASE EncryptBlock
  BY <1>2, BlockChain
<1>3. CASE ~EncryptHeader /\ ~EncryptBlock
  <2>1. UNCHANGED cipher /\ (phase' = "block" => UNCHANGED <<position, blocksList, aesKeyVec>>)
    BY <1>3, OtherSteps
  <2>2. UNCHANGED plan
    BY PlanConstant
  <2>3. \A j : Misfit(j)' = Misfit(j)
    BY <2>2 DEF Misfit, LastBlock, ChunkSize, Signed, UncutBlocks, WholeBlocks, DefaultBlocks
  <2> SUFFICES ASSUME phase' = "block" PROVE ChainInv'
    BY DEF ChainInv
  <2>4. UNCHANGED <<job, stream, phase, records, bytesWritten, nextBlkSize>>
    BY <2>1 DEF position, cipher
  <2>5. Fitting(job)' = Fitting(job) /\ InLen' = InLen
    BY <2>2, <2>3, <2>4 DEF Fitting, InLen
  <2>6. PartRecords(job, stream)' = PartRecords(job, stream)
    BY <2>4 DEF PartRecords, RecordsOf
  <2>7. \A i : Chained(i)' = Chained(i)
    BY <2>4 DEF Chained
  <2> QED BY <2>4, <2>5, <2>6, <2>7 DEF ChainInv
<1> QED
  BY <1>1, <1>2, <1>3

\* The part that is done with EndStream can be recovered.
LEMMA StreamRecovered ==
    ASSUME SizesFit, TypeInv, SizesInv, ChainInv, EndStream, Fitting(job)
    PROVE  Recovered(PartRecords(job, stream), InLen)
<1>1. phase = "block" /\ bytesWritten >= InLen
  BY DEF EndStream, At
<1>2. bytesWritten = InLen /\ nextBlkSize = 0
  BY <1>1, AllTaken
<1> DEFINE l == Len(records)
           own == PartRecords(job, stream)
<1>3. /\ l \in own /\ \A i \in own : i # l => i + 1 \in own /\ Chained(i)
      /\ l + 1 \notin DOMAIN records
      /\ records[l].from + records[l].size = bytesWritten
      /\ records[l].nextWords * WordBytes = nextBlkSize /\ records[l].nextWords \in Nat
  BY <1>1 DEF ChainInv
<1>4. own \subseteq DOMAIN records
  BY DEF PartRecords, RecordsOf
<1>5. records[l].nextWords = 0
  BY <1>2, <1>3 DEF WordBytes
<1> HIDE DEF l, own
<1>6. l + 1 \notin own
  BY <1>3, <1>4
<1>7. ASSUME NEW i \in own
      PROVE  IF i + 1 \in own THEN Chained(i)
             ELSE records[i].from + records[i].size = InLen /\ records[i].nextWords = 0
  BY <1>2, <1>3, <1>5, <1>6, <1>7
<1> QED
  BY <1>3, <1>7 DEF Recovered, own

\* What is done has been done, but for the part that EndStream ends.
LEMMA DoneBefore ==
    ASSUME TypeInv, Next \/ UNCHANGED vars, UNCHANGED plan,
           NEW j \in 1 .. job', plan[j].encrypted, NEW p \in DOMAIN plan[j].lengths, Done(j, p)'
    PROVE  /\ j \in 1 .. job
           /\ Done(j, p) \/ (EndStream /\ j = job /\ p = stream)
<1>1. /\ job \in Nat /\ stream \in Nat \ {0} /\ plan \in Seq(Job) /\ job \in DOMAIN plan
      /\ \A k \in DOMAIN plan : plan[k].lengths \in Seq(Nat \ {0})
  BY PlaceNat, PlanFacts DEF TypeInv
<1>2. \/ j < job'
      \/ j = job' /\ (p < stream' \/ (p = stream' /\ phase' = "hash"))
  BY DEF Done
<1>3. j \in Nat \ {0} /\ job' \in Nat
  <2>1. job' = job \/ job' = job + 1
    BY PartSteps
  <2> QED BY <1>1, <2>1
<1>4. p \in Nat \ {0} /\ (j = job => p <= Len(plan[job].lengths))
  <2>1. j \in DOMAIN plan \/ (job' = job + 1 /\ j = job + 1)
    <3>1. job' = job \/ job' = job + 1
      BY PartSteps
    <3>2. DOMAIN plan = 1 .. Len(plan) /\ Len(plan) \in Nat
      BY <1>1
    <3> QED BY <1>1, <1>3, <3>1, <3>2
  <2>2. CASE j \in DOMAIN plan
    <3>1. plan[j].lengths \in Seq(Nat \ {0})
      BY <1>1, <2>2
    <3>2. DOMAIN plan[j].lengths = 1 .. Len(plan[j].lengths) /\ Len(plan[j].lengths) \in Nat
      BY <3>1
    <3> QED BY <3>2
  <2>3. CASE job' = job + 1 /\ j = job + 1
    <3>1. PositionInv'
      BY PositionStep, TypeStutter DEF TypeInv
    <3>2. job' \in DOMAIN plan
      BY <3>1 DEF PositionInv
    <3>3. plan[j].lengths \in Seq(Nat \ {0}) /\ j # job
      BY <1>1, <2>3, <3>2
    <3>4. DOMAIN plan[j].lengths = 1 .. Len(plan[j].lengths) /\ Len(plan[j].lengths) \in Nat
      BY <3>3
    <3> QED BY <3>3, <3>4
  <2> QED BY <2>1, <2>2, <2>3
<1>5. CASE UNCHANGED <<job, stream>> /\ (phase' = "hash" => phase = "hash")
  BY <1>2, <1>5 DEF Done
<1>6. CASE EndStream /\ UNCHANGED <<job, stream>>
  BY <1>2, <1>6 DEF Done
<1>7. CASE UNCHANGED <<job, stream>> /\ phase' = IF plan[job].encrypted THEN "file" ELSE "hash"
  BY <1>2, <1>7 DEF Done
<1>8. CASE UNCHANGED job /\ stream' = stream + 1 /\ phase = "hash" /\ phase' = "file"
  <2>1. j < job \/ (j = job /\ p < stream + 1)
    BY <1>2, <1>8
  <2>2. p < stream + 1 => p < stream \/ p = stream
    BY <1>1, <1>4
  <2> QED BY <1>8, <2>1, <2>2 DEF Done
<1>9. CASE job' = job + 1 /\ stream' = 1 /\ phase = "hash" /\ phase' = "start"
           /\ (plan[job].encrypted => stream = Len(plan[job].lengths))
  <2>1. j < job + 1
    BY <1>2, <1>4, <1>9
  <2>2. j < job \/ j = job
    BY <1>1, <1>3, <2>1
  <2>3. j = job => p <= stream
    BY <1>4, <1>9
  <2>4. p <= stream => p < stream \/ p = stream
    BY <1>1, <1>4
  <2>5. j \in 1 .. job
    BY <1>1, <1>3, <2>2
  <2> QED BY <1>9, <2>2, <2>3, <2>4, <2>5 DEF Done
<1> QED
  BY PartSteps, <1>5, <1>6, <1>7, <1>8, <1>9

\* Every step keeps what is done.
LEMMA DoneStep ==
    ASSUME SizesFit, TypeInv, Inv, SizesInv, OrderInv, ChainInv, DoneInv, Next \/ UNCHANGED vars
    PROVE  DoneInv'
<1>1. UNCHANGED plan
  BY PlanConstant
<1>2. \A j : Fitting(j)' = Fitting(j)
  <2>1. \A j : Misfit(j)' = Misfit(j)
    BY <1>1 DEF Misfit, LastBlock, ChunkSize, Signed, UncutBlocks, WholeBlocks, DefaultBlocks
  <2> QED BY <1>1, <2>1 DEF Fitting
<1> SUFFICES ASSUME NEW j \in 1 .. job', plan[j].encrypted, Fitting(j),
                    NEW p \in DOMAIN plan[j].lengths, Done(j, p)'
             PROVE  Recovered(PartRecords(j, p), plan[j].lengths[p])'
  BY <1>1, <1>2 DEF DoneInv
<1>3. /\ j \in 1 .. job
      /\ Done(j, p) \/ (EndStream /\ j = job /\ p = stream)
  BY <1>1, DoneBefore
<1>4. PICK length : length = plan[j].lengths[p]
  OBVIOUS
<1>5. Recovered(PartRecords(j, p), length)
  <2>1. CASE Done(j, p)
    BY <1>3, <1>4, <2>1 DEF DoneInv
  <2>2. CASE EndStream /\ j = job /\ p = stream
    BY <1>4, <2>2, StreamRecovered DEF InLen
  <2> QED BY <1>3, <2>1, <2>2
<1>6. CASE UNCHANGED records
  <2>1. PartRecords(j, p)' = PartRecords(j, p)
    BY <1>6 DEF PartRecords, RecordsOf
  <2>2. \A i : Chained(i)' = Chained(i)
    BY <1>6 DEF Chained
  <2> QED BY <1>1, <1>4, <1>5, <1>6, <2>1, <2>2 DEF Recovered
<1>7. CASE ~UNCHANGED records
  <2>1. /\ phase' = "block" /\ UNCHANGED <<job, stream>>
        /\ \E r : records' = Append(records, r) /\ r.job = job /\ r.stream = stream
    BY <1>7, RecordSteps
  <2>2. PICK r : records' = Append(records, r) /\ r.job = job /\ r.stream = stream
    BY <2>1
  <2>3. j # job \/ p # stream
    <3> SUFFICES ASSUME j = job, p = stream PROVE FALSE
      OBVIOUS
    <3>1. job \in Nat /\ stream \in Nat
      BY PlaceNat
    <3> QED BY <2>1, <3>1 DEF Done
  <2>4. r.job # j \/ r.stream # p
    BY <2>2, <2>3
  <2>5. Recovered(PartRecords(j, p), length)'
    BY <1>5, <2>2, <2>4, OtherParts DEF Inv, PairsInv
  <2> QED BY <1>1, <1>4, <2>5
<1> QED
  BY <1>6, <1>7

\* A device that follows the chain of pairs and sizes from a secure header on finds
\* every byte of what was encrypted, once and in order, whatever the keys, the lengths
\* and the blocks, unless a block is left with no room.
THEOREM ChainIsComplete ==
    ASSUME SizesFit
    PROVE  Spec => []ReceiverRecovers
<1>1. Inv /\ TypeInv /\ SizesInv /\ ReceiverInv /\ [Next]_vars
          => Inv' /\ TypeInv' /\ SizesInv' /\ ReceiverInv'
  <2>1. ASSUME Inv, TypeInv, SizesInv, ReceiverInv, Next \/ UNCHANGED vars
        PROVE  Inv' /\ TypeInv' /\ SizesInv' /\ ReceiverInv'
    BY <2>1, KeyRollingStep, KeyRollingStutter, TypeStep, TypeStutter, SizesStep, OrderStep,
       ChainStep, DoneStep DEF ReceiverInv
  <2> QED BY <2>1
<1>2. Init => SizesInv /\ ReceiverInv
  <2> SUFFICES ASSUME NEW input \in Inputs, InitOf(input) PROVE SizesInv /\ ReceiverInv
    BY DEF Init
  <2>1. job = 1 /\ stream = 1 /\ phase = "start" /\ records = <<>>
    BY DEF InitOf
  <2>2. DOMAIN records = {}
    BY <2>1
  <2>3. DoneInv
    <3> SUFFICES ASSUME NEW j \in 1 .. 1, NEW p \in DOMAIN plan[j].lengths, Done(j, p)
                 PROVE  FALSE
      BY <2>1 DEF DoneInv
    <3>1. TypeInv /\ job \in DOMAIN plan
      <4>1. Init
        BY DEF Init
      <4> QED BY <4>1, TypeInit, PlaceNat
    <3>2. plan[job].lengths \in Seq(Nat \ {0})
      BY <3>1, PlanFacts DEF TypeInv
    <3>3. j = job /\ DOMAIN plan[job].lengths = 1 .. Len(plan[job].lengths)
          /\ Len(plan[job].lengths) \in Nat
      BY <2>1, <3>2
    <3>4. p \in Nat \ {0}
      BY <3>3
    <3> QED BY <2>1, <3>3, <3>4 DEF Done
  <2> QED BY <2>1, <2>2, <2>3 DEF SizesInv, ReceiverInv, OrderInv, ChainInv
<1>3. TypeInv /\ ReceiverInv => ReceiverRecovers
  <2> SUFFICES ASSUME TypeInv, DoneInv, NEW j \in 1 .. job, plan[j].encrypted, ~Misfit(j),
                      NEW p \in DOMAIN plan[j].lengths,
                      j < job \/ p < stream \/ (p = stream /\ phase = "hash")
               PROVE  Recovered(PartRecords(j, p), plan[j].lengths[p])
    BY DEF ReceiverInv, ReceiverRecovers
  <2>1. j < job \/ j = job
    BY PlaceNat DEF TypeInv
  <2>2. Done(j, p)
    BY <2>1 DEF Done
  <2>3. Fitting(j)
    BY DEF Fitting
  <2> QED
    BY <2>2, <2>3 DEF DoneInv
<1> QED
  BY InitFiles, TypeInit, <1>1, <1>2, <1>3, PTL DEF Spec

-----------------------------------------------------------------------------
(* The hashed chunks.                                                      *)

\* How many chunks hold what fills q of them and leaves e bytes.
LEMMA CountOfChunks ==
    ASSUME NEW H \in Nat \ {0}, NEW q \in Nat, NEW e \in 0 .. (H - 1)
    PROVE  RoundedUp(q * H + e, H) = IF e = 0 THEN q ELSE q + 1
<1>1. q * H \in Nat
  BY ProductNat
<1>2. CASE e = 0
  <2>1. H - 1 \in 0 .. (H - 1)
    OBVIOUS
  <2>2. q * H + e + H - 1 = q * H + (H - 1)
    BY <1>1, <1>2
  <2>3. (q * H + (H - 1)) \div H = q
    BY <2>1, RestOf
  <2> QED BY <1>2, <2>2, <2>3 DEF RoundedUp
<1>3. CASE e # 0
  <2>1. e - 1 \in 0 .. (H - 1) /\ q + 1 \in Nat
    BY <1>3
  <2>2. (q + 1) * H = q * H + H
    BY Distribute
  <2>3. q * H + e + H - 1 = (q + 1) * H + (e - 1)
    BY <1>1, <2>2
  <2>4. ((q + 1) * H + (e - 1)) \div H = q + 1
    BY <2>1, RestOf
  <2> QED BY <1>3, <2>3, <2>4 DEF RoundedUp
<1> QED
  BY <1>2, <1>3

\* n chunks, all of H bytes but the last: together they hold all bytes, and the first
\* o more.
LastOf(n, H, all) == all - (n - 1) * H

Cut(s, n, H, all, o) ==
    /\ s \in Seq(Int) /\ Len(s) = n
    /\ \A c \in 1 .. n : s[c] = (IF c < n THEN H ELSE LastOf(n, H, all))
                                + (IF c = 1 THEN o ELSE 0)

\* Chunks of the sizes s end at multiples of H, and the last with the data.
EndAtMultiples(s, n, H, all, o) ==
    /\ DOMAIN s = 1 .. n
    /\ \A c \in 1 .. n : Sums(s)[c] = IF c < n THEN c * H + o ELSE all + o

\* They end where the sums of their sizes say.
LEMMA EndsOfChunks ==
    ASSUME NEW H \in Nat, NEW o \in Nat, NEW n \in Nat, NEW all \in Nat,
           NEW s, Cut(s, n, H, all, o)
    PROVE  EndAtMultiples(s, n, H, all, o)
<1>1. /\ DOMAIN s = 1 .. n /\ Len(s) = n
      /\ \A c \in 1 .. n : s[c] = (IF c < n THEN H ELSE LastOf(n, H, all))
                                  + (IF c = 1 THEN o ELSE 0)
  BY DEF Cut
<1>2. \A i \in 0 .. n : Sums(s)[i] = IF i = 0 THEN 0 ELSE Sums(s)[i - 1] + s[i]
  BY <1>1, SumsStep
<1> DEFINE Sum(c) == IF c = 0 THEN 0 ELSE IF c < n THEN c * H + o ELSE all + o
           G == {c \in 0 .. n : Sums(s)[c] = Sum(c)}
<1>3. 0 \in G
  BY <1>2
<1>4. ASSUME NEW c \in 1 .. n, c - 1 \in G PROVE c \in G
  <2>1. c \in 0 .. n /\ c # 0 /\ c - 1 \in Nat /\ c - 1 < n /\ c \in Nat
    OBVIOUS
  <2>2. Sums(s)[c] = Sum(c - 1) + s[c]
    <3>1. Sums(s)[c - 1] = Sum(c - 1)
      BY <1>4
    <3> HIDE DEF Sum
    <3> QED BY <1>2, <2>1, <3>1
  <2>3. PICK y \in Nat : y = (c - 1) * H /\ c * H = y + H
    <3>1. c = (c - 1) + 1 /\ c - 1 \in Int
      BY <2>1
    <3>2. ((c - 1) + 1) * H = (c - 1) * H + 1 * H
      BY <3>1, Distribute
    <3>3. (c - 1) * H \in Nat
      BY <2>1, ProductNat
    <3> QED BY <3>1, <3>2, <3>3
  <2>4. s[c] = (IF c < n THEN H ELSE all - y) + (IF c = 1 THEN o ELSE 0)
    <3>1. s[c] = (IF c < n THEN H ELSE LastOf(n, H, all)) + (IF c = 1 THEN o ELSE 0)
      BY <1>1
    <3>2. c < n \/ (c = n /\ LastOf(n, H, all) = all - y)
      BY <2>3 DEF LastOf
    <3> QED BY <3>1, <3>2
  <2>5. Sum(c - 1) = IF c = 1 THEN 0 ELSE y + o
    BY <2>1, <2>3
  <2>6. Sum(c) = IF c < n THEN y + H + o ELSE all + o
    BY <2>1, <2>3
  <2>7. c = 1 => y = 0
    BY <2>3
  <2> HIDE DEF Sum
  <2>8. Sums(s)[c] = Sum(c)
    BY <2>2, <2>3, <2>4, <2>5, <2>6, <2>7
  <2> QED BY <2>1, <2>8
<1> HIDE DEF G
<1>5. \A c \in 0 .. n : c \in G
  BY <1>3, <1>4, UpToN
<1>6. \A c \in 1 .. n : Sums(s)[c] = Sum(c) /\ c # 0
  BY <1>5 DEF G
<1> HIDE DEF Sum
<1>7. \A c \in 1 .. n : Sum(c) = IF c < n THEN c * H + o ELSE all + o
  BY <1>6 DEF Sum
<1> QED
  BY <1>1, <1>6, <1>7 DEF EndAtMultiples

\* Chunks end where blocks end: q whole chunks hold q times the blocks of one chunk,
\* and the rest is no longer than a chunk.
LEMMA ChunksEndWithBlocks ==
    ASSUME plan \in Seq(Job), NEW j \in DOMAIN plan, plan[j].kind # "bootloader",
           plan[j].encrypted, Signed(j), ~Misfit(j), NEW L \in Nat \ {0},
           SecuredLength(j) = L + (Len(BlocksList(j, L)) + 1) * Overhead
    PROVE  LET B == BlocksList(j, L)
               s == ChunkSizes(j)
           IN  \A c \in DOMAIN s :
                  /\ \E k \in 0 .. Len(B) : Sums(s)[c] = Sums(B)[k] + (k + 1) * Overhead
                  /\ s[c] + HashLength <= SecureChunk + (IF c = 1 THEN Overhead ELSE 0)
<1> DEFINE B == BlocksList(j, L)
           s == ChunkSizes(j)
<1>1. PICK o \in Nat \ {0}, H \in Nat \ {0}, h \in Nat :
         /\ o = Overhead /\ H = ChunkSize(j) /\ H = HashedChunk
         /\ h = HashLength /\ SecureChunk = H + h
  <2>1. ChunkSize(j) = SecureChunk - HashLength /\ HashedChunk = SecureChunk - HashLength
    BY DEF ChunkSize, HashedChunk
  <2>2. SecureChunk - HashLength \in Nat \ {0}
    <3>1. Overhead * Overhead \in Nat
      BY Constants, ProductNat
    <3> QED BY <3>1, Constants
  <2> QED BY <2>1, <2>2, Constants
<1>2. PICK m \in Nat \ {0}, a \in Nat \ {0}, n \in Nat \ {0} :
         /\ n = Len(B) /\ a + m * o = H /\ Total(B) = L
         /\ \A k \in 0 .. (L \div a) : k * m \in 0 .. n /\ Sums(B)[k * m] = k * a
         /\ n - (L \div a) * m \in IF L % a = 0 THEN {0} ELSE 1 .. m
  BY <1>1, ChunkedBlocks
<1> HIDE DEF B
<1>3. PICK q \in Nat, r \in 0 .. (a - 1) :
         q = L \div a /\ r = L % a /\ L = q * a + r /\ q * a \in Nat
  BY <1>2, Division
<1>4. PICK t \in Nat : n = q * m + t /\ (r = 0 => t = 0) /\ (r # 0 => t \in 1 .. m)
  <2>1. q * m \in Nat
    BY ProductNat
  <2>2. n - q * m \in IF r = 0 THEN {0} ELSE 1 .. m
    BY <1>2, <1>3
  <2>3. n - q * m \in Nat /\ n = q * m + (n - q * m)
    BY <2>1, <2>2
  <2> QED BY <2>2, <2>3
<1>5. PICK qm \in Nat, to \in Nat, mo \in Nat, qH \in Nat, qa \in Nat, qmo \in Nat :
         /\ qm = q * m /\ to = t * o /\ mo = m * o /\ qH = q * H /\ qa = q * a
         /\ qmo = qm * o /\ qa + qmo = qH
  <2>1. q * m \in Nat /\ t * o \in Nat /\ m * o \in Nat /\ q * H \in Nat /\ q * a \in Nat
    BY ProductNat
  <2>2. q * (a + m * o) = q * a + q * (m * o)
    BY <2>1, Distribute
  <2>3. q * (m * o) = (q * m) * o
    OBVIOUS
  <2>4. (q * m) * o \in Nat
    BY <2>1, ProductNat
  <2> QED BY <1>2, <2>1, <2>2, <2>3, <2>4
<1>6. PICK e \in 0 .. (H - 1) :
         e = r + to /\ (r = 0 => e = 0) /\ (r # 0 => e # 0)
  <2>1. to <= mo
    <3>1. t <= m
      BY <1>4
    <3> QED BY <1>5, <3>1, Grows
  <2>2. r + to < H
    <3>1. a + mo = H
      BY <1>2, <1>5
    <3>2. r < a
      OBVIOUS
    <3> QED BY <2>1, <3>1, <3>2
  <2>3. t = 0 => to = 0
    BY <1>5
  <2>4. r + to \in 0 .. (H - 1)
    BY <2>2
  <2> QED BY <1>4, <2>3, <2>4
<1>7. (n + 1) * o = qmo + to + o /\ L + (n + 1) * o = qH + e + o
  <2>1. (n + 1) * o = n * o + 1 * o
    BY Distribute
  <2>2. (qm + t) * o = qm * o + t * o
    BY Distribute
  <2>3. (n + 1) * o = qmo + to + o
    BY <1>4, <1>5, <2>1, <2>2
  <2>4. L = qa + r
    BY <1>3, <1>5
  <2>5. L + (qmo + to + o) = (qa + qmo) + (r + to) + o
    BY <2>4
  <2> QED BY <1>5, <1>6, <2>3, <2>5
<1>8. PICK count \in Nat : count = RoundedUp(qH + e, H) /\ count = IF e = 0 THEN q ELSE q + 1
  <2>1. RoundedUp(q * H + e, H) = IF e = 0 THEN q ELSE q + 1
    BY CountOfChunks
  <2>2. (IF e = 0 THEN q ELSE q + 1) \in Nat
    OBVIOUS
  <2> QED BY <1>5, <2>1, <2>2
<1>9. Cut(s, count, H, qH + e, o)
  <2>1. SecuredLength(j) - o = qH + e
    <3>1. SecuredLength(j) = qH + e + o
      BY <1>1, <1>2, <1>7 DEF B
    <3> QED BY <3>1
  <2> DEFINE x == SecuredLength(j) - Overhead
             z == RoundedUp(x, HashedChunk)
  <2>2. s = [c \in 1 .. z |-> (IF c < z THEN HashedChunk ELSE x - (z - 1) * HashedChunk)
                              + (IF c = 1 THEN Overhead ELSE 0)]
    BY DEF ChunkSizes
  <2>3. x = qH + e
    BY <1>1, <2>1
  <2>4. z = count
    BY <1>1, <1>8, <2>3
  <2> HIDE DEF x, z
  <2>5. \A c \in 1 .. z : s[c] = (IF c < z THEN HashedChunk ELSE x - (z - 1) * HashedChunk)
                                + (IF c = 1 THEN Overhead ELSE 0)
    <3> HIDE DEF s
    <3> QED BY <2>2
  <2>6. \A c \in 1 .. count : s[c] = (IF c < count THEN H ELSE LastOf(count, H, qH + e))
                                    + (IF c = 1 THEN o ELSE 0)
    <3> SUFFICES ASSUME NEW c \in 1 .. count
                 PROVE  s[c] = (IF c < count THEN H ELSE LastOf(count, H, qH + e))
                               + (IF c = 1 THEN o ELSE 0)
      OBVIOUS
    <3> HIDE DEF s
    <3>1. (z - 1) * HashedChunk = (count - 1) * H
      BY <1>1, <2>4
    <3>2. s[c] = (IF c < z THEN HashedChunk ELSE x - (z - 1) * HashedChunk)
                 + (IF c = 1 THEN Overhead ELSE 0)
      BY <2>4, <2>5
    <3>3. PICK y : y = (count - 1) * H
      OBVIOUS
    <3>4. s[c] = (IF c < count THEN H ELSE qH + e - y) + (IF c = 1 THEN o ELSE 0)
      BY <1>1, <2>3, <2>4, <3>1, <3>2, <3>3
    <3>5. LastOf(count, H, qH + e) = qH + e - y
      BY <3>3 DEF LastOf
    <3> QED BY <3>4, <3>5
  <2>7. \A c \in 1 .. count :
           (IF c < z THEN HashedChunk ELSE x - (z - 1) * HashedChunk)
           + (IF c = 1 THEN Overhead ELSE 0) \in Int
    <3> SUFFICES ASSUME NEW c \in 1 .. count
                 PROVE  (IF c < z THEN HashedChunk ELSE x - (z - 1) * HashedChunk)
                        + (IF c = 1 THEN Overhead ELSE 0) \in Int
      OBVIOUS
    <3>1. PICK y \in Int : y = (count - 1) * H
      OBVIOUS
    <3>2. PICK f \in Int : f = IF c < z THEN HashedChunk ELSE x - (z - 1) * HashedChunk
      <4>1. (z - 1) * HashedChunk = y
        BY <1>1, <2>4, <3>1
      <4>2. x \in Int /\ HashedChunk \in Int
        BY <1>1, <2>3
      <4> QED BY <3>1, <4>1, <4>2
    <3>3. PICK g \in Int : g = IF c = 1 THEN Overhead ELSE 0
      BY <1>1
    <3> QED BY <3>2, <3>3
  <2>8. s \in Seq(Int) /\ Len(s) = count
    <3> HIDE DEF s
    <3> QED BY <2>2, <2>4, <2>7
  <2> HIDE DEF s
  <2> QED BY <2>6, <2>8 DEF Cut
<1> HIDE DEF s
<1>10. /\ DOMAIN s = 1 .. count
       /\ \A c \in 1 .. count :
             Sums(s)[c] = IF c < count THEN c * H + o ELSE qH + e + o
  <2>1. PICK all \in Nat : all = qH + e
    OBVIOUS
  <2>2. Cut(s, count, H, all, o)
    BY <1>9, <2>1
  <2>3. H \in Nat /\ o \in Nat
    OBVIOUS
  <2>4. /\ DOMAIN s = 1 .. count
        /\ \A c \in 1 .. count : Sums(s)[c] = IF c < count THEN c * H + o ELSE all + o
    <3>1. EndAtMultiples(s, count, H, all, o)
      BY <2>2, <2>3, EndsOfChunks
    <3> QED BY <3>1 DEF EndAtMultiples
  <2> QED BY <2>1, <2>4
<1> SUFFICES ASSUME NEW c \in 1 .. count
             PROVE  /\ \E k \in 0 .. n : Sums(s)[c] = Sums(B)[k] + (k + 1) * o
                    /\ s[c] + h <= SecureChunk + (IF c = 1 THEN o ELSE 0)
  BY <1>1, <1>2, <1>10, ZenonT(30) DEF s, B
<1>11. s[c] + h <= SecureChunk + (IF c = 1 THEN o ELSE 0)
  <2>1. s[c] = (IF c < count THEN H ELSE LastOf(count, H, qH + e)) + (IF c = 1 THEN o ELSE 0)
    BY <1>9 DEF Cut
  <2>2. LastOf(count, H, qH + e) <= H /\ LastOf(count, H, qH + e) \in Int
    <3>1. CASE e = 0
      <4>1. q - 1 \in Int /\ count = q
        BY <1>8, <3>1
      <4>2. q = (q - 1) + 1
        BY <4>1
      <4>3. ((q - 1) + 1) * H = (q - 1) * H + 1 * H
        BY <4>1, Distribute
      <4>4. PICK y \in Int : y = (q - 1) * H
        BY <4>1
      <4>5. qH = y + H
        BY <1>5, <4>2, <4>3, <4>4
      <4> QED BY <3>1, <4>1, <4>4, <4>5 DEF LastOf
    <3>2. CASE e # 0
      <4>1. count - 1 = q
        BY <1>8, <3>2
      <4>2. (count - 1) * H = qH
        BY <1>5, <4>1
      <4> QED BY <4>2 DEF LastOf
    <3> QED BY <3>1, <3>2
  <2>3. PICK f \in Int : f = (IF c < count THEN H ELSE LastOf(count, H, qH + e)) /\ f <= H
    <3>1. PICK y : y = LastOf(count, H, qH + e)
      OBVIOUS
    <3>2. y <= H /\ y \in Int
      BY <2>2, <3>1
    <3>3. PICK f \in Int : f = (IF c < count THEN H ELSE y) /\ f <= H
      BY <3>2
    <3> QED BY <3>1, <3>3, Zenon
  <2> QED BY <1>1, <2>1, <2>3
<1>12. CASE c <= q
  <2>1. c \in 0 .. (L \div a) /\ c \in Nat
    BY <1>3, <1>12
  <2>2. c * m \in 0 .. n /\ Sums(B)[c * m] = c * a
    BY <1>2, <2>1
  <2>3. c * a + (c * m + 1) * o = c * H + o
    <3>1. c * (a + m * o) = c * a + c * (m * o)
      BY <1>5, <2>1, Distribute
    <3>2. c * (m * o) = (c * m) * o
      BY <2>1
    <3>3. c * m \in Nat
      BY <2>1, ProductNat
    <3>4. (c * m + 1) * o = (c * m) * o + 1 * o
      BY <3>3, Distribute
    <3>5. (c * m) * o \in Nat /\ c * a \in Nat
      BY <2>1, <3>3, ProductNat
    <3> QED BY <1>2, <3>1, <3>2, <3>4, <3>5
  <2>4. Sums(s)[c] = Sums(B)[c * m] + (c * m + 1) * o
    <3>1. Sums(s)[c] = c * H + o
      <4>1. CASE c < count
        BY <1>10, <4>1
      <4>2. CASE ~(c < count)
        <5>1. c = q /\ e = 0
          BY <1>8, <1>12, <4>2
        <5>2. c * H = qH
          BY <1>5, <5>1
        <5> QED BY <1>10, <4>2, <5>1, <5>2
      <4> QED BY <4>1, <4>2
    <3> QED BY <2>2, <2>3, <3>1
  <2> QED BY <1>11, <2>2, <2>4
<1>13. CASE ~(c <= q)
  <2>1. Sums(s)[c] = qH + e + o
    <3>1. ~(c < count)
      BY <1>8, <1>13
    <3> QED BY <1>10, <3>1
  <2>2. Sums(B)[n] = L
    BY <1>2 DEF Total
  <2>3. Sums(s)[c] = Sums(B)[n] + (n + 1) * o /\ n \in 0 .. n
    BY <1>7, <2>1, <2>2
  <2> QED BY <1>11, <2>3
<1> QED
  BY <1>12, <1>13

\* Partition j is encrypted in one part, in blocks that all have a size.
Plain(j) == plan[j].encrypted /\ plan[j].kind # "bootloader" /\ ~Misfit(j)

\* The records from h on are the secure header and the first n blocks of the list.
RowOf(h, n) ==
    /\ RecordsOf(job) = h .. (h + n)
    /\ \A k \in 0 .. n : records[h + k].from + records[h + k].size = Sums(blocksList)[k]

\* The records of the partition that is encrypted follow each other and end where
\* the blocks of its list end; once it is encrypted they are as many as the blocks.
RowInv ==
    phase \in {"block", "hash"} /\ Plain(job) =>
        /\ blkPtr \in 1 .. Pairs
        /\ phase = "hash" => blkPtr = Pairs
        /\ \E h \in Nat : RowOf(h, blkPtr - 1)

\* The secure header is the first record.
LEMMA HeaderRow ==
    ASSUME TypeInv, Inv, OrderInv, EncryptHeader
    PROVE  RowInv'
<1> DEFINE next == Lesser(blocksList[1], InLen)
           pair == <<ctx.aesKey, ctx.aesIv>>
           after == PairBytes(2)
<1>1. /\ AddRecord(pair, 1, 0, 0, after, next)
      /\ blkPtr' = 1 /\ phase = "header" /\ phase' = "block"
      /\ UNCHANGED <<plan, job, stream, blocksList>>
  BY DEF EncryptHeader, At, Go, inputs
<1> HIDE DEF next, pair, after
<1>2. Plain(job)' = Plain(job)
  <2>1. \A j : Misfit(j)' = Misfit(j)
    BY <1>1 DEF Misfit, LastBlock, ChunkSize, Signed, UncutBlocks, WholeBlocks, DefaultBlocks
  <2> QED BY <1>1, <2>1 DEF Plain
<1> SUFFICES ASSUME Plain(job) PROVE RowInv'
  BY <1>2 DEF RowInv
<1>3. IsSequence(records)
  BY DEF Inv, PairsInv
<1>4. PICK l, r :
         /\ l \in Nat /\ DOMAIN records = 1 .. l /\ DOMAIN records' = 1 .. (l + 1)
         /\ records'[l + 1] = r /\ \A k \in 1 .. l : records'[k] = records[k]
         /\ r.job = job /\ r.from = 0 /\ r.size = 0
  BY <1>1, <1>3, RecordMade
<1>5. stream = 1
  <2>1. /\ plan \in Seq(Job) /\ Len(plan[job].lengths) = 1 /\ plan[job].lengths \in Seq(Nat \ {0})
        /\ stream \in DOMAIN plan[job].lengths
    BY PlanFacts, PartLength DEF TypeInv, Plain, PositionInv
  <2> QED BY <2>1
<1>6. job \in Nat
  BY PlaceNat
<1>7. ASSUME NEW i \in 1 .. l PROVE records[i].job # job
  BY <1>1, <1>4, <1>5, <1>6 DEF OrderInv
<1>8. RecordsOf(job)' = {l + 1}
  <2>1. RecordsOf(job)' = {i \in 1 .. (l + 1) : records'[i].job = job}
    BY <1>1, <1>4 DEF RecordsOf
  <2>2. l + 1 \in 1 .. (l + 1) /\ \A i \in 1 .. (l + 1) : i \in 1 .. l \/ i = l + 1
    BY <1>4
  <2> QED BY <1>4, <1>7, <2>1, <2>2
<1>9. Len(blocksList) \in Nat /\ Pairs' \in Nat /\ 1 \in 1 .. Pairs'
  <2>1. blocksList \in Seq(Nat)
    BY ListType DEF TypeInv
  <2> QED BY <1>1, <2>1 DEF Pairs
<1>10. Sums(blocksList)[0] = 0
  BY <1>9, SumsStep
<1>11. RowOf(l + 1, 0)'
  <2>1. (l + 1) .. (l + 1 + 0) = {l + 1} /\ 0 .. 0 = {0} /\ (l + 1) + 0 = l + 1
    BY <1>4
  <2> QED BY <1>1, <1>4, <1>8, <1>10, <2>1 DEF RowOf
<1> QED
  BY <1>1, <1>4, <1>9, <1>11 DEF RowInv

\* A block more ends where the next block of the list does.
LEMMA BlockRow ==
    ASSUME SizesFit, TypeInv, Inv, SizesInv, ChainInv, RowInv, EncryptBlock
    PROVE  RowInv'
<1> DEFINE written == bytesWritten + nextBlkSize
           next == NextSize(written)
           pair == <<Last(records).nextKey, Last(records).nextIv>>
           after == PairAfter(next)
           b == blkPtr + 1
<1>1. /\ AddRecord(pair, b, bytesWritten, nextBlkSize, after, next)
      /\ phase = "block" /\ phase' = "block" /\ blkPtr' = blkPtr + 1
      /\ UNCHANGED <<plan, job, stream, blocksList>>
      /\ bytesWritten < InLen
  BY DEF EncryptBlock, At, position, keys, inputs
<1>2. Plain(job)' = Plain(job)
  <2>1. \A j : Misfit(j)' = Misfit(j)
    BY <1>1 DEF Misfit, LastBlock, ChunkSize, Signed, UncutBlocks, WholeBlocks, DefaultBlocks
  <2> QED BY <1>1, <2>1 DEF Plain
<1> SUFFICES ASSUME Plain(job) PROVE RowInv'
  BY <1>2 DEF RowInv
<1>3. Fitting(job)
  BY DEF Plain, Fitting
<1>4. PICK n \in Nat, p \in Nat \ {0} :
         n = Len(blocksList) /\ p <= n /\ p = blkPtr /\ written = Lesser(Sums(blocksList)[p], InLen)
  <2>1. Len(blocksList) \in Nat /\ blkPtr \in 1 .. Len(blocksList)
        /\ written = Lesser(Sums(blocksList)[blkPtr], InLen)
    BY <1>1, <1>3, NextBlockSize
  <2> QED BY <2>1
<1>5. written = Sums(blocksList)[p]
  <2>1. /\ blocksList \in Seq(Nat) /\ Total(blocksList) = InLen /\ InLen \in Nat
    <3>1. PositionInv /\ phase \notin {"start", "hash"}
      BY <1>1 DEF TypeInv
    <3>2. Total(blocksList) = InLen
      BY <1>3, <3>1, FittingList DEF Plain
    <3> QED BY <3>1, <3>2, ListType, FileType
  <2>2. p \in 0 .. Len(blocksList) /\ Len(blocksList) \in p .. Len(blocksList)
    BY <1>4
  <2>3. Sums(blocksList)[p] <= Total(blocksList) /\ Sums(blocksList)[p] \in Nat
    BY <2>1, <2>2, SumsGrow, SumsNat DEF Total
  <2> QED BY <1>4, <2>1, <2>3 DEF Lesser
<1>6. PICK h \in Nat : RowOf(h, p - 1)
  BY <1>1, <1>4 DEF RowInv
<1> HIDE DEF next, pair, after, b
<1>7. IsSequence(records)
  BY DEF Inv, PairsInv
<1>8. PICK l, r :
         /\ l \in Nat /\ l = Len(records) /\ DOMAIN records = 1 .. l
         /\ DOMAIN records' = 1 .. (l + 1)
         /\ records'[l + 1] = r /\ \A k \in 1 .. l : records'[k] = records[k]
         /\ r.job = job /\ r.from = bytesWritten /\ r.size = nextBlkSize
  BY <1>1, <1>7, RecordMade
<1>9. RecordsOf(job) = {i \in 1 .. l : records[i].job = job}
  BY <1>8 DEF RecordsOf
<1>10. RecordsOf(job) = h .. (h + (p - 1))
  BY <1>6 DEF RowOf
<1>11. l = h + (p - 1)
  <2>1. l \in RecordsOf(job)
    BY <1>1, <1>3, <1>8 DEF ChainInv, PartRecords
  <2>2. h + (p - 1) \in RecordsOf(job)
    <3>1. h + (p - 1) \in h .. (h + (p - 1))
      BY <1>4
    <3> QED BY <1>10, <3>1
  <2>3. h + (p - 1) \in 1 .. l
    BY <1>9, <2>2
  <2>4. l \in h .. (h + (p - 1))
    BY <1>10, <2>1
  <2> QED BY <1>8, <2>3, <2>4
<1>12. RecordsOf(job)' = h .. (h + p)
  <2>1. RecordsOf(job)' = {i \in 1 .. (l + 1) : records'[i].job = job}
    BY <1>1, <1>8 DEF RecordsOf
  <2>2. l + 1 \in 1 .. (l + 1) /\ \A i \in 1 .. (l + 1) : i \in 1 .. l \/ i = l + 1
    BY <1>8
  <2>3. RecordsOf(job)' = RecordsOf(job) \cup {l + 1}
    <3>1. \A i \in 1 .. l : i \in 1 .. (l + 1)
      BY <1>8
    <3> QED BY <1>8, <1>9, <2>1, <2>2, <3>1
  <2>4. h .. (h + p) = (h .. (h + (p - 1))) \cup {l + 1}
    BY <1>4, <1>11
  <2> QED BY <1>10, <2>3, <2>4
<1>13. ASSUME NEW k \in 0 .. p
       PROVE  records'[h + k].from + records'[h + k].size = Sums(blocksList)[k]
  <2>1. CASE k = p
    <3>1. h + k = l + 1
      BY <1>4, <1>11, <2>1
    <3> QED BY <1>5, <1>8, <2>1, <3>1
  <2>2. CASE k # p
    <3>1. k \in 0 .. (p - 1)
      BY <1>4, <2>2
    <3>2. h + k \in 1 .. l
      <4>1. h + k \in h .. (h + (p - 1))
        BY <1>4, <3>1
      <4> QED BY <1>9, <1>10, <4>1
    <3>3. records[h + k].from + records[h + k].size = Sums(blocksList)[k]
      BY <1>6, <3>1 DEF RowOf
    <3> QED BY <1>8, <3>2, <3>3
  <2> QED BY <2>1, <2>2
<1>14. blkPtr' = p + 1 /\ blkPtr' - 1 = p /\ blkPtr' \in 1 .. Pairs'
  BY <1>1, <1>4 DEF Pairs
<1>15. RowOf(h, p)'
  BY <1>1, <1>12, <1>13 DEF RowOf
<1> QED
  BY <1>1, <1>14, <1>15 DEF RowInv

\* The other steps into or within these phases leave the records alone.
LEMMA HashSteps ==
    ASSUME Next \/ UNCHANGED vars, plan[job].encrypted, phase' = "hash"
    PROVE  /\ UNCHANGED <<job, blocksList, cipher>>
           /\ phase = "hash" \/ EndStream
<1>1. CASE UNCHANGED vars
  BY <1>1 DEF vars, position
<1>2. CASE EndStream
  BY <1>2 DEF EndStream, Go, At
<1>3. CASE StartJob \/ StartPmcData
  BY <1>3 DEF StartJob, StartPmcData, Go, At
<1>4. CASE NextJob
  BY <1>4 DEF NextJob, At, position
<1>5. CASE \/ GenerateKeyFile \/ ReadKeyFile \/ TakePairs \/ DerivePairs \/ CheckPairs
           \/ EncryptHeader \/ EncryptBlock
  <2>1. CASE \/ GenerateKeyFile \/ ReadKeyFile \/ TakePairs \/ DerivePairs \/ CheckPairs
             \/ EncryptHeader
    BY <2>1 DEF GenerateKeyFile, ReadKeyFile, KeyFileThere, TakePairs, DerivePairs, CheckPairs,
                EncryptHeader, Go, At
  <2>2. CASE EncryptBlock
    BY <2>2 DEF EncryptBlock, At, position
  <2> QED BY <1>5, <2>1, <2>2
<1>6. CASE \/ RefuseBlocks \/ RefuseKeyFile \/ NoKeyToCopy \/ KeyFileExists
           \/ TooFewPairs \/ RefusePairs \/ Overrun \/ RefuseLength
  <2>1. UNCHANGED <<position, blocksList, cipher>>
    BY <1>6 DEF RefuseBlocks, RefuseKeyFile, NoKeyToCopy, KeyFileExists, TooFewPairs,
                RefusePairs, Overrun, RefuseLength, Fail
  <2> QED BY <2>1 DEF position
<1> QED
  BY <1>1, <1>2, <1>3, <1>4, <1>5, <1>6 DEF Next, ReadKeys, PreparePairs, Encrypt

\* Every step keeps the records in a row.
LEMMA RowStep ==
    ASSUME SizesFit, TypeInv, Inv, SizesInv, OrderInv, ChainInv, RowInv, Next \/ UNCHANGED vars
    PROVE  RowInv'
<1>1. CASE EncryptHeader
  BY <1>1, HeaderRow
<1>2. CASE EncryptBlock
  BY <1>2, BlockRow
<1>3. CASE ~EncryptHeader /\ ~EncryptBlock
  <2>1. UNCHANGED plan
    BY PlanConstant
  <2>2. \A j : Plain(j)' = Plain(j)
    <3>1. \A j : Misfit(j)' = Misfit(j)
      BY <2>1 DEF Misfit, LastBlock, ChunkSize, Signed, UncutBlocks, WholeBlocks, DefaultBlocks
    <3> QED BY <2>1, <3>1 DEF Plain
  <2>3. CASE phase' = "block"
    <3>1. UNCHANGED <<job, phase, blocksList, blkPtr, records>>
      BY <1>3, <2>3, OtherSteps DEF position, cipher
    <3> QED BY <2>2, <3>1 DEF RowInv, RowOf, RecordsOf, Pairs
  <2>4. CASE phase' = "hash" /\ plan[job].encrypted
    <3>1. UNCHANGED <<job, blocksList, blkPtr, records>> /\ (phase = "hash" \/ EndStream)
      BY <2>4, HashSteps DEF cipher
    <3>2. CASE phase = "hash"
      BY <2>2, <2>4, <3>1, <3>2 DEF RowInv, RowOf, RecordsOf, Pairs
    <3>3. CASE EndStream
      <4>1. phase = "block" /\ bytesWritten >= InLen
        BY <3>3 DEF EndStream, At
      <4>2. Plain(job) => blkPtr = Pairs
        BY <4>1, AllTaken DEF Plain, Fitting
      <4> QED BY <2>2, <2>4, <3>1, <4>1, <4>2 DEF RowInv, RowOf, RecordsOf, Pairs
    <3> QED BY <3>1, <3>2, <3>3
  <2>5. CASE phase' = "hash" /\ ~plan[job].encrypted
    <3>1. UNCHANGED job
      BY <2>5, PartSteps
    <3> QED BY <2>1, <2>5, <3>1 DEF RowInv, Plain
  <2>6. CASE phase' \notin {"block", "hash"}
    BY <2>6 DEF RowInv
  <2> QED BY <2>3, <2>4, <2>5, <2>6
<1> QED
  BY <1>1, <1>2, <1>3

\* A record of the row ends where its block does, with what came with the blocks
\* up to it.
LEMMA RowEnds ==
    ASSUME NEW h \in Nat, NEW n \in Nat, RowOf(h, n)
    PROVE  /\ Cardinality(RecordsOf(job)) = n + 1
           /\ \A k \in 0 .. n :
                 /\ h + k \in RecordsOf(job)
                 /\ CipherEnd(job, h + k) = Sums(blocksList)[k] + (k + 1) * Overhead
<1>1. RecordsOf(job) = h .. (h + n)
  BY DEF RowOf
<1>2. \A k \in 0 .. n : Cardinality(h .. (h + k)) = k + 1
  <2> SUFFICES ASSUME NEW k \in 0 .. n PROVE Cardinality(h .. (h + k)) = k + 1
    OBVIOUS
  <2>1. h \in Int /\ h + k \in Int /\ ~(h > h + k) /\ (h + k) - h + 1 = k + 1
    OBVIOUS
  <2> QED BY <2>1, FS_Interval
<1>3. Cardinality(RecordsOf(job)) = n + 1
  <2>1. n \in 0 .. n
    OBVIOUS
  <2> QED BY <1>1, <1>2, <2>1
<1>4. ASSUME NEW k \in 0 .. n
      PROVE  /\ h + k \in RecordsOf(job)
             /\ CipherEnd(job, h + k) = Sums(blocksList)[k] + (k + 1) * Overhead
  <2>1. h + k \in h .. (h + n)
    OBVIOUS
  <2>2. {i \in RecordsOf(job) : i <= h + k} = h .. (h + k)
    BY <1>1
  <2>3. Cardinality({i \in RecordsOf(job) : i <= h + k}) = k + 1
    BY <1>2, <2>2
  <2>4. records[h + k].from + records[h + k].size = Sums(blocksList)[k]
    BY DEF RowOf
  <2> QED BY <1>1, <2>1, <2>3, <2>4 DEF CipherEnd
<1> QED
  BY <1>3, <1>4

\* The chunks of partitions that are done hold whole blocks, the others have none.
ChunksInv ==
    /\ DOMAIN chunks = DOMAIN plan
    /\ status = "building" => \A j \in DOMAIN plan : j >= job => chunks[j] = <<>>
    /\ ChunksHoldWholeBlocks

\* The partition that is done is cut into whole blocks.
LEMMA CutIsWhole ==
    ASSUME TypeInv, RowInv, phase = "hash", plan[job].encrypted, Signed(job), ~Misfit(job),
           plan[job].kind = "partition"
    PROVE  \A c \in DOMAIN ChunkSizes(job) :
              /\ \E i \in RecordsOf(job) : Sums(ChunkSizes(job))[c] = CipherEnd(job, i)
              /\ ChunkSizes(job)[c] + HashLength <= SecureChunk + (IF c = 1 THEN Overhead ELSE 0)
<1>1. PICK L \in Nat \ {0} : /\ L = Total(plan[job].lengths) /\ blocksList = BlocksList(job, L)
                             /\ plan \in Seq(Job) /\ job \in DOMAIN plan
  BY PlanFacts DEF TypeInv, PositionInv
<1>2. PICK n \in Nat : n = Len(blocksList) /\ Pairs = n + 1
  BY ListType DEF Pairs, TypeInv
<1>3. PICK h \in Nat : RowOf(h, n)
  <2>1. Plain(job)
    BY DEF Plain
  <2>2. blkPtr = n + 1 /\ (n + 1) - 1 = n
    BY <1>2, <2>1 DEF RowInv
  <2> QED BY <2>1, <2>2 DEF RowInv
<1>4. /\ Cardinality(RecordsOf(job)) = n + 1
      /\ \A k \in 0 .. n :
            /\ h + k \in RecordsOf(job)
            /\ CipherEnd(job, h + k) = Sums(blocksList)[k] + (k + 1) * Overhead
  BY <1>3, RowEnds
<1>5. SecuredLength(job) = L + (Len(BlocksList(job, L)) + 1) * Overhead
  BY <1>1, <1>2, <1>4 DEF SecuredLength
<1>6. \A c \in DOMAIN ChunkSizes(job) :
         /\ \E k \in 0 .. n :
               Sums(ChunkSizes(job))[c] = Sums(blocksList)[k] + (k + 1) * Overhead
         /\ ChunkSizes(job)[c] + HashLength <= SecureChunk + (IF c = 1 THEN Overhead ELSE 0)
  BY <1>1, <1>2, <1>5, ChunksEndWithBlocks
<1> QED
  BY <1>4, <1>6

\* Hashing a partition leaves the chunks whole.
LEMMA NextJobCuts ==
    ASSUME TypeInv, RowInv, ChunksInv, NextJob
    PROVE  ChunksInv'
<1>1. /\ phase = "hash" /\ status = "building" /\ UNCHANGED <<plan, records>>
      /\ chunks' = [chunks EXCEPT ![job] = IF Hashed(job) THEN ChunkSizes(job) ELSE <<>>]
      /\ status' = "building" => job' = job + 1
  BY DEF NextJob, At, inputs, cipher
<1>2. job \in Nat /\ job \in DOMAIN plan /\ \A j \in DOMAIN plan : j \in Nat
  BY PlaceNat
<1>3. DOMAIN chunks' = DOMAIN plan
  BY <1>1 DEF ChunksInv
<1>4. \A j \in DOMAIN plan : j # job => chunks'[j] = chunks[j]
  BY <1>1, <1>3 DEF ChunksInv
<1>5. status' = "building" => \A j \in DOMAIN plan : j >= job' => chunks'[j] = <<>>
  <2> SUFFICES ASSUME NEW j \in DOMAIN plan, j >= job + 1 PROVE chunks'[j] = <<>>
    BY <1>1
  <2>1. j # job /\ j >= job
    BY <1>2
  <2> QED BY <1>1, <1>4, <2>1 DEF ChunksInv
<1>6. PICK new : /\ new = chunks'[job]
                 /\ new = IF Hashed(job) THEN ChunkSizes(job) ELSE <<>>
  BY <1>1, <1>2 DEF ChunksInv
<1>7. \A j : /\ Misfit(j)' = Misfit(j) /\ Signed(j)' = Signed(j) /\ RecordsOf(j)' = RecordsOf(j)
             /\ \A i : CipherEnd(j, i)' = CipherEnd(j, i)
  BY <1>1 DEF Misfit, LastBlock, ChunkSize, Signed, UncutBlocks, WholeBlocks, DefaultBlocks,
              RecordsOf, CipherEnd
<1> SUFFICES ASSUME NEW j \in DOMAIN plan, plan[j].encrypted, Signed(j), ~Misfit(j),
                    NEW list, list = chunks'[j], NEW c \in DOMAIN list
             PROVE  /\ \E i \in RecordsOf(j) : Sums(list)[c] = CipherEnd(j, i)
                    /\ list[c] + HashLength <= SecureChunk + (IF c = 1 THEN Overhead ELSE 0)
  BY <1>1, <1>3, <1>5, <1>7, SMTT(30) DEF ChunksInv, ChunksHoldWholeBlocks
<1>8. CASE j # job
  <2>1. list = chunks[j]
    BY <1>4, <1>8
  <2> QED BY <2>1 DEF ChunksInv, ChunksHoldWholeBlocks
<1>9. CASE j = job
  <2>1. Hashed(job) /\ list = ChunkSizes(job)
    <3>1. list = new
      BY <1>6, <1>9
    <3>2. DOMAIN list # {}
      OBVIOUS
    <3>3. DOMAIN <<>> = {}
      OBVIOUS
    <3> QED BY <1>6, <3>1, <3>2, <3>3
  <2>2. plan[job].kind = "partition"
    BY <2>1 DEF Hashed
  <2> QED BY <1>1, <1>9, <2>1, <2>2, CutIsWhole
<1> QED
  BY <1>8, <1>9

\* A record more is one of a partition that has no chunks yet.
LEMMA RecordCuts ==
    ASSUME TypeInv, Inv, ChunksInv, EncryptHeader \/ EncryptBlock
    PROVE  ChunksInv'
<1>1. status = "building" /\ UNCHANGED <<plan, job, chunks, status>>
  BY DEF EncryptHeader, EncryptBlock, At, Go, inputs, position
<1>2. job \in Nat /\ \A j \in DOMAIN plan : j \in Nat
  BY PlaceNat
<1>3. PICK r : records' = Append(records, r) /\ r.job = job
  <2> DEFINE hNext == Lesser(blocksList[1], InLen)
             hPair == <<ctx.aesKey, ctx.aesIv>>
             hAfter == PairBytes(2)
             bNext == NextSize(bytesWritten + nextBlkSize)
             bPair == <<Last(records).nextKey, Last(records).nextIv>>
             bAfter == PairAfter(bNext)
             b == blkPtr + 1
  <2>1. \/ AddRecord(hPair, 1, 0, 0, hAfter, hNext)
        \/ AddRecord(bPair, b, bytesWritten, nextBlkSize, bAfter, bNext)
    BY DEF EncryptHeader, EncryptBlock
  <2>2. IsSequence(records)
    BY DEF Inv, PairsInv
  <2> HIDE DEF hNext, hPair, hAfter, bNext, bPair, bAfter, b
  <2> QED BY <2>1, <2>2, RecordMade
<1>4. PICK l \in Nat : /\ DOMAIN records = 1 .. l /\ DOMAIN records' = 1 .. (l + 1)
                       /\ records'[l + 1] = r /\ \A i \in 1 .. l : records'[i] = records[i]
  <2>1. IsSequence(records)
    BY DEF Inv, PairsInv
  <2> QED BY <1>3, <2>1, RecordAppended
<1>5. \A j : Misfit(j)' = Misfit(j) /\ Signed(j)' = Signed(j)
  BY <1>1 DEF Misfit, LastBlock, ChunkSize, Signed, UncutBlocks, WholeBlocks, DefaultBlocks
<1>6. ASSUME NEW j, j # job
      PROVE  /\ RecordsOf(j)' = RecordsOf(j)
             /\ \A i \in RecordsOf(j) : CipherEnd(j, i)' = CipherEnd(j, i)
  <2>1. RecordsOf(j)' = RecordsOf(j)
    BY <1>3, <1>4, <1>6 DEF RecordsOf
  <2>2. ASSUME NEW i \in RecordsOf(j) PROVE records'[i] = records[i]
    BY <1>4 DEF RecordsOf
  <2>3. ASSUME NEW i \in RecordsOf(j) PROVE CipherEnd(j, i)' = CipherEnd(j, i)
    BY <2>1, <2>2 DEF CipherEnd
  <2> QED BY <2>1, <2>3
<1> SUFFICES ASSUME NEW j \in DOMAIN plan, plan[j].encrypted, Signed(j), ~Misfit(j),
                    NEW list, list = chunks[j], NEW c \in DOMAIN list
             PROVE  /\ \E i \in RecordsOf(j)' : Sums(list)[c] = CipherEnd(j, i)'
                    /\ list[c] + HashLength <= SecureChunk + (IF c = 1 THEN Overhead ELSE 0)
  BY <1>1, <1>5 DEF ChunksInv, ChunksHoldWholeBlocks
<1>7. j # job
  <2>1. DOMAIN <<>> = {} /\ DOMAIN list # {}
    OBVIOUS
  <2>2. ~(j >= job)
    BY <1>1, <2>1 DEF ChunksInv
  <2> QED BY <1>2, <2>2
<1> QED
  BY <1>6, <1>7 DEF ChunksInv, ChunksHoldWholeBlocks

\* Every other step leaves chunks and records alone.
LEMMA ChunksStep ==
    ASSUME TypeInv, Inv, RowInv, ChunksInv, Next \/ UNCHANGED vars
    PROVE  ChunksInv'
<1>1. CASE NextJob
  BY <1>1, NextJobCuts
<1>2. CASE EncryptHeader \/ EncryptBlock
  BY <1>2, RecordCuts
<1>3. CASE ~NextJob /\ ~EncryptHeader /\ ~EncryptBlock
  <2>1. UNCHANGED <<plan, records>>
    BY <1>3, PlanConstant, OtherSteps DEF cipher
  <2>2. UNCHANGED <<job, chunks>> /\ (status' = "building" => status = "building")
    <3>1. CASE UNCHANGED vars
      BY <3>1 DEF vars, position
    <3>2. CASE \/ StartJob \/ GenerateKeyFile \/ ReadKeyFile \/ TakePairs \/ DerivePairs
               \/ CheckPairs \/ EndStream \/ StartPmcData
      BY <3>2 DEF StartJob, GenerateKeyFile, ReadKeyFile, KeyFileThere, TakePairs, DerivePairs,
                  CheckPairs, EndStream, StartPmcData, Go, At
    <3>3. CASE \/ RefuseBlocks \/ RefuseKeyFile \/ NoKeyToCopy \/ KeyFileExists
               \/ TooFewPairs \/ RefusePairs \/ Overrun \/ RefuseLength
      <4>1. UNCHANGED <<position, chunks>>
        BY <3>3 DEF RefuseBlocks, RefuseKeyFile, NoKeyToCopy, KeyFileExists, TooFewPairs,
                    RefusePairs, Overrun, RefuseLength, Fail
      <4>2. status = "building"
        BY <3>3 DEF RefuseBlocks, RefuseKeyFile, KeyFileThere, NoKeyToCopy, KeyFileExists,
                    TooFewPairs, RefusePairs, Overrun, RefuseLength, At
      <4> QED BY <4>1, <4>2 DEF position
    <3> QED BY <1>3, <3>1, <3>2, <3>3 DEF Next, ReadKeys, PreparePairs, Encrypt
  <2>3. \A j : /\ Misfit(j)' = Misfit(j) /\ Signed(j)' = Signed(j) /\ RecordsOf(j)' = RecordsOf(j)
               /\ \A i : CipherEnd(j, i)' = CipherEnd(j, i)
    BY <2>1 DEF Misfit, LastBlock, ChunkSize, Signed, UncutBlocks, WholeBlocks, DefaultBlocks,
                RecordsOf, CipherEnd
  <2>4. DOMAIN chunks' = DOMAIN plan
    BY <2>2 DEF ChunksInv
  <2>5. status' = "building" => \A j \in DOMAIN plan : j >= job => chunks[j] = <<>>
    BY <2>2 DEF ChunksInv
  <2> SUFFICES ASSUME NEW j \in DOMAIN plan, plan[j].encrypted, Signed(j), ~Misfit(j),
                      NEW list, list = chunks[j], NEW c \in DOMAIN list
               PROVE  /\ \E i \in RecordsOf(j) : Sums(list)[c] = CipherEnd(j, i)
                      /\ list[c] + HashLength <= SecureChunk + (IF c = 1 THEN Overhead ELSE 0)
    BY <2>1, <2>2, <2>3, <2>4, <2>5 DEF ChunksInv, ChunksHoldWholeBlocks
  <2> QED BY DEF ChunksInv, ChunksHoldWholeBlocks
<1> QED
  BY <1>1, <1>2, <1>3

\* Wherever the user cuts the blocks and however long the partition is, each of the
\* chunks that GetTotalDataChunks makes of its encrypted bytes ends where a block of
\* Process ends and fits the device's buffer, unless a block is left with no room.
THEOREM ChunksAreWhole ==
    ASSUME SizesFit
    PROVE  Spec => []ChunksHoldWholeBlocks
<1> DEFINE IInv == /\ Inv /\ TypeInv /\ SizesInv /\ OrderInv /\ ChainInv /\ RowInv /\ ChunksInv
<1>1. IInv /\ [Next]_vars => IInv'
  <2>1. ASSUME IInv, Next \/ UNCHANGED vars PROVE IInv'
    BY <2>1, KeyRollingStep, KeyRollingStutter, TypeStep, TypeStutter, SizesStep, OrderStep,
       ChainStep, RowStep, ChunksStep
  <2> QED BY <2>1
<1>2. Init => IInv
  <2> SUFFICES ASSUME NEW input \in Inputs, InitOf(input) PROVE IInv
    BY DEF Init
  <2>1. Init
    BY DEF Init
  <2>2. phase = "start" /\ records = <<>> /\ chunks = [j \in DOMAIN plan |-> <<>>]
    BY DEF InitOf
  <2>3. DOMAIN records = {} /\ DOMAIN <<>> = {}
    BY <2>2
  <2>4. \A j \in DOMAIN plan : chunks[j] = <<>>
    BY <2>2
  <2>5. ChunksHoldWholeBlocks
    BY <2>3, <2>4 DEF ChunksHoldWholeBlocks
  <2>6. ChunksInv
    BY <2>2, <2>4, <2>5 DEF ChunksInv
  <2>7. SizesInv /\ OrderInv /\ ChainInv /\ RowInv
    BY <2>2, <2>3 DEF SizesInv, OrderInv, ChainInv, RowInv
  <2> QED BY <2>1, <2>6, <2>7, InitFiles, TypeInit
<1>3. IInv => ChunksHoldWholeBlocks
  BY DEF ChunksInv
<1> QED
  BY <1>1, <1>2, <1>3, PTL DEF Spec

-----------------------------------------------------------------------------
(* The layout: what the second pass has placed lies apart.                 *)

\* Sections i and k of the addresses a do not touch each other's extent.
Apart(a, i, k) == a[i] + Extent(i) <= a[k] \/ a[k] + Extent(k) <= a[i]

\* What the second pass has taken comes before the rest and lies apart, below
\* runningAddress, unless an address has been cut.
Restacking ==
    /\ \A i \in visited, k \in DOMAIN sections \ visited : Before(i, k)
    /\ ReservesCover /\ folded = {} =>
          /\ \A i \in visited : Address[i] + Extent(i) <= running
          /\ \A i, k \in visited : i # k => Apart(Address, i, k)

LayoutInv ==
    /\ LayoutTypeOK
    /\ stage = "restacking" => Restacking
    /\ SectionsApart

-----------------------------------------------------------------------------
\* Rounding up never gives more than the next multiple of the default alignment, and
\* always a multiple; if it gives less, the address has been cut.
LEMMA AlignToBound ==
    ASSUME NEW x \in Nat, NEW A \in Alignments \cup {DefaultAlignment}
    PROVE  /\ AlignTo(x, A) \in Nat /\ AlignTo(x, A) <= x + A - 1
           /\ AlignTo(x, A) % DefaultAlignment = 0
<1>1. A \in Nat \ {0} /\ MaskModulus \in Nat \ {0}
  BY LayoutAssumption
<1>2. PICK m \in 0 .. (MaskModulus - 1) : m = (x + A - 1) % MaskModulus /\ m <= x + A - 1
  BY <1>1
<1>3. /\ BitAnd(m, MaskModulus - A) \in 0 .. m
      /\ BitAnd(m, MaskModulus - A) % DefaultAlignment = 0
  BY MaskAssumption
<1>4. AlignTo(x, A) = BitAnd(m, MaskModulus - A)
  BY <1>2 DEF AlignTo
<1> QED
  BY <1>1, <1>2, <1>3, <1>4

\* The same for the default alignment.
LEMMA AlignedBound ==
    ASSUME NEW x \in Nat
    PROVE  /\ Aligned(x) \in Nat /\ Aligned(x) <= x + DefaultAlignment - 1
           /\ Aligned(x) % DefaultAlignment = 0
BY AlignToBound DEF Aligned

\* The fields of a section that the passes read are natural numbers.
LEMMA SectionFields ==
    ASSUME IsSectionList(sections), NEW i \in DOMAIN sections
    PROVE  /\ sections[i].Length \in Nat /\ sections[i].Offset \in Nat
           /\ sections[i].Reserve \in Nat /\ sections[i].Alignment \in Nat
           /\ sections[i].Alignment # 0 => sections[i].Alignment \in Alignments
           /\ Extent(i) \in Nat
<1>1. sections[i] \in SectionType
  BY DEF IsSectionList
<1> QED
  BY <1>1, LayoutAssumption DEF SectionType, Extent, Greater

\* The first pass keeps addresses natural.
LEMMA StackSectionType ==
    ASSUME LayoutTypeOK, StackSection
    PROVE  LayoutTypeOK'
<1>1. PICK i \in DOMAIN sections :
        /\ InList(i) /\ ~Overlaps(i)
        /\ Address' = [Address EXCEPT ![i] = AddressOf(i)]
        /\ running' = Aligned(AddressOf(i) + sections[i].Length)
        /\ reserved' = IF sections[i].Reserve = 0 THEN reserved
                       ELSE AddressOf(i) + sections[i].Reserve
        /\ visited' = visited \cup {i}
        /\ folded' \subseteq folded \cup {i}
        /\ UNCHANGED <<smap, stage, sections, linked, file>>
  BY DEF StackSection, Noted
<1>2. /\ sections[i].Length \in Nat /\ sections[i].Reserve \in Nat
      /\ sections[i].Alignment # 0 => sections[i].Alignment \in Alignments
  BY SectionFields DEF LayoutTypeOK
<1>3. Start(i) \in Nat
  BY DEF LayoutTypeOK, Start
<1>4. AddressOf(i) \in Nat
  BY <1>2, <1>3, AlignToBound DEF LayoutTypeOK, AddressOf
<1>5. running' \in Nat
  BY <1>1, <1>2, <1>4, AlignedBound
<1>6. reserved' \in Nat
  BY <1>1, <1>2, <1>4 DEF LayoutTypeOK
<1>7. IsSectionList(sections)'
  BY <1>1 DEF LayoutTypeOK, IsSectionList
<1> QED
  BY <1>1, <1>4, <1>5, <1>6, <1>7 DEF LayoutTypeOK

\* Where the second pass puts a section, and where it goes on if the end is not cut.
LEMMA RestackedBounds ==
    ASSUME LayoutTypeOK, NEW i \in DOMAIN sections
    PROVE  LET end == Restacked(i) + sections[i].Length
           IN  /\ Restacked(i) \in Nat
               /\ ~IsBootHeader(i) => Restacked(i) >= running
               /\ RunningAfter(i, end) \in Nat
               /\ ReservesCover /\ Aligned(end) >= end =>
                     RunningAfter(i, end) >= Restacked(i) + Extent(i)
<1> DEFINE end == Restacked(i) + sections[i].Length
<1>1. sections[i].Length \in Nat /\ sections[i].Reserve \in Nat
  BY SectionFields DEF LayoutTypeOK
<1>2. Restacked(i) \in Nat /\ (~IsBootHeader(i) => Restacked(i) >= running)
  BY DEF LayoutTypeOK, Restacked, Greater
<1>3. end \in Nat
  BY <1>1, <1>2
<1>4. Aligned(end) \in Nat
  BY <1>3, AlignedBound
<1>5. RunningAfter(i, end) \in {end, Aligned(end), Restacked(i) + sections[i].Reserve}
  BY DEF RunningAfter
<1>6. RunningAfter(i, end) \in Nat
  BY <1>1, <1>2, <1>3, <1>4, <1>5
<1>7. ASSUME ReservesCover, Aligned(end) >= end
      PROVE  RunningAfter(i, end) >= Restacked(i) + Extent(i)
  <2>1. CASE InFront(i)
    <3>1. Extent(i) = sections[i].Length
      BY <2>1 DEF Extent
    <3>2. RunningAfter(i, end) \in {end, Aligned(end)}
      BY <2>1 DEF RunningAfter
    <3> QED
      BY <1>1, <1>2, <1>3, <1>4, <1>7, <3>1, <3>2
  <2>2. CASE ~InFront(i) /\ sections[i].Reserve # 0
    <3>1. Extent(i) = sections[i].Reserve
      BY <1>1, <1>7, <2>2 DEF Extent, Greater, ReservesCover
    <3>2. sections[i].kind # "acBootloader" /\ sections[i].kind # "bootloader"
      BY <2>2 DEF InFront, FrontKinds
    <3>3. RunningAfter(i, end) = Restacked(i) + sections[i].Reserve
      BY <2>2, <3>2 DEF RunningAfter
    <3> QED
      BY <1>1, <1>2, <3>1, <3>3
  <2>3. CASE ~InFront(i) /\ sections[i].Reserve = 0
    <3>1. Extent(i) = sections[i].Length
      BY <1>1, <2>3 DEF Extent, Greater
    <3>2. sections[i].kind # "acBootloader" /\ sections[i].kind # "bootloader"
      BY <2>3 DEF InFront, FrontKinds
    <3>3. RunningAfter(i, end) = Aligned(end)
      BY <2>3, <3>2 DEF RunningAfter
    <3> QED
      BY <1>1, <1>2, <1>3, <1>4, <1>7, <3>1, <3>3
  <2> QED
    BY <2>1, <2>2, <2>3
<1> QED
  BY <1>2, <1>6, <1>7

\* When it is the turn of the boot header, nothing has been placed.
LEMMA BootHeaderFirst ==
    ASSUME LayoutTypeOK, Restacking, NEW i \in DOMAIN sections \ visited, IsBootHeader(i)
    PROVE  visited = {}
<1> SUFFICES ASSUME NEW k \in visited PROVE FALSE
  OBVIOUS
<1>1. Before(k, i)
  BY DEF Restacking
<1>2. Loop(i) = 1
  BY DEF Loop, IsBootHeader
<1>3. Loop(k) \in {1, 2, 3, 4} /\ (Loop(k) = 1 => IsBootHeader(k))
  BY DEF Loop, IsBootHeader
<1>4. IsBootHeader(k)
  BY <1>1, <1>2, <1>3 DEF Before
<1>5. k \in DOMAIN sections
  BY DEF LayoutTypeOK
<1> QED
  BY <1>4, <1>5 DEF LayoutTypeOK, IsSectionList, IsBootHeader, FrontKinds

\* A step of the second pass keeps what has been placed apart.
LEMMA RestackSectionKeeps ==
    ASSUME LayoutInv, RestackSection
    PROVE  LayoutInv'
<1>1. PICK i \in DOMAIN sections :
        /\ stage = "restacking" /\ IsNext(i)
        /\ Address' = [Address EXCEPT ![i] = Restacked(i)]
        /\ running' = RunningAfter(i, Restacked(i) + sections[i].Length)
        /\ visited' = visited \cup {i}
        /\ folded' = Noted(i, Restacked(i) + sections[i].Length,
                           Aligned(Restacked(i) + sections[i].Length))
        /\ UNCHANGED <<smap, stage, sections, reserved, linked, file>>
  BY DEF RestackSection
<1>2. LayoutTypeOK /\ Restacking
  BY <1>1 DEF LayoutInv
<1>3. /\ Restacked(i) \in Nat
      /\ ~IsBootHeader(i) => Restacked(i) >= running
      /\ running' \in Nat
  BY <1>1, <1>2, RestackedBounds
<1>4. i \notin visited /\ visited \subseteq DOMAIN sections
  BY <1>1, <1>2 DEF IsNext, LayoutTypeOK
<1>5. \A k : Extent(k)' = Extent(k)
  BY <1>1 DEF Extent, InFront, FrontKinds
<1>6. ReservesCover' <=> ReservesCover
  BY <1>1 DEF ReservesCover, InFront, FrontKinds
<1>7. /\ Address'[i] = Restacked(i)
      /\ \A k \in visited : Address'[k] = Address[k] /\ Address[k] \in Nat
                            /\ Extent(k) \in Nat
  BY <1>1, <1>2, <1>4, SectionFields DEF LayoutTypeOK
<1>8. LayoutTypeOK'
  <2>1. IsSectionList(sections)'
    BY <1>1, <1>2 DEF LayoutTypeOK, IsSectionList
  <2>2. folded' \subseteq folded \cup {i}
    BY <1>1 DEF Noted
  <2> QED
    BY <1>1, <1>2, <1>3, <2>1, <2>2 DEF LayoutTypeOK
<1>9. \A k \in visited', l \in (DOMAIN sections \ visited)' : Before(k, l)'
  <2> SUFFICES ASSUME NEW k \in visited', NEW l \in (DOMAIN sections \ visited)'
               PROVE  Before(k, l)'
    OBVIOUS
  <2>1. Before(k, l)' <=> Before(k, l)
    BY <1>1 DEF Before, Loop
  <2>2. l \in DOMAIN sections \ visited /\ l # i
    BY <1>1
  <2>3. CASE k = i
    BY <1>1, <2>1, <2>2, <2>3 DEF IsNext
  <2>4. CASE k \in visited
    BY <1>2, <2>1, <2>2, <2>4 DEF Restacking
  <2> QED
    BY <1>1, <2>3, <2>4
<1>10. ASSUME ReservesCover, folded' = {}
       PROVE  /\ folded = {} /\ running' >= Restacked(i) + Extent(i)
              /\ \A k \in visited : /\ Address[k] + Extent(k) <= Restacked(i)
                                    /\ Address[k] + Extent(k) <= running'
  <2>1. Extent(i) \in Nat /\ running \in Nat /\ sections[i].Length \in Nat
    BY <1>2, SectionFields DEF LayoutTypeOK
  <2>2. PICK end \in Nat : end = Restacked(i) + sections[i].Length
    BY <1>3, <2>1
  <2>3. folded = {} /\ Aligned(end) >= end
    <3>1. Aligned(end) \in Nat
      BY AlignedBound
    <3> QED
      BY <1>1, <1>10, <2>2, <3>1 DEF Noted
  <2>4. running' >= Restacked(i) + Extent(i)
    BY <1>1, <1>2, <1>10, <2>2, <2>3, RestackedBounds
  <2>5. CASE IsBootHeader(i)
    BY <1>2, <1>4, <2>3, <2>4, <2>5, BootHeaderFirst
  <2>6. CASE ~IsBootHeader(i)
    BY <1>2, <1>3, <1>7, <1>10, <2>1, <2>3, <2>4, <2>6 DEF Restacking
  <2> QED
    BY <2>5, <2>6
<1>11. ReservesCover' /\ folded' = {} =>
         /\ \A k \in visited' : (Address[k] + Extent(k) <= running)'
         /\ \A k, l \in visited' : k # l => Apart(Address, k, l)'
  <2> SUFFICES ASSUME ReservesCover, folded' = {}
               PROVE  /\ \A k \in visited' : Address'[k] + Extent(k) <= running'
                      /\ \A k, l \in visited' : k # l =>
                            \/ Address'[k] + Extent(k) <= Address'[l]
                            \/ Address'[l] + Extent(l) <= Address'[k]
    BY <1>5, <1>6 DEF Apart
  <2>1. \A k \in visited' : Address'[k] + Extent(k) <= running'
    BY <1>1, <1>3, <1>7, <1>10
  <2>2. \A k \in visited : Address'[k] + Extent(k) <= Address'[i]
    BY <1>7, <1>10
  <2>3. \A k, l \in visited : k # l =>
            \/ Address'[k] + Extent(k) <= Address'[l]
            \/ Address'[l] + Extent(l) <= Address'[k]
    BY <1>2, <1>7, <1>10 DEF Restacking, Apart
  <2> QED
    BY <1>1, <2>1, <2>2, <2>3
<1>12. SectionsApart'
  <2>1. folded' = {} => folded = {}
    BY <1>1 DEF Noted
  <2> QED
    BY <1>1, <1>5, <1>6, <2>1 DEF LayoutInv, SectionsApart
<1> QED
  BY <1>8, <1>9, <1>11, <1>12 DEF LayoutInv, Restacking

\* The addresses that are linked are those of the second pass, which has taken
\* every section, unless a field is too short for one of them.
LEMMA LinkKeeps ==
    ASSUME LayoutInv, Link
    PROVE  LayoutInv'
<1>1. LayoutTypeOK /\ Restacking /\ visited = DOMAIN sections
  BY DEF LayoutInv, Link, AllVisited
<1>2. LayoutTypeOK'
  <2>1. ASSUME NEW i \in DOMAIN sections
        PROVE  Address[i] % LinkModulus(i) \in Nat
    <3>0. DefaultAlignment \in 1 .. (MaskModulus - 1) /\ MaskModulus \in Nat
      BY LayoutAssumption
    <3>1. MaskModulus \in Nat \ {0} /\ Address[i] \in Nat
      BY <1>1, <3>0 DEF LayoutTypeOK
    <3>2. PICK m \in Nat \ {0} : m = LinkModulus(i)
      BY <3>1 DEF LinkModulus, BytesPerWord
    <3>3. Address[i] % m \in Nat
      BY <3>1
    <3> QED BY <3>2, <3>3
  <2>2. linked' \in [DOMAIN sections -> Nat]
    BY <2>1 DEF Link
  <2>3. folded' \subseteq DOMAIN sections
    BY <1>1 DEF Link, LayoutTypeOK
  <2> QED
    BY <1>1, <2>2, <2>3 DEF Link, LayoutTypeOK, Stages, IsSectionList
<1>3. DOMAIN linked' = visited
  BY <1>1 DEF Link, LayoutTypeOK
<1>4. folded' = {} => folded = {} /\ \A i \in visited : linked'[i] = Address[i]
  BY <1>1 DEF Link
<1>5. \A k : Extent(k)' = Extent(k)
  BY DEF Link, Extent, InFront, FrontKinds
<1>6. ReservesCover' <=> ReservesCover
  BY DEF Link, ReservesCover, InFront, FrontKinds
<1>7. SectionsApart'
  BY <1>1, <1>3, <1>4, <1>5, <1>6 DEF SectionsApart, Restacking, Apart
<1> QED
  BY <1>2, <1>7 DEF LayoutInv, Link

\* A step that leaves the sections, the addresses linked and the types alone.
LEMMA OtherStepsKeep ==
    ASSUME LayoutInv, LayoutTypeOK', UNCHANGED <<sections, linked>>, folded \subseteq folded',
           stage' = "restacking" => visited' = {}
    PROVE  LayoutInv'
<1>1. \A k : Extent(k)' = Extent(k)
  BY DEF Extent, InFront, FrontKinds
<1>2. ReservesCover' <=> ReservesCover
  BY DEF ReservesCover, InFront, FrontKinds
<1>3. SectionsApart'
  BY <1>1, <1>2 DEF LayoutInv, SectionsApart
<1> QED
  BY <1>3 DEF LayoutInv, Restacking

\* Writing keeps addresses natural, even if the SMAP words are left out.
LEMMA WriteInFrontType ==
    ASSUME LayoutTypeOK, WriteInFront
    PROVE  LayoutTypeOK'
<1>1. PICK i \in DOMAIN sections :
        LET addr == IF IsBootHeader(i) THEN Address[i] ELSE running
            size == sections[i].Length - Skipped(i)
        IN  /\ Address' = [Address EXCEPT ![i] = addr]
            /\ running' = Aligned(addr + size)
            /\ visited' = visited \cup {i}
            /\ folded' \subseteq folded \cup {i}
            /\ UNCHANGED <<smap, stage, sections, reserved, linked>>
  BY DEF WriteInFront, Noted
<1>2. (IF IsBootHeader(i) THEN Address[i] ELSE running) \in Nat
  BY DEF LayoutTypeOK
<1>3. sections[i].Length - Skipped(i) \in Nat
  BY SectionFields, LayoutAssumption DEF LayoutTypeOK, Skipped, IsSectionList, IsBootHeader
<1>4. running' \in Nat
  BY <1>1, <1>2, <1>3, AlignedBound
<1>5. IsSectionList(sections)'
  BY <1>1 DEF LayoutTypeOK, IsSectionList
<1> QED
  BY <1>1, <1>2, <1>4, <1>5 DEF LayoutTypeOK

\* Writing moves only the position in the file.
LEMMA WriteSectionType ==
    ASSUME LayoutTypeOK, WriteSection
    PROVE  LayoutTypeOK'
<1>1. PICK i \in DOMAIN sections :
        /\ running' = Aligned(Address[i] + sections[i].Length)
        /\ visited' = visited \cup {i}
        /\ folded' \subseteq folded \cup {i}
        /\ UNCHANGED <<smap, stage, sections, Address, reserved, linked>>
  BY DEF WriteSection, Noted
<1>2. Address[i] + sections[i].Length \in Nat
  BY SectionFields DEF LayoutTypeOK
<1>3. running' \in Nat
  BY <1>1, <1>2, AlignedBound
<1>4. IsSectionList(sections)'
  BY <1>1 DEF LayoutTypeOK, IsSectionList
<1> QED
  BY <1>1, <1>3, <1>4 DEF LayoutTypeOK

-----------------------------------------------------------------------------
\* Every step of the passes and of the output keeps the invariant.
LEMMA LayoutStep ==
    ASSUME LayoutInv, LayoutNext
    PROVE  LayoutInv'
<1>1. CASE StackSection
  <2>1. LayoutTypeOK'
    BY <1>1, StackSectionType DEF LayoutInv
  <2>2. UNCHANGED <<sections, linked>> /\ stage' = "stacking" /\ folded \subseteq folded'
    BY <1>1 DEF StackSection, InList, Noted
  <2> QED
    BY <2>1, <2>2, OtherStepsKeep
<1>2. CASE OverlapError \/ StartRestacking \/ StartWriting \/ BackwardsError \/ Close
  <2>1. /\ UNCHANGED <<smap, sections, Address, reserved, linked, folded>>
        /\ stage' \in Stages /\ running' \in {0, running} /\ visited' \in {{}, visited}
        /\ stage' = "restacking" => visited' = {}
    BY <1>2 DEF OverlapError, StartRestacking, StartWriting, BackwardsError, Close, Stages
  <2>2. LayoutTypeOK'
    BY <2>1 DEF LayoutInv, LayoutTypeOK, IsSectionList
  <2> QED
    BY <2>1, <2>2, OtherStepsKeep
<1>3. CASE WriteInFront
  <2>1. UNCHANGED <<sections, linked>> /\ stage' = "writing" /\ folded \subseteq folded'
    BY <1>3 DEF WriteInFront, Noted
  <2> QED
    BY <1>3, <2>1, WriteInFrontType, OtherStepsKeep DEF LayoutInv
<1>4. CASE WriteSection
  <2>1. UNCHANGED <<sections, linked>> /\ stage' = "writing" /\ folded \subseteq folded'
    BY <1>4 DEF WriteSection, Noted
  <2> QED
    BY <1>4, <2>1, WriteSectionType, OtherStepsKeep DEF LayoutInv
<1> QED
  BY <1>1, <1>2, <1>3, <1>4, RestackSectionKeeps, LinkKeeps
     DEF LayoutNext, Stack, Restack, Write

\* A step in which nothing of the layout changes keeps the invariant.
LEMMA LayoutStutter ==
    ASSUME LayoutInv, UNCHANGED layoutVars
    PROVE  LayoutInv'
<1>1. LayoutTypeOK'
  BY DEF LayoutInv, LayoutTypeOK, layoutVars, IsSectionList
<1>2. SectionsApart'
  BY DEF LayoutInv, SectionsApart, layoutVars, ReservesCover, Extent, InFront, FrontKinds
<1>3. Restacking' <=> Restacking
  BY DEF Restacking, layoutVars, ReservesCover, Extent, InFront, FrontKinds, Before, Loop, Apart
<1> QED
  BY <1>1, <1>2, <1>3 DEF LayoutInv, layoutVars

LEMMA LayoutStarts ==
    ASSUME LayoutInit
    PROVE  LayoutInv
<1>1. \A i \in DOMAIN sections : sections[i].Offset \in Nat
  BY SectionFields DEF LayoutInit
<1> QED
  BY <1>1 DEF LayoutInit, LayoutInv, LayoutTypeOK, Stages, SectionsApart

\* For every list of sections the addresses that are linked into the header tables
\* keep the sections, and what they reserve, apart; an address of more than 32 bits
\* that was cut, or a section that outgrows its reservation, is the only exception.
THEOREM LayoutApart == LayoutSpec => []SectionsApart
<1>1. LayoutInit => LayoutInv
  BY LayoutStarts
<1>2. LayoutInv /\ [LayoutNext]_layoutVars => LayoutInv'
  BY LayoutStep, LayoutStutter
<1>3. LayoutInv => SectionsApart
  BY DEF LayoutInv
<1> QED
  BY <1>1, <1>2, <1>3, PTL DEF LayoutSpec

-----------------------------------------------------------------------------
(* Writing what has been laid out.                                         *)

\* Multiples.
LEMMA Multiple ==
    ASSUME NEW d \in Nat \ {0}, NEW k \in Nat
    PROVE  (d * k) % d = 0
<1> DEFINE q == (d * k) \div d
           r == (d * k) % d
<1>1. d * k \in Nat /\ q \in Int /\ r \in 0 .. (d - 1) /\ d * k = d * q + r
  OBVIOUS
<1>2. PICK e \in Int : e = k - q
  BY <1>1
<1>3. d * e = r
  BY <1>1, <1>2
<1> HIDE DEF q, r
<1>4. CASE e >= 1
  <2>1. d * e >= d
    BY <1>4
  <2> QED BY <1>1, <1>3, <2>1
<1>5. CASE e <= -1
  <2>1. d * e <= -d
    BY <1>5
  <2> QED BY <1>1, <1>3, <2>1
<1>6. CASE e = 0
  BY <1>3, <1>6 DEF r
<1> QED
  BY <1>4, <1>5, <1>6

\* A number without remainder is one.
LEMMA Quotient ==
    ASSUME NEW d \in Nat \ {0}, NEW x \in Nat, x % d = 0
    PROVE  \E k \in Nat : x = d * k
<1>1. x = d * (x \div d) + (x % d) /\ x \div d \in Nat
  OBVIOUS
<1> QED
  BY <1>1

LEMMA SumAligned ==
    ASSUME NEW d \in Nat \ {0}, NEW x \in Nat, NEW y \in Nat, x % d = 0, y % d = 0
    PROVE  (x + y) % d = 0
<1>1. PICK j \in Nat : x = d * j
  BY Quotient
<1>2. PICK k \in Nat : y = d * k
  BY Quotient
<1>3. x + y = d * (j + k) /\ j + k \in Nat
  BY <1>1, <1>2
<1> QED
  BY <1>3, Multiple

\* Rounding up gives no more than any multiple that is not below, whether the address
\* is cut or not.  So it keeps an order and leaves what is aligned alone, if what it
\* gives is not below.
LEMMA AlignedFacts ==
    ASSUME NEW x \in Nat
    PROVE  /\ Aligned(x) \in Nat /\ Aligned(x) % DefaultAlignment = 0
           /\ \A y \in Nat : x <= y /\ y % DefaultAlignment = 0 => Aligned(x) <= y
           /\ x % DefaultAlignment = 0 => Aligned(x) <= x
           /\ x % DefaultAlignment = 0 /\ x <= Aligned(x) => Aligned(x) = x
           /\ \A y \in Nat : x <= y /\ y <= Aligned(y) => Aligned(x) <= Aligned(y)
<1>1. PICK D \in Nat \ {0} : D = DefaultAlignment
  BY LayoutAssumption
<1>2. Aligned(x) \in Nat /\ Aligned(x) <= x + D - 1 /\ Aligned(x) % D = 0
  BY <1>1, AlignedBound
<1>3. ASSUME NEW y \in Nat, x <= y, y % D = 0
      PROVE  Aligned(x) <= y
  <2>1. PICK a \in Nat : a = Aligned(x)
    BY <1>2
  <2>2. PICK j \in Nat : a = D * j
    BY <1>2, <2>1, Quotient
  <2>3. PICK k \in Nat : y = D * k
    BY <1>3, Quotient
  <2>4. j <= k
    <3> SUFFICES ASSUME j >= k + 1 PROVE FALSE
      OBVIOUS
    <3>1. D * j >= D * (k + 1)
      OBVIOUS
    <3>2. D * (k + 1) = D * k + D
      OBVIOUS
    <3> QED BY <1>2, <1>3, <2>1, <2>2, <2>3, <3>1, <3>2
  <2>5. D * j <= D * k
    BY <2>4
  <2> QED BY <2>1, <2>2, <2>3, <2>5
<1>4. x % D = 0 => Aligned(x) <= x
  BY <1>3
<1>5. \A y \in Nat : x <= y /\ y <= Aligned(y) => Aligned(x) <= Aligned(y)
  <2> SUFFICES ASSUME NEW y \in Nat, x <= y, y <= Aligned(y) PROVE Aligned(x) <= Aligned(y)
    OBVIOUS
  <2>1. PICK b \in Nat : b = Aligned(y) /\ b % D = 0
    BY <1>1, AlignedBound
  <2> QED BY <1>3, <2>1
<1> QED
  BY <1>1, <1>2, <1>3, <1>4, <1>5

-----------------------------------------------------------------------------
\* The bootloader reserves nothing.
PlainBootloader ==
    \A i \in DOMAIN sections : sections[i].kind = "bootloader" => sections[i].Reserve = 0

BehindHeader(i) == InFront(i) /\ ~IsBootHeader(i)

\* Section i is visited right before section k, or first of all.
Adjacent(i, k) ==
    Before(i, k) /\ \A l \in DOMAIN sections \ {i, k} : ~(Before(i, l) /\ Before(l, k))

Leads(k) == \A i \in DOMAIN sections : ~Before(i, k)

LastVisited(i) == i \in visited /\ \A l \in visited : l = i \/ Before(l, i)

End(a, i) == a[i] + sections[i].Length

\* What is in front is aligned, ...
FrontAligned(a, placed) == \A i \in placed : InFront(i) => a[i] % DefaultAlignment = 0

\* ... and follows the boot header without a gap.
FrontTight(a, placed) ==
    \A k \in placed : BehindHeader(k) =>
        /\ Leads(k) => a[k] = 0
        /\ \A i \in DOMAIN sections : Adjacent(i, k) => a[k] = End(a, i)

\* A section leaves room for what the output rounds up, and the ends of those in front
\* are rounded up indeed.
Stepwise(a, placed) ==
    /\ PlainBootloader /\ ReservesCover =>
          \A i, k \in placed : Adjacent(i, k) => Aligned(End(a, i)) <= a[k]
    /\ FrontUncut => \A i \in placed : InFront(i) => End(a, i) <= Aligned(End(a, i))

\* The loops take the sections in their order.
InOrder ==
    /\ \A i \in visited, k \in DOMAIN sections \ visited : Before(i, k)
    /\ visited = {} => running = 0
    /\ visited # {} => \E i \in visited : LastVisited(i)

IsShort(i) == sections[i].kind \in {"BootHeader", "acBootloader"}

\* running is the end of the last section, if it is a boot header or a certificate in
\* front.
TightFront(a) ==
    \A i \in visited : LastVisited(i) /\ IsShort(i) => running = End(a, i)

\* The first pass keeps everything aligned, ...
StackingAligned ==
    /\ running % DefaultAlignment = 0 /\ reserved % DefaultAlignment = 0
    /\ \A i \in DOMAIN sections : Address[i] % DefaultAlignment = 0

\* ... and so does the second, up to a bootloader that has a reservation.  It leaves
\* the room that the output needs, and no gap in front if no address is cut.
RestackingPlaced ==
    /\ InOrder
    /\ FrontAligned(Address, visited)
    /\ \A i \in DOMAIN sections \ visited : Address[i] % DefaultAlignment = 0
    /\ PlainBootloader \/ (\A i \in visited : IsShort(i)) => running % DefaultAlignment = 0
    /\ Stepwise(Address, visited)
    /\ PlainBootloader /\ ReservesCover =>
          \A i \in visited : LastVisited(i) => Aligned(End(Address, i)) <= running
    /\ folded = {} => TightFront(Address) /\ FrontTight(Address, visited)

\* The output keeps below the addresses of what is next.
Forwards ==
    /\ InOrder
    /\ Stepwise(Address, DOMAIN sections \ visited)
    /\ PlainBootloader /\ ReservesCover /\ FrontUncut =>
          \A i \in DOMAIN sections : IsNext(i) => running <= Address[i]
    /\ folded = {} => \A i \in DOMAIN sections \ visited : Address[i] = linked[i]

Filling == smap.lastWidth # 0

PieceType == [section : Nat, at : Int, length : Int]

\* The file is so much shorter than the image.
ShiftedBy(base) ==
    /\ \A k \in Pieces : Shift(k) = base
    /\ \A i \in visited : LastVisited(i) =>
          EndOf(file) + base = IF Filling THEN running ELSE End(linked, i)

Shifted ==
    /\ Filling => TightFront(linked)
    /\ visited # {} /\ (Filling \/ Gapless) => \E base \in Int : ShiftedBy(base)

FileShifted ==
    /\ file \in Seq(PieceType)
    /\ visited = {} => file = <<>>
    /\ folded = {} => Shifted

\* The headers hold addresses of all sections, that leave no gap in front.
LinkedPlaced ==
    /\ DOMAIN linked = DOMAIN sections
    /\ folded = {} => FrontAligned(linked, DOMAIN sections) /\ FrontTight(linked, DOMAIN sections)

\* What the passes and the output rely on.
PlacedInv ==
    /\ stage = "stacking" => StackingAligned
    /\ stage = "restacking" => RestackingPlaced
    /\ stage \in {"linked", "writing"} => LinkedPlaced
    /\ stage = "linked" => /\ folded = {} => Address = linked
                           /\ Stepwise(Address, DOMAIN sections)
    /\ stage \in {"stacking", "restacking", "linked"} => file = <<>>
    /\ stage = "writing" => Forwards /\ FileShifted
    /\ FoundWhereLinked

-----------------------------------------------------------------------------
\* A step that leaves the sections alone leaves their order and kinds alone, and what
\* has been cut stays cut.
LEMMA SameSections ==
    ASSUME sections' = sections
    PROVE  /\ \A p, k : (Before(p, k)' <=> Before(p, k)) /\ (Adjacent(p, k)' <=> Adjacent(p, k))
           /\ \A k : /\ Leads(k)' <=> Leads(k)
                     /\ (InFront(k)' <=> InFront(k)) /\ (BehindHeader(k)' <=> BehindHeader(k))
                     /\ (IsBootHeader(k)' <=> IsBootHeader(k)) /\ (IsShort(k)' <=> IsShort(k))
           /\ (PlainBootloader' <=> PlainBootloader) /\ (ReservesCover' <=> ReservesCover)
           /\ folded \subseteq folded' /\ FrontUncut' => FrontUncut
<1>1. \A p, k : Before(p, k)' <=> Before(p, k)
  BY DEF Before, Loop
<1>2. \A k : /\ (InFront(k)' <=> InFront(k)) /\ (BehindHeader(k)' <=> BehindHeader(k))
             /\ (IsBootHeader(k)' <=> IsBootHeader(k)) /\ (IsShort(k)' <=> IsShort(k))
  BY DEF InFront, FrontKinds, BehindHeader, IsBootHeader, IsShort
<1>3. (\A k : Leads(k)' <=> Leads(k)) /\ (\A p, k : Adjacent(p, k)' <=> Adjacent(p, k))
  BY <1>1 DEF Leads, Adjacent
<1>4. (PlainBootloader' <=> PlainBootloader) /\ (ReservesCover' <=> ReservesCover)
  BY <1>2 DEF PlainBootloader, ReservesCover
<1>5. folded \subseteq folded' /\ FrontUncut' => FrontUncut
  BY <1>2 DEF FrontUncut
<1> QED
  BY <1>1, <1>2, <1>3, <1>4, <1>5

-----------------------------------------------------------------------------
\* The loops take the sections in a strict total order.
LEMMA BeforeOrders ==
    ASSUME IsSectionList(sections)
    PROVE  /\ \A i, k \in DOMAIN sections : Before(i, k) => ~Before(k, i)
           /\ \A i, k \in DOMAIN sections : i = k \/ Before(i, k) \/ Before(k, i)
           /\ \A i, k, l \in DOMAIN sections : Before(i, k) /\ Before(k, l) => Before(i, l)
<1>1. \A i \in DOMAIN sections : i \in Nat
  BY DEF IsSectionList
<1>2. \A i : Loop(i) \in 1 .. 4
  BY DEF Loop
<1> QED
  BY <1>1, <1>2 DEF Before

\* What the default alignment says of the attributes of a section.
LEMMA AlignedFields ==
    ASSUME IsSectionList(sections), NEW i \in DOMAIN sections
    PROVE  /\ sections[i].Offset % DefaultAlignment = 0
           /\ sections[i].Reserve % DefaultAlignment = 0
           /\ sections[i].Alignment % DefaultAlignment = 0
           /\ sections[i].kind \in {"BootHeader", "acBootloader"} =>
                 sections[i].Length % DefaultAlignment = 0
BY DEF IsSectionList

\* Before a section in front come only the boot header and the certificate of the
\* bootloader, and nothing before the boot header.
LEMMA BeforeFront ==
    ASSUME IsSectionList(sections), NEW i \in DOMAIN sections, NEW p \in DOMAIN sections,
           Before(p, i), InFront(i)
    PROVE  IsShort(p) /\ ~IsBootHeader(i)
<1>1. Loop(i) \in 1 .. 3
  BY DEF Loop, InFront, FrontKinds
<1>2. Loop(p) = Loop(i) => sections[p].kind = sections[i].kind
  BY DEF Loop, InFront, FrontKinds
<1>3. sections[p].kind = sections[i].kind => p = i
  BY DEF IsSectionList, InFront
<1>4. ~Before(i, i)
  BY BeforeOrders
<1>5. Loop(p) < Loop(i) /\ Loop(p) \in 1 .. 4
  BY <1>1, <1>2, <1>3, <1>4 DEF Before, Loop
<1>6. Loop(p) \in 1 .. 2 /\ Loop(i) # 1
  BY <1>1, <1>5
<1> QED
  BY <1>6 DEF Loop, IsBootHeader, IsShort

\* The next section of the loops follows those that are visited, right behind the
\* last of them.
LEMMA NextFollows ==
    ASSUME LayoutTypeOK, InOrder, NEW i, IsNext(i)
    PROVE  /\ \A l \in visited : Before(l, i)
           /\ \A k \in DOMAIN sections \ visited : k # i => Before(i, k)
           /\ \A p \in visited : LastVisited(p) => Adjacent(p, i)
           /\ \A p \in DOMAIN sections : Adjacent(p, i) => LastVisited(p)
           /\ Leads(i) => visited = {}
           /\ visited = {} => Leads(i)
<1>1. /\ i \in DOMAIN sections \ visited /\ visited \subseteq DOMAIN sections
      /\ \A k \in DOMAIN sections \ visited : k # i => Before(i, k)
      /\ \A l \in visited : Before(l, i)
  BY DEF IsNext, InOrder, LayoutTypeOK
<1>2. /\ \A j, k \in DOMAIN sections : Before(j, k) => ~Before(k, j)
      /\ \A j, k \in DOMAIN sections : j = k \/ Before(j, k) \/ Before(k, j)
  BY BeforeOrders DEF LayoutTypeOK
<1>3. \A l \in DOMAIN sections : Before(l, i) => l \in visited
  BY <1>1, <1>2
<1>4. \A p \in visited : LastVisited(p) => Adjacent(p, i)
  BY <1>1, <1>2, <1>3 DEF LastVisited, Adjacent
<1>5. \A p \in DOMAIN sections : Adjacent(p, i) => LastVisited(p)
  BY <1>1, <1>2, <1>3 DEF LastVisited, Adjacent
<1>6. (Leads(i) => visited = {}) /\ (visited = {} => Leads(i))
  BY <1>1, <1>3 DEF Leads
<1> QED
  BY <1>1, <1>4, <1>5, <1>6

\* When it has been visited, it is the last one.
LEMMA NextVisited ==
    ASSUME LayoutTypeOK, InOrder, NEW i, IsNext(i),
           visited' = visited \cup {i}, sections' = sections
    PROVE  /\ InOrder'
           /\ \A p \in visited' : LastVisited(p)' <=> p = i
<1>1. /\ i \in DOMAIN sections \ visited /\ visited \subseteq DOMAIN sections
      /\ \A l \in visited : Before(l, i)
      /\ \A k \in DOMAIN sections \ visited : k # i => Before(i, k)
      /\ \A l \in visited, k \in DOMAIN sections \ visited : Before(l, k)
  BY NextFollows DEF IsNext, InOrder, LayoutTypeOK
<1>2. \A j, k : Before(j, k)' <=> Before(j, k)
  BY DEF Before, Loop
<1>3. \A j, k \in DOMAIN sections : Before(j, k) => ~Before(k, j)
  BY BeforeOrders DEF LayoutTypeOK
<1>4. \A p \in visited' : LastVisited(p)' <=> p = i
  <2> SUFFICES ASSUME NEW p \in visited' PROVE LastVisited(p)' <=> p = i
    OBVIOUS
  <2>1. LastVisited(p)' <=> \A l \in visited' : l = p \/ Before(l, p)
    BY <1>2 DEF LastVisited
  <2>2. p \in DOMAIN sections /\ i \in visited'
    BY <1>1
  <2> QED
    BY <1>1, <1>3, <2>1, <2>2
<1>5. \A l \in visited', k \in DOMAIN sections \ visited' : Before(l, k)
  BY <1>1
<1> QED
  BY <1>2, <1>4, <1>5 DEF InOrder

\* What is next then is adjacent to it.
LEMMA NextAdjacent ==
    ASSUME LayoutTypeOK, InOrder, NEW i, IsNext(i),
           visited' = visited \cup {i}, sections' = sections,
           NEW k \in DOMAIN sections, IsNext(k)'
    PROVE  Adjacent(i, k) /\ k \in DOMAIN sections \ visited'
<1>1. /\ i \in DOMAIN sections \ visited /\ visited \subseteq DOMAIN sections
      /\ \A l \in visited : Before(l, i)
      /\ \A l \in DOMAIN sections \ visited : l # i => Before(i, l)
  BY NextFollows DEF IsNext, LayoutTypeOK
<1>2. \A p, l : Before(p, l)' <=> Before(p, l)
  BY SameSections
<1>3. /\ k \in DOMAIN sections \ visited'
      /\ \A l \in DOMAIN sections \ visited' : l = k \/ Before(k, l)
  BY <1>2 DEF IsNext
<1>4. \A p, l \in DOMAIN sections : Before(p, l) => ~Before(l, p)
  BY BeforeOrders DEF LayoutTypeOK
<1>5. ASSUME NEW l \in DOMAIN sections \ {i, k}, Before(i, l), Before(l, k)
      PROVE  FALSE
  <2>1. CASE l \in visited
    BY <1>1, <1>4, <1>5, <2>1
  <2>2. CASE l \notin visited
    BY <1>3, <1>4, <1>5, <2>2
  <2> QED BY <2>1, <2>2
<1> QED
  BY <1>1, <1>3, <1>5 DEF Adjacent

-----------------------------------------------------------------------------
\* The first pass keeps what it places aligned.
LEMMA StackSectionAligned ==
    ASSUME LayoutTypeOK, StackingAligned, StackSection
    PROVE  StackingAligned'
<1>1. PICK i \in DOMAIN sections :
        /\ Address' = [Address EXCEPT ![i] = AddressOf(i)]
        /\ running' = Aligned(AddressOf(i) + sections[i].Length)
        /\ reserved' = IF sections[i].Reserve = 0 THEN reserved
                       ELSE AddressOf(i) + sections[i].Reserve
        /\ sections' = sections
  BY DEF StackSection
<1>2. /\ sections[i].Length \in Nat /\ sections[i].Reserve \in Nat
      /\ sections[i].Alignment # 0 => sections[i].Alignment \in Alignments
      /\ sections[i].Reserve % DefaultAlignment = 0
  BY SectionFields, AlignedFields DEF LayoutTypeOK
<1>3. Start(i) \in Nat /\ Start(i) % DefaultAlignment = 0
  BY DEF LayoutTypeOK, StackingAligned, Start
<1>4. AddressOf(i) \in Nat /\ AddressOf(i) % DefaultAlignment = 0
  <2>1. CASE Address[i] # 0
    BY <2>1 DEF AddressOf, LayoutTypeOK, StackingAligned
  <2>2. CASE Address[i] = 0 /\ sections[i].Alignment # 0
    <3>1. AddressOf(i) = AlignTo(Start(i), sections[i].Alignment)
      BY <2>2 DEF AddressOf
    <3> QED
      BY <1>2, <1>3, <2>2, <3>1, AlignToBound
  <2>3. CASE Address[i] = 0 /\ sections[i].Alignment = 0
    BY <1>3, <2>3 DEF AddressOf
  <2> QED
    BY <2>1, <2>2, <2>3
<1>5. running' % DefaultAlignment = 0
  <2>1. AddressOf(i) + sections[i].Length \in Nat
    BY <1>2, <1>4
  <2> QED
    BY <1>1, <2>1, AlignedFacts
<1>6. reserved' % DefaultAlignment = 0
  BY <1>1, <1>2, <1>4, SumAligned, LayoutAssumption DEF StackingAligned
<1> QED
  BY <1>1, <1>4, <1>5, <1>6 DEF StackingAligned, LayoutTypeOK

\* Where the second pass puts the next section: behind the last that it has placed, and
\* right behind it if it is in front.
LEMMA RestackedPlace ==
    ASSUME LayoutTypeOK, Restacking, RestackingPlaced, NEW i, IsNext(i)
    PROVE  /\ InFront(i) \/ PlainBootloader => Restacked(i) % DefaultAlignment = 0
           /\ folded = {} /\ BehindHeader(i) =>
                 /\ Leads(i) => Restacked(i) = 0
                 /\ \A p \in DOMAIN sections : Adjacent(p, i) =>
                       p \in visited /\ Restacked(i) = End(Address, p)
           /\ PlainBootloader /\ ReservesCover =>
                 \A p \in visited : LastVisited(p) => Aligned(End(Address, p)) <= Restacked(i)
<1>1. i \in DOMAIN sections \ visited /\ visited \subseteq DOMAIN sections
  BY DEF IsNext, LayoutTypeOK
<1>2. IsSectionList(sections) /\ InOrder
  BY DEF LayoutTypeOK, RestackingPlaced
<1>3. BehindHeader(i) => Restacked(i) = running
  BY DEF Restacked, BehindHeader
<1>4. InFront(i) => \A p \in visited : IsShort(p)
  BY <1>1, <1>2, NextFollows, BeforeFront
<1>5. InFront(i) \/ PlainBootloader => Restacked(i) % DefaultAlignment = 0
  <2>1. Address[i] % DefaultAlignment = 0
    BY <1>1 DEF RestackingPlaced
  <2>2. InFront(i) \/ PlainBootloader => running % DefaultAlignment = 0
    BY <1>4 DEF RestackingPlaced
  <2> QED BY <2>1, <2>2 DEF Restacked, Greater
<1>6. BehindHeader(i) /\ Leads(i) => Restacked(i) = 0
  BY <1>2, <1>3, NextFollows DEF InOrder
<1>7. ASSUME folded = {}, NEW p \in DOMAIN sections, BehindHeader(i), Adjacent(p, i)
      PROVE  p \in visited /\ Restacked(i) = End(Address, p)
  <2>1. LastVisited(p) /\ p \in visited
    BY <1>2, <1>7, NextFollows DEF LastVisited
  <2>2. IsShort(p)
    BY <1>4, <1>7, <2>1 DEF BehindHeader
  <2> QED
    BY <1>3, <1>7, <2>1, <2>2 DEF RestackingPlaced, TightFront
<1>8. ASSUME PlainBootloader, ReservesCover, NEW p \in visited, LastVisited(p)
      PROVE  Aligned(End(Address, p)) <= Restacked(i)
  <2>1. ~IsBootHeader(i)
    BY <1>1, <1>8, BootHeaderFirst
  <2>2. Restacked(i) \in Nat /\ Restacked(i) >= running /\ running \in Nat
    BY <1>1, <2>1, RestackedBounds DEF LayoutTypeOK
  <2>3. Aligned(End(Address, p)) <= running
    BY <1>8 DEF RestackingPlaced
  <2>4. End(Address, p) \in Nat
    BY <1>1, <1>2, <1>8, SectionFields DEF LayoutTypeOK, End
  <2>5. Aligned(End(Address, p)) \in Nat
    BY <2>4, AlignedBound
  <2> QED
    BY <2>2, <2>3, <2>5
<1> QED
  BY <1>5, <1>6, <1>7, <1>8

\* And where it goes on.
LEMMA RunningAfterAligned ==
    ASSUME LayoutTypeOK, Restacking, RestackingPlaced, NEW i, IsNext(i)
    PROVE  LET end == Restacked(i) + sections[i].Length
           IN  /\ IsShort(i) => /\ RunningAfter(i, end) % DefaultAlignment = 0
                                /\ end <= Aligned(end) => RunningAfter(i, end) = end
               /\ PlainBootloader => RunningAfter(i, end) % DefaultAlignment = 0
               /\ PlainBootloader /\ ReservesCover => Aligned(end) <= RunningAfter(i, end)
<1> DEFINE end == Restacked(i) + sections[i].Length
<1>1. i \in DOMAIN sections \ visited /\ IsSectionList(sections)
  BY DEF IsNext, LayoutTypeOK
<1>2. /\ Restacked(i) \in Nat /\ sections[i].Length \in Nat /\ sections[i].Reserve \in Nat
      /\ sections[i].Reserve % DefaultAlignment = 0
      /\ InFront(i) \/ PlainBootloader => Restacked(i) % DefaultAlignment = 0
      /\ IsShort(i) => sections[i].Length % DefaultAlignment = 0
  BY <1>1, RestackedBounds, SectionFields, AlignedFields, RestackedPlace DEF IsShort
<1>3. /\ end \in Nat /\ Aligned(end) \in Nat /\ Aligned(end) % DefaultAlignment = 0
      /\ end % DefaultAlignment = 0 => Aligned(end) <= end
      /\ end % DefaultAlignment = 0 /\ end <= Aligned(end) => Aligned(end) = end
  BY <1>2, AlignedFacts
<1>4. IsShort(i) => end % DefaultAlignment = 0
  BY <1>2, SumAligned, LayoutAssumption DEF InFront, FrontKinds, IsShort
<1>5. CASE ~InFront(i) /\ sections[i].Reserve # 0
  <2>1. RunningAfter(i, end) = Restacked(i) + sections[i].Reserve
    BY <1>5 DEF RunningAfter, InFront, FrontKinds
  <2>2. PlainBootloader => RunningAfter(i, end) % DefaultAlignment = 0
    BY <1>2, <2>1, SumAligned, LayoutAssumption
  <2>3. ReservesCover => end <= RunningAfter(i, end)
    BY <1>1, <1>2, <1>5, <2>1 DEF ReservesCover
  <2>4. RunningAfter(i, end) \in Nat
    BY <1>2, <2>1
  <2>5. ~IsShort(i)
    BY <1>5 DEF InFront, FrontKinds, IsShort
  <2> QED
    BY <1>3, <2>2, <2>3, <2>4, <2>5, AlignedFacts
<1>6. CASE InFront(i) \/ sections[i].Reserve = 0
  <2>1. CASE IsShort(i)
    <3>1. RunningAfter(i, end) \in {end, Aligned(end)}
      BY <2>1 DEF RunningAfter, InFront, FrontKinds, IsShort
    <3> QED
      BY <1>3, <1>4, <2>1, <3>1
  <2>2. CASE sections[i].kind = "bootloader" /\ PlainBootloader
    <3>1. RunningAfter(i, end) = Aligned(end)
      BY <1>1, <2>2 DEF RunningAfter, InFront, FrontKinds, PlainBootloader
    <3> QED
      BY <1>3, <2>2, <3>1 DEF IsShort
  <2>3. CASE sections[i].kind = "bootloader" /\ ~PlainBootloader
    BY <2>3 DEF IsShort
  <2>4. CASE ~InFront(i)
    <3>1. RunningAfter(i, end) = Aligned(end)
      BY <1>6, <2>4 DEF RunningAfter, InFront, FrontKinds
    <3>2. ~IsShort(i)
      BY <2>4 DEF InFront, FrontKinds, IsShort
    <3> QED
      BY <1>3, <3>1, <3>2
  <2> QED
    BY <2>1, <2>2, <2>3, <2>4 DEF InFront, FrontKinds, IsShort
<1> QED
  BY <1>5, <1>6

\* The second pass keeps what it places where the output needs it.
LEMMA RestackSectionPlaces ==
    ASSUME LayoutTypeOK, Restacking, RestackingPlaced, RestackSection
    PROVE  RestackingPlaced'
<1>1. PICK i \in DOMAIN sections :
        /\ stage = "restacking" /\ IsNext(i)
        /\ Address' = [Address EXCEPT ![i] = Restacked(i)]
        /\ running' = RunningAfter(i, Restacked(i) + sections[i].Length)
        /\ visited' = visited \cup {i}
        /\ folded' = Noted(i, Restacked(i) + sections[i].Length,
                           Aligned(Restacked(i) + sections[i].Length))
        /\ sections' = sections
  BY DEF RestackSection
<1>2. IsSectionList(sections) /\ InOrder
  BY DEF LayoutTypeOK, RestackingPlaced
<1>3. /\ i \notin visited /\ visited \subseteq DOMAIN sections
      /\ Address'[i] = Restacked(i)
      /\ \A k \in DOMAIN sections : k # i => Address'[k] = Address[k]
  BY <1>1 DEF IsNext, LayoutTypeOK
<1>4. /\ InOrder'
      /\ \A p \in visited' : LastVisited(p)' <=> p = i
  BY <1>1, <1>2, NextVisited
<1>5. PICK end \in Nat : end = Restacked(i) + sections[i].Length
  BY <1>1, <1>2, RestackedBounds, SectionFields
<1>6. /\ folded \subseteq folded'
      /\ i \notin folded' => end <= Aligned(end)
      /\ folded' = {} => folded = {} /\ end <= Aligned(end)
  <2>1. Aligned(end) \in Nat
    BY AlignedBound
  <2> QED BY <1>1, <1>5, <2>1 DEF Noted
<1>7. /\ \A p \in visited : Before(p, i) /\ ~Before(i, p)
      /\ ~Before(i, i)
      /\ \A p \in visited : Adjacent(p, i) => LastVisited(p)
  BY <1>1, <1>2, <1>3, NextFollows, BeforeOrders
<1>8. \A k \in visited' : End(Address, k)' = IF k = i THEN end ELSE End(Address, k)
  BY <1>1, <1>3, <1>5 DEF End
<1>9. FrontAligned(Address, visited)'
  BY <1>1, <1>3, RestackedPlace, SameSections DEF FrontAligned, RestackingPlaced
<1>10. \A k \in DOMAIN sections \ visited' : Address'[k] % DefaultAlignment = 0
  BY <1>1, <1>3 DEF RestackingPlaced
<1>11. PlainBootloader \/ (\A k \in visited' : IsShort(k)) => running' % DefaultAlignment = 0
  BY <1>1, RunningAfterAligned
<1>12. \A x : Aligned(x)' = Aligned(x)
  BY DEF Aligned, AlignTo
<1>13. Stepwise(Address, visited)'
  <2>1. ASSUME PlainBootloader, ReservesCover,
               NEW p \in visited', NEW k \in visited', Adjacent(p, k)
        PROVE  Aligned(End(Address, p)') <= Address'[k]
    <3>1. CASE p = i
      BY <1>1, <1>7, <2>1, <3>1 DEF Adjacent
    <3>2. CASE p \in visited /\ k = i
      <4>1. Aligned(End(Address, p)) <= Restacked(i)
        BY <1>1, <1>7, <2>1, <3>2, RestackedPlace
      <4> QED
        BY <1>3, <1>8, <3>2, <4>1
    <3>3. CASE p \in visited /\ k \in visited
      BY <1>3, <1>8, <2>1, <3>3 DEF Stepwise, RestackingPlaced
    <3> QED
      BY <1>1, <3>1, <3>2, <3>3
  <2>2. ASSUME FrontUncut', NEW k \in visited', InFront(k)
        PROVE  End(Address, k)' <= Aligned(End(Address, k)')
    <3>1. FrontUncut
      BY <1>1, <1>6, <2>2, SameSections
    <3>2. CASE k = i
      <4>1. i \notin folded'
        BY <1>1, <2>2, <3>2, SameSections DEF FrontUncut
      <4> QED BY <1>6, <1>8, <3>2, <4>1
    <3>3. CASE k \in visited
      BY <1>3, <1>8, <2>2, <3>1, <3>3 DEF Stepwise, RestackingPlaced
    <3> QED BY <1>1, <3>2, <3>3
  <2> QED
    BY <1>1, <2>1, <2>2, SameSections, <1>12 DEF Stepwise
<1>14. PlainBootloader /\ ReservesCover => Aligned(end) <= running'
  BY <1>1, <1>5, RunningAfterAligned
<1>15. ASSUME folded' = {}
       PROVE  TightFront(Address)' /\ FrontTight(Address, visited)'
  <2>1. folded = {} /\ end <= Aligned(end)
    BY <1>6, <1>15
  <2>2. TightFront(Address)'
    <3>1. IsShort(i) => running' = end
      BY <1>1, <1>5, <2>1, RunningAfterAligned
    <3> QED
      BY <1>1, <1>4, <1>8, <3>1, SameSections DEF TightFront
  <2>3. ASSUME NEW k \in visited', BehindHeader(k)
        PROVE  /\ Leads(k) => Address'[k] = 0
               /\ \A p \in DOMAIN sections : Adjacent(p, k) =>
                     Address'[k] = End(Address, p)'
    <3>1. CASE k = i
      <4>1. /\ Leads(i) => Restacked(i) = 0
            /\ \A p \in DOMAIN sections : Adjacent(p, i) =>
                  p \in visited /\ Restacked(i) = End(Address, p)
        BY <1>1, <2>1, <2>3, <3>1, RestackedPlace
      <4>2. \A p \in visited : End(Address, p)' = End(Address, p)
        BY <1>1, <1>3, <1>8
      <4> QED
        BY <1>3, <3>1, <4>1, <4>2
    <3>2. CASE k \in visited
      <4>1. \A p \in DOMAIN sections : Adjacent(p, k) => p # i
        BY <1>7, <3>2 DEF Adjacent
      <4>2. \A p \in DOMAIN sections : p # i => End(Address, p)' = End(Address, p)
        BY <1>1, <1>3 DEF End
      <4>3. FrontTight(Address, visited)
        BY <2>1 DEF RestackingPlaced
      <4> QED
        BY <1>3, <2>3, <3>2, <4>1, <4>2, <4>3 DEF FrontTight
    <3> QED
      BY <1>1, <3>1, <3>2
  <2>4. FrontTight(Address, visited)'
    BY <1>1, <2>3, SameSections DEF FrontTight
  <2> QED BY <2>2, <2>4
<1>16. PlainBootloader' /\ ReservesCover' =>
          \A p \in visited' : LastVisited(p)' => Aligned(End(Address, p))' <= running'
  BY <1>1, <1>4, <1>8, <1>12, <1>14, SameSections
<1>17. PlainBootloader' \/ (\A k \in visited' : IsShort(k)') => running' % DefaultAlignment = 0
  BY <1>1, <1>11, SameSections
<1> QED
  BY <1>1, <1>4, <1>9, <1>10, <1>13, <1>15, <1>16, <1>17 DEF RestackingPlaced

-----------------------------------------------------------------------------
\* The file ends somewhere.
LEMMA EndOfType ==
    ASSUME NEW pieces \in Seq(PieceType)
    PROVE  EndOf(pieces) \in Int
<1>1. CASE pieces = <<>>
  BY <1>1 DEF EndOf
<1>2. CASE pieces # <<>>
  <2>1. Last(pieces) \in PieceType
    BY <1>2 DEF Last
  <2> QED
    BY <1>2, <2>1 DEF EndOf, PieceType
<1> QED
  BY <1>1, <1>2

\* What is appended to the pieces of the file ends it.
LEMMA AppendedFacts ==
    ASSUME NEW pieces \in Seq(PieceType), NEW i \in Nat, NEW length \in Int
    PROVE  LET f == Appended(pieces, i, length)
           IN  /\ f \in Seq(PieceType)
               /\ EndOf(f) = EndOf(pieces) + length
               /\ DOMAIN f = DOMAIN pieces \cup {Len(pieces) + 1}
               /\ \A k \in DOMAIN pieces : f[k] = pieces[k]
               /\ f[Len(pieces) + 1] =
                     [section |-> i, at |-> EndOf(pieces), length |-> length]
<1> DEFINE new == [section |-> i, at |-> EndOf(pieces), length |-> length]
<1>1. EndOf(pieces) \in Int
  BY EndOfType
<1>2. new \in PieceType
  BY <1>1 DEF PieceType
<1> HIDE DEF new
<1> DEFINE f == Append(pieces, new)
<1>3. /\ f \in Seq(PieceType) /\ Len(f) = Len(pieces) + 1 /\ f # <<>>
      /\ DOMAIN f = DOMAIN pieces \cup {Len(pieces) + 1}
      /\ \A k \in DOMAIN pieces : f[k] = pieces[k]
      /\ f[Len(pieces) + 1] = new
  <2>1. f \in Seq(PieceType) /\ Len(f) = Len(pieces) + 1 /\ f # <<>>
    <3>1. f \in Seq(PieceType) /\ Len(f) = Len(pieces) + 1 /\ Len(pieces) \in Nat
      BY <1>2
    <3> QED
      BY <3>1
  <2>2. DOMAIN pieces = 1 .. Len(pieces) /\ DOMAIN f = 1 .. Len(f) /\ Len(pieces) \in Nat
    BY <2>1
  <2>3. DOMAIN f = DOMAIN pieces \cup {Len(pieces) + 1}
    BY <2>1, <2>2
  <2>4. /\ \A k \in DOMAIN pieces : f[k] = pieces[k]
        /\ f[Len(pieces) + 1] = new
    BY <1>2, <2>2
  <2> QED
    BY <2>1, <2>3, <2>4
<1>4. EndOf(f) = new.at + new.length
  BY <1>3 DEF EndOf, Last
<1>5. f = Appended(pieces, i, length)
  BY DEF Appended, new
<1> QED
  BY <1>3, <1>4, <1>5 DEF new

\* The bytes that fill a gap.
FillOf(gap) == IF Filling THEN gap ELSE 0

LEMMA FillOfType ==
    ASSUME NEW gap \in Nat
    PROVE  FillOf(gap) \in Nat /\ FillOf(gap) \in {0, gap}
BY DEF FillOf

\* Filling a gap, or not, adds no piece of a section.
LEMMA FilledFacts ==
    ASSUME NEW pieces \in Seq(PieceType), NEW gap \in Nat
    PROVE  LET f == Filled(pieces, gap)
           IN  /\ f \in Seq(PieceType)
               /\ EndOf(f) = EndOf(pieces) + FillOf(gap)
               /\ DOMAIN pieces \subseteq DOMAIN f
               /\ \A k \in DOMAIN pieces : f[k] = pieces[k]
               /\ \A k \in DOMAIN f \ DOMAIN pieces : f[k].section = 0
<1>1. EndOf(pieces) \in Int
  BY EndOfType
<1>2. CASE gap > 0 /\ Filling
  <2> DEFINE f == Appended(pieces, 0, gap)
  <2>1. Filled(pieces, gap) = f
    BY <1>2 DEF Filled, Filling
  <2>2. /\ f \in Seq(PieceType)
        /\ EndOf(f) = EndOf(pieces) + gap
        /\ DOMAIN f = DOMAIN pieces \cup {Len(pieces) + 1}
        /\ \A k \in DOMAIN pieces : f[k] = pieces[k]
        /\ f[Len(pieces) + 1] = [section |-> 0, at |-> EndOf(pieces), length |-> gap]
    <3>1. 0 \in Nat /\ gap \in Int
      OBVIOUS
    <3> HIDE DEF f
    <3>2. \A n \in Nat, length \in Int :
            LET g == Appended(pieces, n, length)
            IN  /\ g \in Seq(PieceType)
                /\ EndOf(g) = EndOf(pieces) + length
                /\ DOMAIN g = DOMAIN pieces \cup {Len(pieces) + 1}
                /\ \A k \in DOMAIN pieces : g[k] = pieces[k]
                /\ g[Len(pieces) + 1] = [section |-> n, at |-> EndOf(pieces), length |-> length]
      BY AppendedFacts
    <3> QED
      BY <3>1, <3>2 DEF f
  <2> HIDE DEF f
  <2>3. \A k \in DOMAIN f \ DOMAIN pieces : f[k].section = 0
    BY <2>2
  <2> QED
    BY <1>2, <2>1, <2>2, <2>3 DEF FillOf
<1>3. CASE ~(gap > 0 /\ Filling)
  <2>1. Filled(pieces, gap) = pieces /\ (Filling => gap = 0)
    BY <1>3 DEF Filled, Filling
  <2> QED
    BY <1>1, <2>1 DEF FillOf
<1> QED
  BY <1>2, <1>3

\* Nor is one added if the next address is lower than the end.
LEMMA GapFilledType ==
    ASSUME NEW pieces \in Seq(PieceType), NEW gap \in Int
    PROVE  Filled(pieces, gap) \in Seq(PieceType)
<1>1. CASE gap \in Nat
  BY <1>1, FilledFacts
<1>2. CASE ~(gap > 0)
  BY <1>2 DEF Filled
<1> QED
  BY <1>1, <1>2

\* The pieces of the file end base bytes before the given place of the image.
EndsAt(pieces, base, place) == EndOf(pieces) + base = place

\* Where section i ends with what fills the gap behind it, and where it begins with
\* what is left out.
EndFilled(i, size, behind) == linked[i] + Skipped(i) + size + FillOf(behind)

BeginUnfilled(i, before) == linked[i] + Skipped(i) - FillOf(before)

\* A section that is written where its address says, as much off as those before it,
\* leaves the file as much off.
LEMMA FileGrows ==
    ASSUME file \in Seq(PieceType), NEW i \in Nat, i # 0, NEW size \in Nat,
           NEW before \in Nat, NEW behind \in Nat, NEW base \in Int,
           linked[i] \in Nat, Skipped(i) \in Nat,
           \A k \in Pieces : Shift(k) = base,
           EndsAt(file, base, BeginUnfilled(i, before)),
           file' = Filled(Appended(Filled(file, before), i, size), behind),
           UNCHANGED <<smap, sections, linked>>
    PROVE  /\ file' \in Seq(PieceType)
           /\ \A k \in Pieces' : Shift(k)' = base
           /\ EndsAt(file', base, EndFilled(i, size, behind))
<1> DEFINE f1 == Filled(file, before)
           f2 == Appended(f1, i, size)
<1>1. /\ f1 \in Seq(PieceType) /\ EndOf(file) \in Int
      /\ EndOf(f1) = EndOf(file) + FillOf(before)
      /\ DOMAIN file \subseteq DOMAIN f1
      /\ \A k \in DOMAIN file : f1[k] = file[k]
      /\ \A k \in DOMAIN f1 \ DOMAIN file : f1[k].section = 0
  BY FilledFacts, EndOfType
<1> HIDE DEF f1
<1>2. /\ f2 \in Seq(PieceType)
      /\ EndOf(f2) = EndOf(f1) + size
      /\ DOMAIN f2 = DOMAIN f1 \cup {Len(f1) + 1}
      /\ \A k \in DOMAIN f1 : f2[k] = f1[k]
      /\ f2[Len(f1) + 1] = [section |-> i, at |-> EndOf(f1), length |-> size]
  <2>1. size \in Int
    OBVIOUS
  <2> QED
    BY <1>1, <2>1, AppendedFacts, ZenonT(30)
<1> DEFINE f3 == Filled(f2, behind)
<1>3. file' = f3
  BY DEF f1
<1> HIDE DEF f2
<1>4. /\ f3 \in Seq(PieceType)
      /\ EndOf(f3) = EndOf(f2) + FillOf(behind)
      /\ \A k \in DOMAIN f2 : f3[k] = f2[k]
      /\ \A k \in DOMAIN f3 \ DOMAIN f2 : f3[k].section = 0
  BY <1>2, FilledFacts
<1> HIDE DEF f3
<1>5. \A k : Skipped(k)' = Skipped(k)
  BY DEF Skipped, IsBootHeader
<1>6. EndOf(f1) \in Int /\ EndOf(f1) + base = linked[i] + Skipped(i)
  <2>0. FillOf(before) \in Nat /\ EndOf(file) \in Int
    BY FillOfType, EndOfType
  <2>1. PICK w \in Nat, l \in Nat, m \in Nat, e \in Int :
          w = FillOf(before) /\ l = linked[i] /\ m = Skipped(i) /\ e = EndOf(file)
    BY <2>0
  <2>2. e + base = l + m - w
    BY <2>1 DEF EndsAt, BeginUnfilled
  <2>3. EndOf(f1) = e + w
    BY <1>1, <2>1
  <2>4. e + w + base = l + m
    BY <2>2
  <2> QED
    BY <2>1, <2>3, <2>4
<1>7. ASSUME NEW k \in Pieces'
      PROVE  Shift(k)' = base
  <2>1. k \in DOMAIN f2 /\ file'[k] = f2[k] /\ f2[k].section # 0
    BY <1>3, <1>4, <1>7 DEF Pieces
  <2>2. Shift(k)' = linked[f2[k].section] + Skipped(f2[k].section) - f2[k].at
    BY <1>5, <2>1 DEF Shift
  <2>3. CASE k = Len(f1) + 1
    <3>1. Shift(k)' = linked[i] + Skipped(i) - EndOf(f1)
      BY <1>2, <2>2, <2>3
    <3>2. PICK e \in Int, l \in Int, m \in Int :
            e = EndOf(f1) /\ l = linked[i] /\ m = Skipped(i)
      BY <1>6
    <3>3. e + base = l + m
      BY <1>6, <3>2
    <3>4. Shift(k)' = l + m - e
      BY <3>1, <3>2
    <3> QED
      BY <3>3, <3>4
  <2>4. CASE k \in DOMAIN f1
    <3>1. k \in DOMAIN file /\ f2[k] = file[k]
      BY <1>1, <1>2, <2>1, <2>4
    <3>2. k \in Pieces
      BY <2>1, <3>1 DEF Pieces
    <3>3. Shift(k)' = Shift(k)
      BY <2>2, <3>1 DEF Shift
    <3> QED
      BY <3>2, <3>3
  <2> QED
    BY <1>2, <2>1, <2>3, <2>4
<1>8. EndsAt(file', base, EndFilled(i, size, behind))
  <2>0. FillOf(behind) \in Nat /\ EndOf(f1) \in Int
    BY <1>6, FillOfType
  <2>1. PICK v \in Nat, l \in Nat, m \in Nat, e \in Int :
          v = FillOf(behind) /\ l = linked[i] /\ m = Skipped(i) /\ e = EndOf(f1)
    BY <2>0
  <2>2. e + base = l + m
    BY <1>6, <2>1
  <2>3. EndOf(file') = e + size + v
    BY <1>2, <1>3, <1>4, <2>1
  <2>4. EndOf(file') + base = l + m + size + v
    BY <2>2, <2>3
  <2> QED
    BY <2>1, <2>4 DEF EndsAt, EndFilled
<1> QED
  BY <1>3, <1>4, <1>7, <1>8

\* What the headers and the length say of a section.
LEMMA LinkedFacts ==
    ASSUME LayoutTypeOK, LinkedPlaced, NEW i \in DOMAIN sections
    PROVE  /\ linked[i] \in Nat /\ sections[i].Length \in Nat
           /\ Skipped(i) \in Nat /\ Skipped(i) <= sections[i].Length
           /\ ~IsBootHeader(i) => Skipped(i) = 0
           /\ Filling => Skipped(i) = 0
<1>1. linked[i] \in Nat
  BY DEF LayoutTypeOK, LinkedPlaced
<1>2. sections[i].Length \in Nat
  BY SectionFields DEF LayoutTypeOK
<1>3. Skipped(i) \in {0, SmapLength} /\ (~IsBootHeader(i) => Skipped(i) = 0)
  BY DEF Skipped
<1>4. IsBootHeader(i) => /\ sections[i].Length >= SmapLength
                         /\ smap.slaveBoot \/ smap.width = smap.lastWidth
  BY DEF LayoutTypeOK, IsSectionList, IsBootHeader
<1>5. Filling => Skipped(i) = 0
  BY <1>4 DEF Skipped, Filling
<1> QED
  BY <1>1, <1>2, <1>3, <1>4, <1>5, LayoutAssumption

\* Nothing is visited before the boot header.
LEMMA BootHeaderLeads ==
    ASSUME LayoutTypeOK, InOrder, NEW i, IsNext(i), visited # {}
    PROVE  ~IsBootHeader(i)
<1>1. PICK p \in visited : TRUE
  OBVIOUS
<1>2. Before(p, i) /\ p \in DOMAIN sections /\ i \in DOMAIN sections
  BY <1>1, NextFollows DEF LayoutTypeOK, IsNext
<1>3. IsSectionList(sections)
  BY DEF LayoutTypeOK
<1>4. IsBootHeader(i) => InFront(i)
  BY DEF IsBootHeader, InFront, FrontKinds
<1> QED
  BY <1>2, <1>3, <1>4, BeforeFront

\* A section that is written no further than its address and length say leaves the
\* output below the address of the next.
LEMMA WriteForwards ==
    ASSUME LayoutTypeOK, Forwards, NEW i, IsNext(i),
           NEW addr \in Nat, NEW size \in Nat,
           addr = IF BehindHeader(i) THEN running ELSE Address[i],
           size <= sections[i].Length, InFront(i) \/ size = sections[i].Length,
           running' = Aligned(addr + size),
           visited' = visited \cup {i}, sections' = sections, linked' = linked,
           folded \subseteq folded',
           \A k \in DOMAIN sections : k # i => Address'[k] = Address[k]
    PROVE  Forwards'
<1>1. /\ i \in DOMAIN sections \ visited /\ visited \subseteq DOMAIN sections
      /\ InOrder /\ IsSectionList(sections)
  BY DEF IsNext, LayoutTypeOK, Forwards
<1>2. InOrder'
  BY <1>1, NextVisited
<1>3. \A k \in DOMAIN sections \ visited' : Address'[k] = Address[k] /\ k \notin visited
  BY <1>1
<1>4. \A k \in DOMAIN sections \ visited' : End(Address, k)' = End(Address, k)
  BY <1>3 DEF End
<1>5. FrontUncut' => FrontUncut
  BY SameSections
<1>6. Stepwise(Address, DOMAIN sections \ visited)'
  <2>1. Stepwise(Address, DOMAIN sections \ visited)
    BY DEF Forwards
  <2> QED
    BY <1>3, <1>4, <1>5, <2>1, SameSections DEF Stepwise
<1>7. ASSUME PlainBootloader, ReservesCover, FrontUncut,
             NEW k \in DOMAIN sections, IsNext(k)'
      PROVE  running' <= Address'[k]
  <2>1. Adjacent(i, k) /\ k \in DOMAIN sections \ visited'
    BY <1>1, <1>7, NextAdjacent
  <2>2. PICK e \in Nat, a \in Nat : e = End(Address, i) /\ a = Address[k]
    BY <1>1, <2>1, SectionFields DEF LayoutTypeOK, End
  <2>3. Aligned(e) <= a /\ (InFront(i) => e <= Aligned(e))
    BY <1>1, <1>3, <1>7, <2>1, <2>2 DEF Forwards, Stepwise
  <2>4. addr <= Address[i] /\ Address[i] \in Nat /\ sections[i].Length \in Nat
    <3>1. Address[i] \in Nat /\ sections[i].Length \in Nat
      BY <1>1, SectionFields DEF LayoutTypeOK
    <3>2. CASE BehindHeader(i)
      BY <1>1, <1>7, <3>1, <3>2 DEF Forwards
    <3>3. CASE ~BehindHeader(i)
      BY <3>1, <3>3
    <3> QED BY <3>1, <3>2, <3>3
  <2>5. PICK x \in Nat : x = addr + size /\ x <= e
    BY <2>2, <2>4 DEF End
  <2>6. CASE InFront(i)
    <3>1. Aligned(x) <= Aligned(e)
      BY <2>3, <2>5, <2>6, AlignedFacts
    <3>2. Aligned(x) \in Nat /\ Aligned(e) \in Nat
      BY AlignedBound
    <3> QED BY <1>3, <2>1, <2>2, <2>3, <2>5, <3>1, <3>2
  <2>7. CASE ~InFront(i)
    <3>1. x = e
      BY <2>2, <2>4, <2>5, <2>7 DEF End, BehindHeader
    <3> QED BY <1>3, <2>1, <2>2, <2>3, <2>5, <3>1
  <2> QED BY <2>6, <2>7
<1>8. folded' = {} => \A k \in DOMAIN sections \ visited' : Address'[k] = linked[k]
  BY <1>3 DEF Forwards
<1> QED
  BY <1>2, <1>5, <1>6, <1>7, <1>8, SameSections DEF Forwards

\* If gaps are filled, a section is written at its address.
LEMMA WrittenWhereLinked ==
    ASSUME LayoutTypeOK, LinkedPlaced, Forwards, NEW i, IsNext(i), folded = {},
           Filling => TightFront(linked), Filling
    PROVE  linked[i] = IF BehindHeader(i) THEN running ELSE Address[i]
<1>1. /\ i \in DOMAIN sections \ visited /\ visited \subseteq DOMAIN sections
      /\ InOrder /\ IsSectionList(sections)
  BY DEF IsNext, LayoutTypeOK, Forwards
<1>2. CASE ~BehindHeader(i)
  BY <1>1, <1>2 DEF Forwards
<1>3. CASE BehindHeader(i) /\ visited = {}
  <2>1. running = 0 /\ Leads(i)
    BY <1>1, <1>3, NextFollows DEF InOrder
  <2> QED
    BY <1>1, <1>3, <2>1 DEF LinkedPlaced, FrontTight
<1>4. CASE BehindHeader(i) /\ visited # {}
  <2>1. PICK p \in visited : LastVisited(p)
    BY <1>1, <1>4 DEF InOrder
  <2>2. Adjacent(p, i) /\ Before(p, i) /\ p \in DOMAIN sections
    BY <1>1, <2>1, NextFollows
  <2>3. IsShort(p)
    BY <1>1, <1>4, <2>2, BeforeFront DEF BehindHeader
  <2>4. running = End(linked, p)
    BY <2>1, <2>3 DEF TightFront
  <2>5. linked[i] = End(linked, p)
    BY <1>1, <1>4, <2>2 DEF LinkedPlaced, FrontTight
  <2> QED
    BY <1>4, <2>4, <2>5
<1> QED
  BY <1>2, <1>3, <1>4

\* Where the next section belongs in the file, if gaps are filled or there are none.
LEMMA NextBase ==
    ASSUME LayoutTypeOK, LinkedPlaced, Forwards, FileShifted, NEW i, IsNext(i), folded = {},
           Filling \/ Gapless,
           NEW before \in Nat,
           before = IF InFront(i) THEN 0 ELSE Address[i] - running
    PROVE  \E base \in Int :
              /\ \A k \in Pieces : Shift(k) = base
              /\ EndsAt(file, base, BeginUnfilled(i, before))
<1>1. /\ i \in DOMAIN sections \ visited /\ visited \subseteq DOMAIN sections
      /\ InOrder /\ IsSectionList(sections) /\ Shifted
  BY DEF IsNext, LayoutTypeOK, Forwards, FileShifted
<1>2. /\ linked[i] \in Nat /\ Skipped(i) \in Nat /\ running \in Nat
      /\ ~IsBootHeader(i) => Skipped(i) = 0
      /\ Address[i] = linked[i]
  BY <1>1, LinkedFacts DEF Forwards, LayoutTypeOK
<1>3. EndOf(file) \in Int
  BY EndOfType DEF FileShifted
<1>4. CASE visited = {}
  <2>1. file = <<>>
    BY <1>4 DEF FileShifted
  <2>2. EndOf(file) = 0 /\ Pieces = {}
    BY <2>1 DEF EndOf, Pieces
  <2>3. PICK w \in Nat : w = FillOf(before)
    BY FillOfType
  <2>4. PICK base \in Int : base = linked[i] + Skipped(i) - w
    BY <1>2
  <2>5. EndsAt(file, base, BeginUnfilled(i, before))
    BY <2>2, <2>3, <2>4 DEF EndsAt, BeginUnfilled
  <2> QED
    BY <2>2, <2>5
<1>5. CASE visited # {}
  <2>1. PICK base \in Int : ShiftedBy(base)
    BY <1>1, <1>5 DEF Shifted
  <2>2. PICK p \in visited : LastVisited(p)
    BY <1>1, <1>5 DEF InOrder
  <2>3. Skipped(i) = 0
    BY <1>1, <1>2, <1>5, BootHeaderLeads
  <2>4. EndOf(file) + base = IF Filling THEN running ELSE End(linked, p)
    BY <2>1, <2>2 DEF ShiftedBy
  <2>5. CASE Filling
    <3>1. linked[i] = IF BehindHeader(i) THEN running ELSE Address[i]
      BY <1>1, <2>5, WrittenWhereLinked DEF Shifted
    <3>2. InFront(i) => BehindHeader(i)
      BY <1>1, <1>5, BootHeaderLeads DEF BehindHeader
    <3>3. before + running = linked[i]
      BY <1>2, <3>1, <3>2
    <3>4. EndOf(file) + base = running
      BY <2>4, <2>5
    <3>5. EndOf(file) + base = linked[i] + Skipped(i) - before
      BY <1>2, <1>3, <2>3, <3>3, <3>4
    <3>6. FillOf(before) = before
      BY <2>5 DEF FillOf
    <3> QED
      BY <2>1, <3>5, <3>6 DEF ShiftedBy, EndsAt, BeginUnfilled
  <2>6. CASE ~Filling
    <3>1. Adjacent(p, i) /\ p \in DOMAIN sections /\ Before(p, i) /\ p # i
      BY <1>1, <2>2, NextFollows
    <3>2. Before(p, i) /\ \A l \in DOMAIN linked \ {p, i} : ~(Before(p, l) /\ Before(l, i))
      BY <3>1 DEF Adjacent, LinkedPlaced
    <3>3. linked[i] = End(linked, p)
      BY <1>1, <2>6, <3>1, <3>2 DEF Gapless, LinkedPlaced, End
    <3>4. EndOf(file) + base = linked[i] + Skipped(i)
      BY <1>2, <2>3, <2>4, <2>6, <3>3
    <3>5. EndOf(file) + base = linked[i] + Skipped(i) - 0
      BY <1>2, <1>3, <3>4
    <3>6. FillOf(before) = 0
      BY <2>6 DEF FillOf
    <3> QED
      BY <2>1, <3>5, <3>6 DEF ShiftedBy, EndsAt, BeginUnfilled
  <2> QED
    BY <2>5, <2>6
<1> QED
  BY <1>4, <1>5

\* What is written stays as far off as what was written first.
LEMMA WriteShifts ==
    ASSUME LayoutTypeOK, LinkedPlaced, Forwards, FileShifted, NEW i, IsNext(i), folded = {},
           NEW addr \in Nat, NEW size \in Nat, NEW before \in Nat, NEW behind \in Nat,
           addr = IF BehindHeader(i) THEN running ELSE Address[i],
           size = sections[i].Length - Skipped(i),
           before = IF InFront(i) THEN 0 ELSE Address[i] - running,
           behind = IF IsShort(i) THEN 0 ELSE running' - (addr + size),
           running' = Aligned(addr + size), addr + size <= running',
           file' = Filled(Appended(Filled(file, before), i, size), behind),
           visited' = visited \cup {i}, UNCHANGED <<smap, sections, linked>>
    PROVE  Shifted'
<1>1. /\ i \in DOMAIN sections \ visited /\ visited \subseteq DOMAIN sections
      /\ InOrder /\ IsSectionList(sections)
      /\ i \in Nat /\ i # 0 /\ Shifted
  BY DEF IsNext, LayoutTypeOK, Forwards, IsSectionList, FileShifted
<1>2. /\ linked[i] \in Nat /\ Skipped(i) \in Nat /\ sections[i].Length \in Nat
      /\ Filling => Skipped(i) = 0
  BY <1>1, LinkedFacts
<1>3. \A p \in visited' : LastVisited(p)' <=> p = i
  BY <1>1, NextVisited
<1>4. addr + size \in Nat /\ running' \in Nat /\ running' >= addr + size
  BY AlignedBound
<1>5. Filling => addr = linked[i]
  BY <1>1, WrittenWhereLinked DEF Shifted
<1>6. ASSUME Filling, IsShort(i)
      PROVE  running' = End(linked, i)
  <2>1. /\ linked[i] % DefaultAlignment = 0
        /\ sections[i].Length % DefaultAlignment = 0
    BY <1>1, <1>6, AlignedFields
       DEF LinkedPlaced, FrontAligned, InFront, FrontKinds, IsShort
  <2>2. (linked[i] + sections[i].Length) % DefaultAlignment = 0
    BY <1>2, <2>1, SumAligned, LayoutAssumption
  <2>3. addr + size = linked[i] + sections[i].Length
    BY <1>2, <1>5, <1>6
  <2> QED
    BY <1>4, <2>2, <2>3, AlignedFacts DEF End
<1>7. (Filling' <=> Filling) /\ (Gapless' <=> Gapless) /\ End(linked, i)' = End(linked, i)
  BY SameSections DEF Filling, Gapless, End
<1>8. Filling => TightFront(linked)'
  BY <1>3, <1>6, <1>7, SameSections DEF TightFront
<1>9. file \in Seq(PieceType)
  BY DEF FileShifted
<1>10. ASSUME Filling \/ Gapless
       PROVE  \E base \in Int : ShiftedBy(base)'
  <2>1. PICK base \in Int :
          /\ \A k \in Pieces : Shift(k) = base
          /\ EndsAt(file, base, BeginUnfilled(i, before))
    BY <1>10, NextBase
  <2>2. /\ \A k \in Pieces' : Shift(k)' = base
        /\ EndsAt(file', base, EndFilled(i, size, behind))
    BY <1>1, <1>2, <1>9, <2>1, FileGrows
  <2>3. EndOf(file') + base = linked[i] + sections[i].Length + FillOf(behind)
    <3>1. PICK v \in Nat, l \in Nat, m \in Nat, length \in Nat :
            /\ v = FillOf(behind) /\ l = linked[i] /\ m = Skipped(i)
            /\ length = sections[i].Length
      BY <1>2, FillOfType
    <3>2. EndOf(file') + base = l + m + size + v
      BY <2>2, <3>1 DEF EndsAt, EndFilled
    <3>3. size = length - m
      BY <3>1
    <3> QED
      BY <3>1, <3>2, <3>3
  <2>4. EndOf(file') + base = IF Filling THEN running' ELSE End(linked, i)
    <3>1. CASE ~Filling
      BY <1>2, <2>3, <3>1 DEF FillOf, End
    <3>2. CASE Filling /\ IsShort(i)
      <4>1. behind = 0 /\ running' = linked[i] + sections[i].Length
        BY <1>6, <3>2 DEF End
      <4> QED
        BY <1>2, <2>3, <3>2, <4>1 DEF FillOf
    <3>3. CASE Filling /\ ~IsShort(i)
      <4>1. /\ EndOf(file') + base = linked[i] + sections[i].Length + behind
            /\ behind = running' - (addr + size)
            /\ addr + size = linked[i] + sections[i].Length
        BY <1>2, <1>5, <2>3, <3>3 DEF FillOf
      <4> QED
        BY <1>2, <1>4, <3>3, <4>1
    <3> QED
      BY <3>1, <3>2, <3>3
  <2> QED
    BY <1>3, <1>7, <2>2, <2>4 DEF ShiftedBy
<1> QED
  BY <1>7, <1>8, <1>10 DEF Shifted

-----------------------------------------------------------------------------
\* The next state holds all that a piece of the file is as far off as the others.
LEMMA ShiftedFound ==
    ASSUME FileShifted'
    PROVE  FoundWhereLinked'
<1> SUFFICES ASSUME file' # <<>>, folded' = {}, (smap.lastWidth # 0)' \/ Gapless'
             PROVE  (\A k, l \in Pieces : Shift(k) = Shift(l))'
  BY DEF FoundWhereLinked
<1>1. PICK base \in Int : ShiftedBy(base)'
  BY DEF FileShifted, Shifted, Filling
<1> QED
  BY <1>1 DEF ShiftedBy

\* A step that leaves the file and what is linked alone.
LEMMA FoundKept ==
    ASSUME FoundWhereLinked, UNCHANGED <<smap, sections, linked, file>>, folded \subseteq folded'
    PROVE  FoundWhereLinked'
<1>1. \A j, k : Before(j, k)' <=> Before(j, k)
  BY DEF Before, Loop
<1>2. Gapless' <=> Gapless
  BY <1>1 DEF Gapless
<1>3. Pieces' = Pieces /\ \A k : Shift(k)' = Shift(k)
  BY DEF Pieces, Shift, Skipped, IsBootHeader
<1> QED
  BY <1>2, <1>3 DEF FoundWhereLinked

\* The passes start from sections that are aligned.
LEMMA StackingStartsAligned ==
    ASSUME IsSectionList(sections), stage = "stacking",
           Address = [i \in DOMAIN sections |-> sections[i].Offset],
           running = 0, reserved = 0, file = <<>>
    PROVE  PlacedInv
<1>1. 0 % DefaultAlignment = 0
  BY LayoutAssumption
<1>2. StackingAligned
  BY <1>1, AlignedFields DEF StackingAligned
<1> QED
  BY <1>2 DEF PlacedInv, FoundWhereLinked

LEMMA StackPlaced ==
    ASSUME LayoutInv, PlacedInv, Stack
    PROVE  PlacedInv'
<1>1. file' = <<>> /\ stage = "stacking" /\ FoundWhereLinked'
  BY DEF Stack, StackSection, OverlapError, StartRestacking, InList, PlacedInv, FoundWhereLinked
<1>2. CASE StackSection
  <2>1. StackingAligned' /\ stage' = "stacking"
    BY <1>1, <1>2, StackSectionAligned DEF LayoutInv, PlacedInv, StackSection
  <2> QED
    BY <1>1, <2>1 DEF PlacedInv
<1>3. CASE OverlapError
  BY <1>1, <1>3 DEF OverlapError, PlacedInv
<1>4. CASE StartRestacking
  <2>1. /\ visited' = {} /\ running' = 0 /\ stage' = "restacking"
        /\ UNCHANGED <<sections, Address>> /\ StackingAligned
    BY <1>1, <1>4 DEF StartRestacking, PlacedInv
  <2>2. 0 % DefaultAlignment = 0
    BY LayoutAssumption
  <2>3. RestackingPlaced'
    BY <2>1, <2>2 DEF RestackingPlaced, InOrder, TightFront, FrontTight, FrontAligned,
                      Stepwise, StackingAligned
  <2> QED
    BY <1>1, <2>1, <2>3 DEF PlacedInv
<1> QED
  BY <1>2, <1>3, <1>4 DEF Stack

LEMMA RestackPlaced ==
    ASSUME LayoutInv, PlacedInv, Restack
    PROVE  PlacedInv'
<1>1. /\ file' = <<>> /\ stage = "restacking" /\ FoundWhereLinked'
      /\ LayoutTypeOK /\ Restacking /\ RestackingPlaced
  BY DEF Restack, RestackSection, Link, LayoutInv, PlacedInv, FoundWhereLinked
<1>2. CASE RestackSection
  <2>1. RestackingPlaced' /\ stage' = "restacking"
    BY <1>1, <1>2, RestackSectionPlaces DEF RestackSection
  <2> QED
    BY <1>1, <2>1 DEF PlacedInv
<1>3. CASE Link
  <2>1. /\ visited = DOMAIN sections /\ stage' = "linked" /\ DOMAIN linked' = DOMAIN sections
        /\ UNCHANGED <<sections, Address>> /\ folded \subseteq folded'
        /\ folded' = {} => \A i \in DOMAIN sections : linked'[i] = Address[i]
    BY <1>3 DEF Link, AllVisited
  <2>2. folded' = {} => linked' = Address
    <3>1. linked' = [i \in DOMAIN sections |-> linked'[i]]
      BY <1>3 DEF Link
    <3>2. Address = [i \in DOMAIN sections |-> Address[i]]
      BY <1>1 DEF LayoutTypeOK
    <3> QED BY <2>1, <3>1, <3>2
  <2>3. folded' = {} => FrontAligned(linked, DOMAIN sections)'
    BY <1>1, <2>1, <2>2, SameSections DEF RestackingPlaced, FrontAligned
  <2>4. folded' = {} => FrontTight(linked, DOMAIN sections)'
    BY <1>1, <2>1, <2>2, SameSections DEF RestackingPlaced, FrontTight, End
  <2>5. Stepwise(Address, DOMAIN sections)'
    BY <1>1, <2>1, SameSections DEF RestackingPlaced, Stepwise, End
  <2> QED
    BY <1>1, <2>1, <2>2, <2>3, <2>4, <2>5 DEF PlacedInv, LinkedPlaced
<1> QED
  BY <1>2, <1>3 DEF Restack

\* The output leaves the headers alone.
LEMMA LinkedPlacedKept ==
    ASSUME LinkedPlaced, UNCHANGED <<sections, linked>>, folded \subseteq folded'
    PROVE  LinkedPlaced'
<1>1. folded' = {} => FrontAligned(linked, DOMAIN sections)'
  BY SameSections DEF LinkedPlaced, FrontAligned
<1>2. folded' = {} => FrontTight(linked, DOMAIN sections)'
  BY SameSections DEF LinkedPlaced, FrontTight, End
<1> QED
  BY <1>1, <1>2 DEF LinkedPlaced

LEMMA StartWritingPlaced ==
    ASSUME LayoutInv, PlacedInv, StartWriting
    PROVE  PlacedInv'
<1>1. /\ visited' = {} /\ running' = 0 /\ stage' = "writing"
      /\ UNCHANGED <<smap, sections, Address, linked, file, folded>>
      /\ (folded = {} => Address = linked) /\ Stepwise(Address, DOMAIN sections)
      /\ file = <<>> /\ LinkedPlaced /\ FoundWhereLinked
  BY DEF StartWriting, PlacedInv
<1>2. LinkedPlaced'
  BY <1>1, LinkedPlacedKept
<1>3. Forwards'
  <2>1. \A i \in DOMAIN sections : 0 <= Address[i]
    BY DEF LayoutInv, LayoutTypeOK
  <2>2. Stepwise(Address, DOMAIN sections \ visited)'
    BY <1>1, SameSections DEF Stepwise, End
  <2> QED
    BY <1>1, <2>1, <2>2 DEF Forwards, InOrder
<1>4. FileShifted'
  BY <1>1 DEF FileShifted, Shifted, TightFront
<1>5. FoundWhereLinked'
  BY <1>1, FoundKept
<1> QED
  BY <1>1, <1>2, <1>3, <1>4, <1>5 DEF PlacedInv

\* The two kinds of write are one: the gap before a section in front is not filled,
\* nor that behind a boot header or a certificate.
LEMMA WritePlaced ==
    ASSUME LayoutInv, PlacedInv, NEW i, IsNext(i), stage = "writing", stage' = "writing",
           NEW addr \in Nat, NEW size \in Nat, NEW before \in Nat, NEW behind \in Int,
           addr = IF BehindHeader(i) THEN running ELSE Address[i],
           size = sections[i].Length - Skipped(i),
           before = IF InFront(i) THEN 0 ELSE Address[i] - running,
           behind = IF IsShort(i) THEN 0 ELSE running' - (addr + size),
           running' = Aligned(addr + size),
           folded' = Noted(i, addr + size, running'),
           file' = Filled(Appended(Filled(file, before), i, size), behind),
           visited' = visited \cup {i}, UNCHANGED <<smap, sections, linked>>,
           \A k \in DOMAIN sections : k # i => Address'[k] = Address[k]
    PROVE  PlacedInv'
<1>1. LayoutTypeOK /\ LinkedPlaced /\ Forwards /\ FileShifted /\ i \in DOMAIN sections
  BY DEF LayoutInv, PlacedInv, IsNext
<1>2. /\ folded \subseteq folded'
      /\ folded' = {} => folded = {} /\ addr + size <= running' /\ behind \in Nat
  <2>1. PICK n \in Nat, r \in Nat : n = addr + size /\ r = running'
    BY AlignedBound
  <2>2. folded' = {} => folded = {} /\ ~(r < n)
    BY <2>1 DEF Noted
  <2>3. folded' = {} => n <= r
    BY <2>2
  <2>4. behind = IF IsShort(i) THEN 0 ELSE r - n
    BY <2>1
  <2>5. folded \subseteq folded'
    BY DEF Noted
  <2> QED
    BY <2>1, <2>2, <2>3, <2>4, <2>5
<1>3. LinkedPlaced'
  BY <1>1, <1>2, LinkedPlacedKept
<1>4. Forwards'
  <2>1. size <= sections[i].Length /\ (InFront(i) \/ size = sections[i].Length)
    BY <1>1, LinkedFacts DEF InFront, FrontKinds, IsBootHeader
  <2> QED
    BY <1>1, <1>2, <2>1, WriteForwards
<1>5. file' \in Seq(PieceType)
  <2> DEFINE f1 == Filled(file, before)
             f2 == Appended(f1, i, size)
  <2>0. i \in Nat /\ size \in Int
    BY <1>1 DEF LayoutTypeOK, IsSectionList
  <2>4. before \in Int
    BY <1>1 DEF LayoutTypeOK
  <2>1. f1 \in Seq(PieceType)
    BY <1>1, <2>4, GapFilledType DEF FileShifted
  <2> HIDE DEF f1
  <2>2. f2 \in Seq(PieceType)
    BY <2>0, <2>1, AppendedFacts, Zenon
  <2> HIDE DEF f2
  <2>3. Filled(f2, behind) \in Seq(PieceType)
    BY <2>2, GapFilledType
  <2> QED
    BY <2>3 DEF f1, f2
<1>6. folded' = {} => Shifted'
  BY <1>1, <1>2, WriteShifts
<1>7. FileShifted'
  BY <1>5, <1>6 DEF FileShifted
<1>8. FoundWhereLinked'
  BY <1>7, ShiftedFound
<1> QED
  BY <1>3, <1>4, <1>7, <1>8 DEF PlacedInv

LEMMA WriteInFrontPlaced ==
    ASSUME LayoutInv, PlacedInv, WriteInFront
    PROVE  PlacedInv'
<1> DEFINE Addr(i) == IF IsBootHeader(i) THEN Address[i] ELSE running
           Size(i) == sections[i].Length - Skipped(i)
<1>1. PICK i \in DOMAIN sections :
        /\ stage = "writing" /\ IsNext(i) /\ InFront(i)
        /\ Address' = [Address EXCEPT ![i] = Addr(i)]
        /\ running' = Aligned(Addr(i) + Size(i))
        /\ file' = IF sections[i].kind = "bootloader"
                   THEN Filled(Appended(file, i, Size(i)), running' - (Addr(i) + Size(i)))
                   ELSE Appended(file, i, Size(i))
        /\ visited' = visited \cup {i}
        /\ folded' = Noted(i, Addr(i) + Size(i), running')
        /\ UNCHANGED <<smap, stage, sections, reserved, linked>>
  BY DEF WriteInFront
<1>2. LayoutTypeOK /\ LinkedPlaced
  BY <1>1 DEF LayoutInv, PlacedInv
<1>3. PICK addr \in Nat, size \in Nat : addr = Addr(i) /\ size = Size(i)
  <2>1. Addr(i) \in Nat
    BY <1>2 DEF LayoutTypeOK
  <2>2. Size(i) \in Nat
    BY <1>2, LinkedFacts
  <2> QED
    BY <2>1, <2>2
<1>4. addr = IF BehindHeader(i) THEN running ELSE Address[i]
  BY <1>1, <1>3 DEF BehindHeader
<1>5. /\ running' = Aligned(addr + size) /\ running' \in Nat
      /\ folded' = Noted(i, addr + size, running')
  BY <1>1, <1>3, AlignedBound
<1>6. \A pieces : Filled(pieces, 0) = pieces
  BY DEF Filled
<1>7. \A k \in DOMAIN sections : k # i => Address'[k] = Address[k]
  BY <1>1, <1>2 DEF LayoutTypeOK
<1>8. PICK behind \in Int : behind = IF IsShort(i) THEN 0 ELSE running' - (addr + size)
  BY <1>5
<1>9. file' = Filled(Appended(Filled(file, 0), i, size), behind)
  <2>1. CASE sections[i].kind = "bootloader"
    <3>1. ~IsShort(i)
      BY <2>1 DEF IsShort
    <3> QED BY <1>1, <1>3, <1>6, <1>8, <2>1, <3>1
  <2>2. CASE sections[i].kind # "bootloader"
    <3>1. IsShort(i)
      BY <1>1, <2>2 DEF IsShort, InFront, FrontKinds
    <3> QED BY <1>1, <1>3, <1>6, <1>8, <2>2, <3>1
  <2> QED BY <2>1, <2>2
<1>10. 0 \in Nat /\ 0 = IF InFront(i) THEN 0 ELSE Address[i] - running
  BY <1>1
<1>11. stage' = "writing" /\ UNCHANGED <<smap, sections, linked>>
  BY <1>1
<1> QED
  BY <1>1, <1>3, <1>4, <1>5, <1>7, <1>8, <1>9, <1>10, <1>11, WritePlaced

LEMMA WriteSectionPlaced ==
    ASSUME LayoutInv, PlacedInv, WriteSection
    PROVE  PlacedInv'
<1>1. PICK i \in DOMAIN sections :
        /\ stage = "writing" /\ IsNext(i) /\ ~InFront(i) /\ ~Backwards(i)
        /\ running' = Aligned(Address[i] + sections[i].Length)
        /\ file' = Filled(Appended(Filled(file, Address[i] - running), i, sections[i].Length),
                          running' - (Address[i] + sections[i].Length))
        /\ visited' = visited \cup {i}
        /\ folded' = Noted(i, Address[i] + sections[i].Length, running')
        /\ UNCHANGED <<smap, stage, sections, Address, reserved, linked>>
  BY DEF WriteSection
<1>2. LayoutTypeOK /\ LinkedPlaced
  BY <1>1 DEF LayoutInv, PlacedInv
<1>3. sections[i].Length \in Nat /\ Address[i] \in Nat /\ running \in Nat /\ Skipped(i) = 0
  BY <1>1, <1>2, LinkedFacts DEF LayoutTypeOK, InFront, FrontKinds, IsBootHeader
<1>4. PICK addr \in Nat, size \in Nat, before \in Nat :
        addr = Address[i] /\ size = sections[i].Length /\ before = addr - running
  <2>1. Address[i] - running \in Nat
    BY <1>1, <1>3 DEF Backwards
  <2> QED
    BY <1>3, <2>1
<1>5. /\ running' = Aligned(addr + size) /\ running' \in Nat
      /\ folded' = Noted(i, addr + size, running')
  BY <1>1, <1>4, AlignedBound
<1>6. PICK behind \in Int : behind = running' - (addr + size)
  BY <1>5
<1>7. file' = Filled(Appended(Filled(file, before), i, size), behind)
  BY <1>1, <1>4, <1>6
<1>8. /\ addr = IF BehindHeader(i) THEN running ELSE Address[i]
      /\ size = sections[i].Length - Skipped(i)
      /\ before = IF InFront(i) THEN 0 ELSE Address[i] - running
      /\ behind = IF IsShort(i) THEN 0 ELSE running' - (addr + size)
  BY <1>1, <1>3, <1>4, <1>6 DEF BehindHeader, InFront, FrontKinds, IsShort
<1>9. stage' = "writing" /\ UNCHANGED <<smap, sections, linked>>
  BY <1>1
<1>10. \A k \in DOMAIN sections : k # i => Address'[k] = Address[k]
  BY <1>1
<1> QED
  BY <1>1, <1>5, <1>7, <1>8, <1>9, <1>10, WritePlaced

\* Every step of the passes and of the output keeps the sections where the output
\* needs them.
LEMMA PlacedStep ==
    ASSUME LayoutInv, PlacedInv, LayoutNext
    PROVE  PlacedInv'
<1>1. CASE BackwardsError \/ Close
  <2>1. FoundWhereLinked'
    BY <1>1, FoundKept DEF PlacedInv, BackwardsError, Close
  <2> QED
    BY <1>1, <2>1 DEF PlacedInv, BackwardsError, Close
<1> QED
  BY <1>1, StackPlaced, RestackPlaced, StartWritingPlaced, WriteInFrontPlaced,
     WriteSectionPlaced DEF LayoutNext, Write

LEMMA PlacedStutter ==
    ASSUME PlacedInv, UNCHANGED layoutVars
    PROVE  PlacedInv'
<1>0. sections' = sections /\ folded' = folded
  BY DEF layoutVars
<1>1. FoundWhereLinked'
  BY FoundKept DEF PlacedInv, layoutVars
<1>2. (FrontUncut' <=> FrontUncut) /\ (Gapless' <=> Gapless) /\ (Filling' <=> Filling)
  BY <1>0, SameSections DEF FrontUncut, Gapless, Filling, layoutVars
<1>3. Pieces' = Pieces /\ \A k : Shift(k)' = Shift(k)
  BY DEF Pieces, Shift, Skipped, IsBootHeader, layoutVars
<1>4. \A k : /\ LastVisited(k)' <=> LastVisited(k)
             /\ End(Address, k)' = End(Address, k) /\ End(linked, k)' = End(linked, k)
  BY <1>0, SameSections DEF LastVisited, End, layoutVars
<1>5. InOrder' <=> InOrder
  BY <1>0, <1>4, SameSections DEF InOrder, layoutVars
<1>6. /\ Stepwise(Address, visited)' <=> Stepwise(Address, visited)
      /\ Stepwise(Address, DOMAIN sections)' <=> Stepwise(Address, DOMAIN sections)
      /\ Stepwise(Address, DOMAIN sections \ visited)'
            <=> Stepwise(Address, DOMAIN sections \ visited)
  BY <1>0, <1>2, <1>4, SameSections DEF Stepwise, layoutVars
<1>7. /\ TightFront(Address)' <=> TightFront(Address)
      /\ TightFront(linked)' <=> TightFront(linked)
  BY <1>0, <1>4, SameSections DEF TightFront, layoutVars
<1>8. /\ FrontAligned(Address, visited)' <=> FrontAligned(Address, visited)
      /\ FrontTight(Address, visited)' <=> FrontTight(Address, visited)
  BY <1>0, <1>4, SameSections DEF FrontAligned, FrontTight, layoutVars
<1>9. LinkedPlaced => LinkedPlaced'
  BY <1>0, LinkedPlacedKept DEF layoutVars
<1>10. StackingAligned' <=> StackingAligned
  BY DEF StackingAligned, layoutVars
<1>11. RestackingPlaced => RestackingPlaced'
  <2>1. \A x : Aligned(x)' = Aligned(x)
    BY DEF Aligned, AlignTo
  <2> QED
    BY <1>0, <1>4, <1>5, <1>6, <1>7, <1>8, <2>1, SameSections DEF RestackingPlaced, layoutVars
<1>12. Forwards => Forwards'
  <2>1. \A k : IsNext(k)' <=> IsNext(k)
    BY <1>0, SameSections DEF IsNext, layoutVars
  <2> QED
    BY <1>0, <1>2, <1>5, <1>6, <2>1, SameSections DEF Forwards, layoutVars
<1>13. \A base : ShiftedBy(base)' <=> ShiftedBy(base)
  BY <1>2, <1>3, <1>4 DEF ShiftedBy, EndOf, layoutVars
<1>14. FileShifted => FileShifted'
  BY <1>0, <1>2, <1>7, <1>13 DEF FileShifted, Shifted, PieceType, layoutVars
<1> QED
  BY <1>0, <1>1, <1>6, <1>9, <1>10, <1>11, <1>12, <1>14 DEF PlacedInv, layoutVars

\* The inductive invariant of the layout by itself.
LEMMA LayoutPlaced == LayoutSpec => [](LayoutInv /\ PlacedInv)
<1>1. LayoutInit => LayoutInv /\ PlacedInv
  BY LayoutStarts, StackingStartsAligned DEF LayoutInit
<1>2. LayoutInv /\ PlacedInv /\ [LayoutNext]_layoutVars => LayoutInv' /\ PlacedInv'
  BY LayoutStep, LayoutStutter, PlacedStep, PlacedStutter
<1> QED
  BY <1>1, <1>2, PTL DEF LayoutSpec

\* The output never meets a section below the running address.
LEMMA ForwardsEnough == LayoutInv /\ PlacedInv => NeverBackwards
<1> SUFFICES ASSUME LayoutInv, PlacedInv, stage = "writing", ReservesCover, FrontUncut,
                    PlainBootloader, NEW i \in DOMAIN sections, IsNext(i), Backwards(i)
             PROVE  FALSE
  BY DEF NeverBackwards, PlainBootloader
<1>1. LayoutTypeOK /\ Forwards
  BY DEF LayoutInv, PlacedInv
<1>2. Address[i] < running /\ running <= Address[i]
  BY <1>1 DEF Backwards, Forwards
<1>3. running \in Nat /\ Address[i] \in Nat
  BY <1>1 DEF LayoutTypeOK
<1> QED
  BY <1>2, <1>3

\* Whatever the offsets, alignments and reservations, also beyond 4 GB, an image that
\* has been laid out is written: "Sequential addresses are going backwards!" is an
\* error that only a reservation of the bootloader, or one that is outgrown, or a
\* bootloader beyond 4 GB can cause.
THEOREM LayoutForwards == LayoutSpec => []NeverBackwards
BY LayoutPlaced, ForwardsEnough, PTL

\* Every section is in the file where the headers say, up to what is left out at its
\* start, if the gaps are filled or there are none, and no address is cut.
THEOREM LayoutFound == LayoutSpec => []FoundWhereLinked
<1>1. PlacedInv => FoundWhereLinked
  BY DEF PlacedInv
<1> QED
  BY <1>1, LayoutPlaced, PTL
-----------------------------------------------------------------------------
(* The image.                                                              *)

\* Building the image runs the encryption as it is specified by itself: the layout
\* and the output add steps in which nothing of it changes.
THEOREM ImageRunsKeyRolling == ImageSpec => Spec
<1>1. ImageInit => Init
  BY DEF ImageInit, Init
<1>2. [ImageNext]_<<vars, layoutVars, parts>> => [Next]_vars
  BY DEF ImageNext, BuildPartitions, StartStacking, LayOut, EncryptMetaHeader, Output, Ended
<1> QED
  BY <1>1, <1>2, PTL DEF ImageSpec, Spec

\* So the pairs are used once in the whole image: the bootloader and its PMC data,
\* the partitions, and the meta header that is encrypted after the layout.
THEOREM ImagePairsUsedOnce == ImageSpec => []CheckedPairsUsedOnce
BY ImageRunsKeyRolling, PairsUsedOnce, PTL

\* And they are the pairs that were checked, whichever partition, PMC data or meta
\* header they encrypt.
THEOREM ImageOnlyChecked == ImageSpec => []OnlyCheckedPairs
BY ImageRunsKeyRolling, OnlyChecked, PTL

\* A receiver of the image can decrypt all of its parts, chunk by chunk where they are
\* hashed, and none of them is encrypted with data or pairs from beyond their end, if
\* their sizes fit 32 bits.
THEOREM ImageIsRecovered ==
    ASSUME SizesFit
    PROVE  ImageSpec => [](NeverOverrun /\ ReceiverRecovers /\ ChunksHoldWholeBlocks)
BY ImageRunsKeyRolling, NothingOverrun, ChainIsComplete, ChunksAreWhole, PTL

-----------------------------------------------------------------------------
\* Before the sections are listed, the variables of the layout are unused.
ImageInv ==
    /\ stage = "building" =>
          /\ smap \in SmapType /\ sections = <<>>
          /\ visited = {} /\ running = 0 /\ reserved = 0 /\ linked = <<>> /\ file = <<>>
          /\ folded = {}
    /\ stage # "building" => LayoutInv /\ PlacedInv

\* The sections that the image is made of give the layout its initial state.
LEMMA StackingStarts ==
    ASSUME ImageInv, StartStacking, IsSectionList(sections)'
    PROVE  ImageInv'
<1>1. /\ sections' = CacheSections /\ stage = "building" /\ stage' = "stacking"
      /\ Address' = [i \in DOMAIN CacheSections |-> CacheSections[i].Offset]
      /\ UNCHANGED <<smap, visited, running, reserved, linked, folded>>
  BY DEF StartStacking
<1>2. \A i \in DOMAIN sections' : sections'[i].Offset \in Nat
  <2> SUFFICES ASSUME NEW i \in DOMAIN sections' PROVE sections'[i].Offset \in Nat
    OBVIOUS
  <2>1. sections'[i] \in SectionType
    BY DEF IsSectionList
  <2> QED
    BY <2>1 DEF SectionType
<1>3. Address' \in [DOMAIN sections' -> Nat]
  BY <1>1, <1>2
<1>4. LayoutTypeOK'
  BY <1>1, <1>3 DEF ImageInv, LayoutTypeOK, Stages
<1>5. SectionsApart'
  BY <1>1 DEF ImageInv, SectionsApart
<1>6. PlacedInv'
  <2>1. 0 % DefaultAlignment = 0
    BY LayoutAssumption
  <2>2. \A i \in DOMAIN sections' : Address'[i] % DefaultAlignment = 0
    BY <1>1 DEF IsSectionList
  <2>3. file' = <<>> /\ running' = 0 /\ reserved' = 0
    BY <1>1 DEF ImageInv, StartStacking
  <2> QED
    BY <1>1, <2>1, <2>2, <2>3 DEF PlacedInv, StackingAligned, FoundWhereLinked
<1> QED
  BY <1>1, <1>4, <1>5, <1>6 DEF ImageInv, LayoutInv

\* Every step of the image is one of the layout, or leaves the layout alone.
LEMMA ImageStep ==
    ASSUME ImageInv, IsSectionList(sections)', [ImageNext]_<<vars, layoutVars, parts>>
    PROVE  ImageInv'
<1>1. CASE UNCHANGED layoutVars
  <2>1. CASE stage = "building"
    BY <1>1, <2>1 DEF ImageInv, layoutVars
  <2>2. CASE stage # "building"
    BY <1>1, <2>2, LayoutStutter, PlacedStutter DEF ImageInv, layoutVars
  <2> QED
    BY <2>1, <2>2
<1>2. CASE StartStacking
  BY <1>2, StackingStarts
<1>3. CASE LayOut \/ Output
  <2>1. LayoutNext
    BY <1>3 DEF LayOut, Output, LayoutNext
  <2>2. stage # "building" /\ stage' # "building"
    BY <2>1 DEF LayoutNext, Stack, Restack, Write, StackSection, InList, OverlapError,
                StartRestacking, RestackSection, Link, StartWriting, WriteInFront,
                WriteSection, BackwardsError, Close
  <2> QED
    BY <2>1, <2>2, LayoutStep, PlacedStep DEF ImageInv
<1> QED
  BY <1>1, <1>2, <1>3 DEF ImageNext, BuildPartitions, EncryptMetaHeader, Ended

-----------------------------------------------------------------------------
(* What the section list is made from.                                       *)

\* The plan, the attributes of its partitions and the SMAP words are those of one BIF.
SourceInv ==
    \E input \in Inputs : plan = input.plan /\ parts = input.parts /\ smap = input.smap

\* A partition that is encrypted has records, its secure header at least.
RecordedInv ==
    phase = "block" \/ (phase = "hash" /\ plan[job].encrypted) => RecordsOf(job) # {}

\* A partition that is hashed and built has a chunk at least.
ChunkedInv ==
    /\ DOMAIN chunks = DOMAIN plan
    /\ \A j \in DOMAIN plan : j < job /\ Hashed(j) => Len(chunks[j]) \in Nat \ {0}

\* What the section list is made from.
BuiltInv == SourceInv /\ RecordedInv /\ ChunkedInv

\* The first record of a partition is its secure header, and they are only added to.
LEMMA RecordedStep ==
    ASSUME TypeInv, Inv, RecordedInv, Next \/ UNCHANGED vars
    PROVE  RecordedInv'
<1>0. IsSequence(records)
  BY DEF Inv, PairsInv
<1>1. CASE EncryptHeader \/ EncryptBlock
  <2>1. PICK r : /\ records' = Append(records, r) /\ r.job = job
                 /\ UNCHANGED <<plan, job>>
    <3>1. CASE EncryptHeader
      <4> DEFINE next == Lesser(blocksList[1], InLen)
                 pair == <<ctx.aesKey, ctx.aesIv>>
                 after == PairBytes(2)
      <4>1. AddRecord(pair, 1, 0, 0, after, next) /\ UNCHANGED <<plan, job>>
        BY <3>1 DEF EncryptHeader, Go, inputs
      <4> HIDE DEF next, pair, after
      <4> QED BY <1>0, <4>1, RecordMade
    <3>2. CASE EncryptBlock
      <4> DEFINE next == NextSize(bytesWritten + nextBlkSize)
                 pair == <<Last(records).nextKey, Last(records).nextIv>>
                 after == PairAfter(next)
                 i == blkPtr + 1
      <4>1. AddRecord(pair, i, bytesWritten, nextBlkSize, after, next) /\ UNCHANGED <<plan, job>>
        BY <3>2 DEF EncryptBlock, position, inputs
      <4> HIDE DEF next, pair, after, i
      <4> QED BY <1>0, <4>1, RecordMade
    <3> QED BY <1>1, <3>1, <3>2
  <2>2. PICK l \in Nat : DOMAIN records' = 1 .. (l + 1) /\ records'[l + 1] = r
    BY <1>0, <2>1, RecordAppended
  <2>3. l + 1 \in RecordsOf(job)'
    BY <2>1, <2>2 DEF RecordsOf
  <2> QED BY <2>3 DEF RecordedInv
<1>2. CASE ~EncryptHeader /\ ~EncryptBlock
  <2>1. UNCHANGED <<plan, records>>
    BY <1>2, OtherSteps, PlanConstant DEF cipher
  <2>2. phase' = "block" => UNCHANGED <<job, phase>>
    BY <1>2, OtherSteps DEF position
  <2>3. CASE phase' = "hash" /\ plan[job]'.encrypted
    <3>1. \/ UNCHANGED job /\ (phase = "hash" \/ phase = "block")
          \/ StartJob /\ UNCHANGED job /\ phase' = IF plan[job].encrypted THEN "file" ELSE "hash"
      BY <2>3, PartSteps
    <3>2. UNCHANGED job /\ (phase = "block" \/ (phase = "hash" /\ plan[job].encrypted))
      BY <2>1, <2>3, <3>1
    <3>3. RecordsOf(job)' = RecordsOf(job)
      BY <2>1, <3>2 DEF RecordsOf
    <3> QED BY <3>2, <3>3 DEF RecordedInv
  <2>4. CASE phase' = "block"
    <3>1. RecordsOf(job)' = RecordsOf(job)
      BY <2>1, <2>2, <2>4 DEF RecordsOf
    <3> QED BY <2>2, <2>4, <3>1 DEF RecordedInv
  <2> QED BY <2>3, <2>4 DEF RecordedInv
<1> QED
  BY <1>1, <1>2

\* The length of a partition that is encrypted: that of its data, and an overhead for
\* each of its records.
LEMMA SecuredType ==
    ASSUME TypeInv, Inv, NEW j \in DOMAIN plan
    PROVE  /\ Total(plan[j].lengths) \in Nat \ {0}
           /\ Cardinality(RecordsOf(j)) \in Nat
           /\ RecordsOf(j) # {} => Cardinality(RecordsOf(j)) # 0
           /\ SecuredLength(j) \in Nat \ {0}
<1>1. Total(plan[j].lengths) \in Nat \ {0}
  BY PlanFacts DEF TypeInv
<1>2. IsFiniteSet(RecordsOf(j))
  <2>1. DOMAIN records = 1 .. Len(records) /\ Len(records) \in Nat
    BY DEF Inv, PairsInv, IsSequence
  <2>2. IsFiniteSet(1 .. Len(records))
    BY <2>1, FS_Interval
  <2> QED BY <2>1, <2>2, FS_Subset DEF RecordsOf
<1>3. PICK n : n = Cardinality(RecordsOf(j))
  OBVIOUS
<1>4. n \in Nat /\ (RecordsOf(j) # {} => n # 0)
  BY <1>2, <1>3, FS_CardinalityType, FS_EmptySet
<1>5. n * Overhead \in Nat
  BY <1>4, Constants, ProductNat
<1> QED
  BY <1>1, <1>3, <1>4, <1>5 DEF SecuredLength

\* The partition that is done has bytes for a chunk, also without its secure header.
LEMMA ChunksMade ==
    ASSUME TypeInv, Inv, RecordedInv, phase = "hash"
    PROVE  Len(ChunkSizes(job)) \in Nat \ {0}
<1> DEFINE secured   == IF plan[job].encrypted THEN Overhead ELSE 0
           chunkedOn == SecuredLength(job) - secured
           count     == RoundedUp(chunkedOn, HashedChunk)
<1>1. job \in DOMAIN plan
  BY PlaceNat
<1>2. PICK n, t : /\ n = Cardinality(RecordsOf(job)) /\ t = Total(plan[job].lengths)
                  /\ n \in Nat /\ t \in Nat \ {0} /\ SecuredLength(job) = t + n * Overhead
                  /\ SecuredLength(job) \in Nat \ {0}
                  /\ plan[job].encrypted => n # 0
  BY <1>1, SecuredType DEF SecuredLength, RecordedInv
<1>3. plan[job].encrypted => n * Overhead >= Overhead /\ n * Overhead \in Nat
  <2> SUFFICES ASSUME plan[job].encrypted PROVE n * Overhead >= Overhead /\ n * Overhead \in Nat
    OBVIOUS
  <2>1. n - 1 \in Nat /\ Overhead \in Nat
    BY <1>2, Constants
  <2>2. (n - 1) * Overhead \in Nat
    BY <2>1, ProductNat
  <2>3. ((n - 1) + 1) * Overhead = (n - 1) * Overhead + 1 * Overhead
    BY <2>1, Distribute
  <2>4. (n - 1) + 1 = n /\ 1 * Overhead = Overhead
    BY <1>2, <2>1
  <2> QED BY <2>1, <2>2, <2>3, <2>4
<1>4. chunkedOn \in Nat \ {0}
  BY <1>2, <1>3, Constants
<1>5. HashedChunk \in Nat \ {0}
  <2>1. PICK o \in Nat : o = Overhead * Overhead
    BY Constants
  <2> QED BY <2>1, Constants DEF HashedChunk
<1> HIDE DEF chunkedOn
<1>6. count \in Nat \ {0}
  BY <1>4, <1>5, RoundedUpCovers
<1>7. \E f : ChunkSizes(job) = [c \in 1 .. count |-> f[c]]
  <2> DEFINE f == [c \in 1 .. count |->
                     (IF c < count THEN HashedChunk ELSE chunkedOn - (count - 1) * HashedChunk)
                     + (IF c = 1 THEN secured ELSE 0)]
  <2>1. ChunkSizes(job) = f
    BY DEF ChunkSizes, chunkedOn
  <2>2. f = [c \in 1 .. count |-> f[c]]
    OBVIOUS
  <2> HIDE DEF f
  <2> QED BY <2>1, <2>2
<1> HIDE DEF count
<1>8. PICK f : ChunkSizes(job) = [c \in 1 .. count |-> f[c]]
  BY <1>7
<1> QED
  BY <1>6, <1>8

\* Chunks are made when a partition is done, and stay.
LEMMA ChunkedStep ==
    ASSUME TypeInv, Inv, RecordedInv, ChunkedInv, Next \/ UNCHANGED vars
    PROVE  ChunkedInv'
<1>0. UNCHANGED plan
  BY PlanConstant
<1>1. \A j : Hashed(j)' = Hashed(j)
  BY <1>0 DEF Hashed
<1>2. job \in Nat /\ job \in DOMAIN plan /\ \A j \in DOMAIN plan : j \in Nat
  BY PlaceNat
<1>3. CASE NextJob
  <2>1. /\ phase = "hash" /\ (job' = job \/ job' = job + 1)
        /\ chunks' = [chunks EXCEPT ![job] = IF Hashed(job) THEN ChunkSizes(job) ELSE <<>>]
    BY <1>3 DEF NextJob, At, position
  <2>2. PICK new : new = IF Hashed(job) THEN ChunkSizes(job) ELSE <<>>
    OBVIOUS
  <2>3. /\ DOMAIN chunks' = DOMAIN plan /\ chunks'[job] = new
        /\ \A j \in DOMAIN plan : j # job => chunks'[j] = chunks[j]
    BY <1>2, <2>1, <2>2 DEF ChunkedInv
  <2>4. Hashed(job) => Len(new) \in Nat \ {0}
    BY <2>1, <2>2, ChunksMade
  <2>5. ASSUME NEW j \in DOMAIN plan, j < job', Hashed(j)
        PROVE  Len(chunks'[j]) \in Nat \ {0}
    <3>1. j = job \/ j < job
      BY <1>2, <2>1, <2>5
    <3> QED BY <1>2, <2>3, <2>4, <2>5, <3>1 DEF ChunkedInv
  <2> QED BY <1>0, <1>1, <2>3, <2>5 DEF ChunkedInv
<1>4. CASE ~NextJob
  <2>1. UNCHANGED <<job, chunks>>
    <3>1. CASE UNCHANGED vars
      BY <3>1 DEF vars, position
    <3>2. CASE \/ StartJob \/ GenerateKeyFile \/ ReadKeyFile \/ TakePairs \/ DerivePairs
               \/ CheckPairs \/ EndStream \/ StartPmcData \/ EncryptHeader \/ EncryptBlock
      BY <3>2 DEF StartJob, GenerateKeyFile, ReadKeyFile, TakePairs, DerivePairs, CheckPairs,
                  EndStream, StartPmcData, EncryptHeader, EncryptBlock, Go, position
    <3>3. CASE \/ RefuseBlocks \/ RefuseKeyFile \/ NoKeyToCopy \/ KeyFileExists
               \/ TooFewPairs \/ RefusePairs \/ Overrun \/ RefuseLength
      BY <3>3 DEF RefuseBlocks, RefuseKeyFile, NoKeyToCopy, KeyFileExists,
                  TooFewPairs, RefusePairs, Overrun, RefuseLength, Fail, position
    <3> QED BY <1>4, <3>1, <3>2, <3>3 DEF Next, ReadKeys, PreparePairs, Encrypt
  <2> QED BY <1>0, <1>1, <2>1 DEF ChunkedInv
<1> QED
  BY <1>3, <1>4

-----------------------------------------------------------------------------
(* The section list.                                                         *)

\* A section list whose sections in front are of the kinds given.
Listed(list, kinds) ==
    /\ IsSectionList(list)
    /\ \A i \in DOMAIN list : list[i].kind \in FrontKinds => list[i].kind \in kinds

\* Nothing is a list.
LEMMA NothingListed == Listed(<<>>, {})
<1>1. <<>> \in Seq(SectionType) /\ DOMAIN <<>> = {}
  OBVIOUS
<1> QED
  BY <1>1 DEF Listed, IsSectionList

\* So is a section by itself.
LEMMA OneListed ==
    ASSUME NEW s \in SectionType,
           \A v \in {s.Offset, s.Reserve, s.Alignment} : v % DefaultAlignment = 0,
           s.kind \in {"BootHeader", "acBootloader"} => s.Length % DefaultAlignment = 0,
           s.kind = "BootHeader" =>
              s.Length >= SmapLength /\ (smap.slaveBoot \/ smap.width = smap.lastWidth)
    PROVE  Listed(<<s>>, {s.kind} \cap FrontKinds)
<1> DEFINE list == <<s>>
<1>1. list \in Seq(SectionType) /\ DOMAIN list = {1} /\ list[1] = s
  OBVIOUS
<1> HIDE DEF list
<1>2. IsSectionList(list)
  BY <1>1 DEF IsSectionList
<1>3. Listed(list, {s.kind} \cap FrontKinds)
  BY <1>1, <1>2 DEF Listed
<1> QED
  BY <1>3 DEF list

\* And lists one behind the other, unless both have a section in front of one kind.
LEMMA JoinedListed ==
    ASSUME NEW a, NEW b, NEW k, NEW l, Listed(a, k), Listed(b, l), k \cap l = {}
    PROVE  Listed(a \o b, k \cup l)
<1>1. a \in Seq(SectionType) /\ b \in Seq(SectionType)
  BY DEF Listed, IsSectionList
<1>2. PICK m \in Nat, n \in Nat : m = Len(a) /\ n = Len(b)
  BY <1>1
<1>3. PICK c : c = a \o b
  OBVIOUS
<1>4. /\ DOMAIN a = 1 .. m /\ DOMAIN b = 1 .. n
      /\ c \in Seq(SectionType) /\ DOMAIN c = 1 .. (m + n)
      /\ \A i \in 1 .. m : c[i] = a[i]
      /\ \A i \in (m + 1) .. (m + n) : c[i] = b[i - m]
  <2>1. DOMAIN a = 1 .. m /\ DOMAIN b = 1 .. n
    BY <1>1, <1>2
  <2>2. c \in Seq(SectionType)
    BY <1>1, <1>3
  <2>3. DOMAIN c = 1 .. (m + n)
    BY <1>1, <1>2, <1>3
  <2>4. /\ \A i \in 1 .. m : c[i] = a[i]
        /\ \A i \in (m + 1) .. (m + n) : c[i] = b[i - m]
    BY <1>1, <1>2, <1>3
  <2> QED BY <2>1, <2>2, <2>3, <2>4
<1>5. \A i \in 1 .. (m + n) : \/ i \in 1 .. m /\ c[i] = a[i]
                              \/ i \in (m + 1) .. (m + n) /\ i - m \in 1 .. n /\ c[i] = b[i - m]
  BY <1>4
<1>6. \A i \in 1 .. m, h \in 1 .. n :
         a[i].kind \in FrontKinds => a[i].kind # b[h].kind
  BY <1>4 DEF Listed
<1>7. \A i, h \in 1 .. (m + n) : c[i].kind = c[h].kind /\ c[i].kind \in FrontKinds => i = h
  <2> SUFFICES ASSUME NEW i \in 1 .. (m + n), NEW h \in 1 .. (m + n),
                      c[i].kind = c[h].kind, c[i].kind \in FrontKinds
               PROVE  i = h
    OBVIOUS
  <2>1. CASE i \in 1 .. m /\ h \in 1 .. m
    <3>1. c[i] = a[i] /\ c[h] = a[h]
      BY <1>4, <2>1
    <3> QED BY <1>4, <2>1, <3>1 DEF Listed, IsSectionList
  <2>2. CASE i \in 1 .. m /\ h \notin 1 .. m
    BY <1>4, <1>5, <1>6, <2>2
  <2>3. CASE i \notin 1 .. m /\ h \in 1 .. m
    BY <1>4, <1>5, <1>6, <2>3
  <2>4. CASE i \notin 1 .. m /\ h \notin 1 .. m
    <3>1. PICK x \in 1 .. n, y \in 1 .. n :
             x = i - m /\ y = h - m /\ c[i] = b[x] /\ c[h] = b[y]
      BY <1>4, <1>5, <2>4
    <3>2. x = y
      BY <1>4, <3>1 DEF Listed, IsSectionList
    <3> QED BY <1>4, <3>1, <3>2
  <2> QED BY <2>1, <2>2, <2>3, <2>4
<1> DEFINE Fine(s, kinds) ==
             /\ \A v \in {s.Offset, s.Reserve, s.Alignment} : v % DefaultAlignment = 0
             /\ s.kind \in {"BootHeader", "acBootloader"} => s.Length % DefaultAlignment = 0
             /\ s.kind = "BootHeader" =>
                   /\ s.Length >= SmapLength
                   /\ smap.slaveBoot \/ smap.width = smap.lastWidth
             /\ s.kind \in FrontKinds => s.kind \in kinds
<1>8. \A i \in 1 .. (m + n) : Fine(c[i], k \cup l)
  <2>1. \A i \in 1 .. m : Fine(a[i], k)
    BY <1>4 DEF Listed, IsSectionList
  <2>2. \A i \in 1 .. n : Fine(b[i], l)
    BY <1>4 DEF Listed, IsSectionList
  <2>3. \A s : Fine(s, k) \/ Fine(s, l) => Fine(s, k \cup l)
    OBVIOUS
  <2> HIDE DEF Fine
  <2> QED BY <1>5, <2>1, <2>2, <2>3
<1>9. Listed(c, k \cup l)
  BY <1>4, <1>7, <1>8 DEF Listed, IsSectionList
<1> QED
  BY <1>9, <1>3

\* f gives what the first 1 to n of the sequences s are, one behind the other.
AreJoined(f, n, s) == f = [i \in 1 .. n |-> IF i = 1 THEN s[i] ELSE f[i - 1] \o s[i]]

\* The recursion of FlattenSeq has a solution.
LEMMA JoinedExist ==
    ASSUME NEW s, Len(s) \in Nat \ {0}
    PROVE  \E f : AreJoined(f, Len(s), s)
<1> DEFINE G == {n \in 0 .. Len(s) : \E f : AreJoined(f, n, s)}
<1>1. 0 \in G
  <2>1. AreJoined([p \in 1 .. 0 |-> 0], 0, s)
    BY DEF AreJoined
  <2> QED BY <2>1
<1>2. ASSUME NEW n \in 1 .. Len(s), n - 1 \in G
      PROVE  n \in G
  <2>1. PICK f : AreJoined(f, n - 1, s)
    BY <1>2
  <2> DEFINE g == [p \in 1 .. n |-> IF p # n THEN f[p] ELSE IF n = 1 THEN s[1]
                                    ELSE f[n - 1] \o s[n]]
  <2>2. ASSUME NEW p \in 1 .. n
        PROVE  g[p] = IF p = 1 THEN s[p] ELSE g[p - 1] \o s[p]
    <3>1. CASE p = n
      <4>1. n # 1 => n - 1 \in 1 .. n /\ n - 1 # n
        OBVIOUS
      <4> QED BY <3>1, <4>1
    <3>2. CASE p # n
      <4>1. p \in 1 .. (n - 1) /\ p - 1 # n /\ (p # 1 => p - 1 \in 1 .. n)
        BY <3>2
      <4>2. f[p] = IF p = 1 THEN s[p] ELSE f[p - 1] \o s[p]
        BY <4>1, <2>1 DEF AreJoined
      <4> QED BY <4>1, <4>2, <3>2
    <3> QED BY <3>1, <3>2
  <2>3. g = [p \in 1 .. n |-> IF p = 1 THEN s[p] ELSE g[p - 1] \o s[p]]
    BY <2>2
  <2>4. AreJoined(g, n, s)
    BY <2>3 DEF AreJoined
  <2> QED BY <2>4
<1> HIDE DEF G
<1>3. \A n \in 0 .. Len(s) : n \in G
  BY <1>1, <1>2, UpToN
<1>4. Len(s) \in 0 .. Len(s)
  OBVIOUS
<1> QED
  BY <1>3, <1>4 DEF G

\* FlattenSeq is the last of them.
LEMMA FlattenJoins ==
    ASSUME NEW s, Len(s) \in Nat \ {0}
    PROVE  \E f : AreJoined(f, Len(s), s) /\ FlattenSeq(s) = f[Len(s)]
<1> DEFINE f == CHOOSE f : AreJoined(f, Len(s), s)
<1>1. AreJoined(f, Len(s), s)
  BY JoinedExist
<1>2. FlattenSeq(s) = f[Len(s)]
  BY DEF FlattenSeq, AreJoined
<1> HIDE DEF f
<1> QED
  BY <1>1, <1>2

\* What the BIF gives: a plan, and attributes that Build accepts.
LEMMA SourceFacts ==
    ASSUME SourceInv
    PROVE  /\ smap \in SmapType
           /\ \A i, j \in DOMAIN plan : IsBootloader(i) /\ IsBootloader(j) => i = j
           /\ HasBootloader => smap.slaveBoot \/ smap.width = smap.lastWidth
           /\ \A j \in DOMAIN plan :
                 /\ plan[j].kind = "metaheader" <=> j = Len(plan)
                 /\ parts[j] \in Attributes
                 /\ \A v \in {parts[j].offset, parts[j].alignment, parts[j].reserve} :
                       v % DefaultAlignment = 0
<1>1. PICK input \in Inputs : plan = input.plan /\ parts = input.parts /\ smap = input.smap
  BY DEF SourceInv
<1>2. plan \in Seq(Job) /\ parts \in Seq(Attributes) /\ Len(parts) = Len(plan)
  BY <1>1, InputsAssumption, AttributeAssumption
<1>3. \A j \in DOMAIN plan : j \in DOMAIN parts
  BY <1>2
<1>4. \A j \in DOMAIN plan : parts[j] \in Attributes
  BY <1>2, <1>3
<1>5. /\ smap \in SmapType
      /\ \A i, j \in DOMAIN plan :
            plan[i].kind = "bootloader" /\ plan[j].kind = "bootloader" => i = j
      /\ \/ smap.slaveBoot \/ smap.width = smap.lastWidth
         \/ \A j \in DOMAIN plan : plan[j].kind # "bootloader"
      /\ \A j \in DOMAIN plan :
            /\ plan[j].kind = "metaheader" <=> j = Len(plan)
            /\ \A v \in {parts[j].offset, parts[j].alignment, parts[j].reserve} :
                  v % DefaultAlignment = 0
  BY <1>1, AttributeAssumption
<1> QED
  BY <1>4, <1>5 DEF IsBootloader, HasBootloader

\* A partition that is built has a length, also with its padding, and with a hash for
\* every chunk but the first.
LEMMA BuiltType ==
    ASSUME TypeInv, Inv, ChunkedInv, NEW j \in DOMAIN plan, j < job
    PROVE  BuiltLength(j) \in Nat
<1>1. PICK n \in Nat : n = SecuredLength(j)
  BY SecuredType
<1>2. HashLength \in Nat
  BY Constants
<1>3. BootloaderPad(j) \in Nat
  <2>1. CertificateLength - SignLength \in Nat /\ ShaPad \in Nat \ {0}
    BY ImageAssumption
  <2>2. \A x \in Nat : x % ShaPad \in 0 .. (ShaPad - 1)
    BY <2>1
  <2> QED BY <1>1, <2>1, <2>2 DEF BootloaderPad
<1>4. Hashed(j) => HashLength * (Len(chunks[j]) - 1) \in Nat
  <2> SUFFICES ASSUME Hashed(j) PROVE HashLength * (Len(chunks[j]) - 1) \in Nat
    OBVIOUS
  <2>1. Len(chunks[j]) - 1 \in Nat
    BY DEF ChunkedInv
  <2> QED BY <1>2, <2>1, ProductNat
<1> QED
  BY <1>1, <1>2, <1>3, <1>4 DEF BuiltLength

\* A section without attributes is one of a list.
LEMMA PlainListed ==
    ASSUME NEW kind \in OtherKinds \cup {"acBootloader"}, NEW length \in Nat,
           kind = "acBootloader" => length % DefaultAlignment = 0
    PROVE  Listed(<<Section(kind, length)>>, {kind} \cap FrontKinds)
<1>1. PICK s : s = Section(kind, length)
  OBVIOUS
<1>2. /\ s \in SectionType /\ s.kind = kind /\ s.Length = length
      /\ s.Offset = 0 /\ s.Reserve = 0 /\ s.Alignment = 0
  BY <1>1 DEF Section, SectionType, FrontKinds
<1>3. 0 % DefaultAlignment = 0
  BY LayoutAssumption
<1>4. kind # "BootHeader"
  BY DEF OtherKinds
<1>5. Listed(<<s>>, {s.kind} \cap FrontKinds)
  BY <1>2, <1>3, <1>4, OneListed
<1> QED
  BY <1>1, <1>2, <1>5

\* The certificate of a partition, if it has one.
LEMMA CertificateListed ==
    ASSUME NEW j
    PROVE  Listed(Certificate(j), IF IsBootloader(j) THEN {"acBootloader"} ELSE {})
<1>1. CertificateLength \in Nat /\ CertificateLength % DefaultAlignment = 0
  BY ImageAssumption
<1>2. Listed(<<Section("acBootloader", CertificateLength)>>, {"acBootloader"} \cap FrontKinds)
  BY <1>1, PlainListed
<1>3. Listed(<<Section("certificate", CertificateLength)>>, {"certificate"} \cap FrontKinds)
  BY <1>1, PlainListed DEF OtherKinds
<1>4. {"acBootloader"} \cap FrontKinds = {"acBootloader"} /\ {"certificate"} \cap FrontKinds = {}
  BY DEF FrontKinds
<1>5. Listed(<<>>, {}) /\ Listed(<<>>, {"acBootloader"})
  BY NothingListed DEF Listed
<1> QED
  BY <1>2, <1>3, <1>4, <1>5 DEF Certificate

\* The sections in front that partition j brings.
FrontOf(j) == IF IsBootloader(j) THEN {"acBootloader", "bootloader"} ELSE {}

\* What VersalPartition::Build adds for a partition is a list.
LEMMA PartitionListed ==
    ASSUME SourceInv, TypeInv, Inv, ChunkedInv, NEW j \in DOMAIN plan, j < job
    PROVE  Listed(PartitionSections(j), FrontOf(j))
<1>1. Listed(IF plan[j].checksum /\ ~IsBootloader(j)
             THEN <<Section("checksum", HashLength)>> ELSE <<>>, {})
  <2>1. Listed(<<Section("checksum", HashLength)>>, {"checksum"} \cap FrontKinds)
    BY Constants, PlainListed DEF OtherKinds
  <2>2. {"checksum"} \cap FrontKinds = {}
    BY DEF FrontKinds
  <2> QED BY <2>1, <2>2, NothingListed
<1>2. PICK s : s = PartitionSection(j)
  OBVIOUS
<1>3. PICK a : a = parts[j] /\ a.offset \in Nat /\ a.reserve \in Nat
               /\ a.alignment \in {0} \cup Alignments
               /\ a.offset % DefaultAlignment = 0 /\ a.reserve % DefaultAlignment = 0
               /\ a.alignment % DefaultAlignment = 0
  BY SourceFacts DEF Attributes
<1>4. PICK first \in BOOLEAN : first = \A i \in 1 .. (j - 1) : plan[i].image # plan[j].image
  OBVIOUS
<1>5. s = [kind |-> plan[j].kind, Length |-> BuiltLength(j),
           Offset |-> IF first THEN a.offset ELSE 0,
           Reserve |-> IF first THEN a.reserve ELSE 0,
           Alignment |-> a.alignment, continuation |-> ~first]
  BY <1>2, <1>3, <1>4 DEF PartitionSection, Section
<1>6. BuiltLength(j) \in Nat
  BY BuiltType
<1>7. plan[j].kind \in Kinds
  BY JobFields, PlanFacts DEF TypeInv
<1>8. 0 % DefaultAlignment = 0
  BY LayoutAssumption
<1>9. s \in SectionType /\ s.kind \in Kinds /\ s.kind = plan[j].kind
      /\ \A v \in {s.Offset, s.Reserve, s.Alignment} : v % DefaultAlignment = 0
  BY <1>3, <1>5, <1>6, <1>7, <1>8 DEF SectionType, Kinds, FrontKinds, OtherKinds
<1>10. Listed(<<s>>, {s.kind} \cap FrontKinds)
  BY <1>9, OneListed DEF Kinds
<1>11. {s.kind} \cap FrontKinds = IF IsBootloader(j) THEN {"bootloader"} ELSE {}
  BY <1>9 DEF Kinds, FrontKinds, IsBootloader
<1>12. Listed(Certificate(j), IF IsBootloader(j) THEN {"acBootloader"} ELSE {})
  BY CertificateListed
<1>13. PICK c, d, k, l :
          /\ c = (IF plan[j].checksum /\ ~IsBootloader(j)
                  THEN <<Section("checksum", HashLength)>> ELSE <<>>)
          /\ d = Certificate(j)
          /\ k = (IF IsBootloader(j) THEN {"acBootloader"} ELSE {})
          /\ l = (IF IsBootloader(j) THEN {"bootloader"} ELSE {})
  OBVIOUS
<1>14. /\ Listed(c, {}) /\ Listed(d, k) /\ Listed(<<s>>, l)
       /\ k \cap l = {} /\ FrontOf(j) = k \cup l
  BY <1>1, <1>10, <1>11, <1>12, <1>13 DEF FrontOf
<1>15. Listed(c \o d, {} \cup k)
  BY <1>14, JoinedListed
<1>16. Listed((c \o d) \o <<s>>, ({} \cup k) \cup l)
  BY <1>14, <1>15, JoinedListed
<1>17. ({} \cup k) \cup l = FrontOf(j)
  BY <1>14
<1>18. PartitionSections(j) = (c \o d) \o <<s>>
  BY <1>2, <1>13 DEF PartitionSections
<1> QED
  BY <1>16, <1>17, <1>18

\* What stands before the partitions is a list, and has a boot header at most in front.
LEMMA HeaderListed ==
    ASSUME SourceInv, TypeInv
    PROVE  Listed(HeaderSections, {"BootHeader"})
<1>1. PICK m : m = Len(plan) /\ m \in DOMAIN plan /\ plan \in Seq(Job)
  <2>1. plan \in Seq(Job) /\ job \in DOMAIN plan
    BY PlaceNat
  <2> QED BY <2>1
<1>2. plan[m].kind = "metaheader" /\ ~IsBootloader(m)
  BY <1>1, SourceFacts DEF IsBootloader
<1>3. PICK length \in Nat \ {0} : length = Total(plan[m].lengths)
  BY <1>1, PlanFacts DEF TypeInv
<1>4. PICK secure \in Nat :
         secure = IF plan[m].encrypted THEN (Len(BlocksList(m, length)) + 1) * Overhead ELSE 0
  <2>1. Len(BlocksList(m, length)) + 1 \in Nat /\ Overhead \in Nat
    BY <1>1, <1>3, BlocksListType, Constants
  <2>2. (Len(BlocksList(m, length)) + 1) * Overhead \in Nat
    BY <2>1, ProductNat
  <2> QED BY <2>2
<1>5. PICK head : head = IF HasBootloader THEN <<Section("BootHeader", BootHeaderLength)>>
                         ELSE IF smap.width # 0 THEN <<Section("SmapHeader", SmapLength)>> ELSE <<>>
  OBVIOUS
<1>6. Listed(head, {"BootHeader"})
  <2>1. CASE HasBootloader
    <3>1. PICK s : s = Section("BootHeader", BootHeaderLength)
      OBVIOUS
    <3>2. BootHeaderLength \in Nat /\ BootHeaderLength % DefaultAlignment = 0
          /\ BootHeaderLength >= SmapLength
      BY ImageAssumption, LayoutAssumption
    <3>3. /\ s \in SectionType /\ s.kind = "BootHeader" /\ s.Length = BootHeaderLength
          /\ s.Offset = 0 /\ s.Reserve = 0 /\ s.Alignment = 0
      BY <3>1, <3>2 DEF Section, SectionType, FrontKinds
    <3>4. 0 % DefaultAlignment = 0
      BY LayoutAssumption
    <3>5. smap.slaveBoot \/ smap.width = smap.lastWidth
      BY <2>1, SourceFacts
    <3>6. Listed(<<s>>, {s.kind} \cap FrontKinds)
      BY <3>2, <3>3, <3>4, <3>5, OneListed
    <3>7. {s.kind} \cap FrontKinds = {"BootHeader"}
      BY <3>3 DEF FrontKinds
    <3> QED BY <1>5, <2>1, <3>1, <3>6, <3>7
  <2>2. CASE ~HasBootloader
    <3>1. Listed(<<Section("SmapHeader", SmapLength)>>, {"SmapHeader"} \cap FrontKinds)
      BY LayoutAssumption, PlainListed DEF OtherKinds
    <3>2. {"SmapHeader"} \cap FrontKinds = {}
      BY DEF FrontKinds
    <3>3. Listed(head, {})
      BY <1>5, <2>2, <3>1, <3>2, NothingListed
    <3> QED BY <3>3 DEF Listed
  <2> QED BY <2>1, <2>2
<1>7. PICK table : table = <<Section("table", TableLength)>> /\ Listed(table, {})
  <2>1. TableLength \in Nat
    BY ImageAssumption
  <2>2. Listed(<<Section("table", TableLength)>>, {"table"} \cap FrontKinds)
    BY <2>1, PlainListed DEF OtherKinds
  <2>3. {"table"} \cap FrontKinds = {}
    BY DEF FrontKinds
  <2> QED BY <2>2, <2>3
<1>8. PICK certificate : certificate = Certificate(m) /\ Listed(certificate, {})
  BY <1>2, CertificateListed
<1>9. PICK meta : meta = <<Section("metaheader", length + secure)>> /\ Listed(meta, {})
  <2>1. length + secure \in Nat
    OBVIOUS
  <2>2. Listed(<<Section("metaheader", length + secure)>>, {"metaheader"} \cap FrontKinds)
    BY <2>1, PlainListed DEF OtherKinds
  <2>3. {"metaheader"} \cap FrontKinds = {}
    BY DEF FrontKinds
  <2> QED BY <2>2, <2>3
<1> DEFINE k == {"BootHeader"}
<1>10. k \cap {} = {} /\ k \cup {} = k
  OBVIOUS
<1> HIDE DEF k
<1>11. Listed(head, k)
  BY <1>6 DEF k
<1>12. Listed(head \o table, k)
  <2>1. Listed(head \o table, k \cup {})
    BY <1>7, <1>10, <1>11, JoinedListed
  <2> QED BY <1>10, <2>1
<1>13. Listed((head \o table) \o certificate, k)
  <2>1. Listed((head \o table) \o certificate, k \cup {})
    BY <1>8, <1>10, <1>12, JoinedListed
  <2> QED BY <1>10, <2>1
<1>14. Listed(((head \o table) \o certificate) \o meta, k)
  <2>1. Listed(((head \o table) \o certificate) \o meta, k \cup {})
    BY <1>9, <1>10, <1>13, JoinedListed
  <2> QED BY <1>10, <2>1
<1>15. HeaderSections = ((head \o table) \o certificate) \o meta
  BY <1>1, <1>3, <1>4, <1>5, <1>7, <1>8, <1>9 DEF HeaderSections
<1> QED
  BY <1>14, <1>15 DEF k

\* The partitions bring the sections in front of one bootloader at most.
LEMMA PartitionsListed ==
    ASSUME SourceInv, TypeInv, Inv, ChunkedInv, job = Len(plan)
    PROVE  Listed(FlattenSeq([j \in 1 .. (Len(plan) - 1) |-> PartitionSections(j)]),
                  {"acBootloader", "bootloader"})
<1>1. PICK n \in Nat : n = Len(plan) - 1 /\ DOMAIN plan = 1 .. (n + 1) /\ job = n + 1
  <2>1. plan \in Seq(Job) /\ job \in DOMAIN plan
    BY PlaceNat
  <2> QED BY <2>1
<1> DEFINE s == [j \in 1 .. n |-> PartitionSections(j)]
           front == {"acBootloader", "bootloader"}
           FrontTo(i) == IF \E j \in 1 .. i : IsBootloader(j) THEN front ELSE {}
<1>2. Len(s) = n /\ \A j \in 1 .. n : s[j] = PartitionSections(j)
  OBVIOUS
<1>3. \A j \in 1 .. n : Listed(s[j], FrontOf(j))
  BY <1>1, <1>2, PartitionListed
<1> HIDE DEF s
<1>4. CASE n = 0
  <2>1. FlattenSeq(s) = s
    BY <1>2, <1>4 DEF FlattenSeq
  <2>2. s = <<>>
    BY <1>4 DEF s
  <2>3. Listed(s, front)
    BY <2>2, NothingListed DEF Listed
  <2> QED BY <1>1, <2>1, <2>3 DEF s
<1>5. CASE n # 0
  <2>1. PICK f : AreJoined(f, n, s) /\ FlattenSeq(s) = f[n]
    BY <1>2, <1>5, FlattenJoins
  <2>2. \A i \in 1 .. n : f[i] = IF i = 1 THEN s[i] ELSE f[i - 1] \o s[i]
    BY <2>1 DEF AreJoined
  <2> DEFINE G == {i \in 0 .. n : i # 0 => Listed(f[i], FrontTo(i))}
  <2>3. 0 \in G
    OBVIOUS
  <2>4. ASSUME NEW i \in 1 .. n, i - 1 \in G PROVE i \in G
    <3> SUFFICES Listed(f[i], FrontTo(i))
      OBVIOUS
    <3>1. Listed(s[i], FrontOf(i))
      BY <1>3
    <3>2. CASE i = 1
      <4>1. FrontOf(i) = FrontTo(i)
        BY <3>2 DEF FrontOf
      <4> HIDE DEF FrontTo, G
      <4>2. f[i] = s[i]
        BY <2>2, <3>2
      <4> QED BY <3>1, <4>1, <4>2
    <3>3. CASE i # 1
      <4>1. Listed(f[i - 1], FrontTo(i - 1)) /\ i - 1 \in 1 .. n
        BY <2>4, <3>3
      <4>2. \A j \in 1 .. (i - 1) : ~(IsBootloader(j) /\ IsBootloader(i))
        <5> SUFFICES ASSUME NEW j \in 1 .. (i - 1), IsBootloader(j), IsBootloader(i) PROVE FALSE
          OBVIOUS
        <5>1. j \in DOMAIN plan /\ i \in DOMAIN plan /\ i # j
          BY <1>1
        <5> QED BY <5>1, SourceFacts
      <4>3. FrontTo(i - 1) \cap FrontOf(i) = {}
        BY <4>2 DEF FrontOf
      <4>4. FrontTo(i) = FrontTo(i - 1) \cup FrontOf(i)
        <5>1. (\E j \in 1 .. i : IsBootloader(j))
                 <=> (IsBootloader(i) \/ \E j \in 1 .. (i - 1) : IsBootloader(j))
          <6>1. 1 .. i = (1 .. (i - 1)) \cup {i}
            OBVIOUS
          <6> QED BY <6>1
        <5> QED BY <5>1 DEF FrontOf
      <4> HIDE DEF FrontTo, G
      <4>5. Listed(f[i - 1] \o s[i], FrontTo(i - 1) \cup FrontOf(i))
        BY <3>1, <4>1, <4>3, JoinedListed
      <4>6. f[i] = f[i - 1] \o s[i]
        BY <2>2, <3>3
      <4> QED BY <4>4, <4>5, <4>6
    <3> QED BY <3>2, <3>3
  <2> HIDE DEF G
  <2>5. \A i \in 0 .. n : i \in G
    BY <2>3, <2>4, UpToN
  <2>6. Listed(f[n], FrontTo(n))
    BY <1>5, <2>5 DEF G
  <2>7. Listed(f[n], front)
    BY <2>6 DEF Listed
  <2> QED BY <1>1, <2>1, <2>7 DEF s
<1> QED
  BY <1>4, <1>5

\* When all partitions are built, the cache holds a list of sections.
LEMMA SectionsBuilt ==
    ASSUME BuiltInv, TypeInv, Inv, job = Len(plan)
    PROVE  IsSectionList(CacheSections)
<1>1. PICK a, b, k, l :
         /\ a = HeaderSections
         /\ b = FlattenSeq([j \in 1 .. (Len(plan) - 1) |-> PartitionSections(j)])
         /\ k = {"BootHeader"} /\ l = {"acBootloader", "bootloader"}
  OBVIOUS
<1>2. Listed(a, k) /\ Listed(b, l) /\ k \cap l = {}
  BY <1>1, HeaderListed, PartitionsListed DEF BuiltInv
<1>3. Listed(a \o b, k \cup l)
  BY <1>2, JoinedListed
<1> QED
  BY <1>1, <1>3 DEF CacheSections, Listed

-----------------------------------------------------------------------------
\* What the section list is made from stays, whatever the image is at.
LEMMA BuiltStep ==
    ASSUME BuiltInv, TypeInv, Inv, [ImageNext]_<<vars, layoutVars, parts>>
    PROVE  BuiltInv'
<1>1. Next \/ UNCHANGED vars
  BY DEF ImageNext, BuildPartitions, StartStacking, LayOut, EncryptMetaHeader, Output, Ended
<1>2. UNCHANGED parts /\ UNCHANGED smap
  BY DEF ImageNext, BuildPartitions, StartStacking, LayOut, EncryptMetaHeader, Output, Ended,
         layoutVars, Stack, StackSection, OverlapError, StartRestacking, Restack,
         RestackSection, Link, StartWriting, Write, WriteInFront, WriteSection,
         BackwardsError, Close
<1>3. SourceInv'
  BY <1>1, <1>2, PlanConstant DEF BuiltInv, SourceInv
<1> QED
  BY <1>1, <1>3, RecordedStep, ChunkedStep DEF BuiltInv

\* So the image is laid out from a list of sections.
LEMMA ImageListed ==
    ASSUME BuiltInv, TypeInv, Inv, ImageInv, [ImageNext]_<<vars, layoutVars, parts>>
    PROVE  IsSectionList(sections)'
<1>1. CASE StartStacking
  <2>1. IsSectionList(CacheSections)
    BY <1>1, SectionsBuilt DEF StartStacking, PartitionsBuilt
  <2>2. PICK list : list = CacheSections
    OBVIOUS
  <2>3. sections' = list /\ smap' = smap
    BY <1>1, <2>2 DEF StartStacking
  <2> QED BY <2>1, <2>2, <2>3 DEF IsSectionList
<1>2. CASE ~StartStacking
  <2>1. UNCHANGED <<smap, sections>>
    BY <1>2 DEF ImageNext, BuildPartitions, LayOut, EncryptMetaHeader, Output, Ended,
         layoutVars, Stack, StackSection, OverlapError, StartRestacking, Restack,
         RestackSection, Link, StartWriting, Write, WriteInFront, WriteSection,
         BackwardsError, Close
  <2>2. IsSectionList(sections)
    <3>1. CASE stage = "building"
      <4>1. Listed(<<>>, {}) /\ sections = <<>>
        BY <3>1, NothingListed DEF ImageInv
      <4> QED BY <4>1 DEF Listed
    <3>2. CASE stage # "building"
      BY <3>2 DEF ImageInv, LayoutInv, LayoutTypeOK
    <3> QED BY <3>1, <3>2
  <2> QED BY <2>1, <2>2 DEF IsSectionList
<1> QED
  BY <1>1, <1>2

-----------------------------------------------------------------------------
(* The file.                                                                 *)

\* Every piece of the file is a section of the image or fills a gap.
FileInv ==
    /\ file \in Seq(PieceType)
    /\ \A k \in DOMAIN file : file[k].section \in {0} \cup DOMAIN sections

\* What is appended is a piece of this kind.
LEMMA AppendedPieces ==
    ASSUME NEW P \in SUBSET Nat, NEW pieces \in Seq(PieceType),
           \A k \in DOMAIN pieces : pieces[k].section \in P,
           NEW i \in P, NEW length \in Int
    PROVE  /\ Appended(pieces, i, length) \in Seq(PieceType)
           /\ \A k \in DOMAIN Appended(pieces, i, length) :
                 Appended(pieces, i, length)[k].section \in P
<1>1. PICK f : f = Appended(pieces, i, length)
  OBVIOUS
<1>2. /\ f \in Seq(PieceType) /\ DOMAIN f = DOMAIN pieces \cup {Len(pieces) + 1}
      /\ \A k \in DOMAIN pieces : f[k] = pieces[k]
      /\ f[Len(pieces) + 1] = [section |-> i, at |-> EndOf(pieces), length |-> length]
  <2>1. i \in Nat
    OBVIOUS
  <2>2. \A n \in Nat, l \in Int :
            LET g == Appended(pieces, n, l)
            IN  /\ g \in Seq(PieceType)
                /\ EndOf(g) = EndOf(pieces) + l
                /\ DOMAIN g = DOMAIN pieces \cup {Len(pieces) + 1}
                /\ \A k \in DOMAIN pieces : g[k] = pieces[k]
                /\ g[Len(pieces) + 1] = [section |-> n, at |-> EndOf(pieces), length |-> l]
    BY AppendedFacts
  <2> QED BY <1>1, <2>1, <2>2
<1>3. f[Len(pieces) + 1].section = i
  BY <1>2
<1> QED
  BY <1>1, <1>2, <1>3

\* And so is what fills a gap.
LEMMA FilledPieces ==
    ASSUME NEW P \in SUBSET Nat, 0 \in P, NEW pieces \in Seq(PieceType),
           \A k \in DOMAIN pieces : pieces[k].section \in P, NEW gap \in Int
    PROVE  /\ Filled(pieces, gap) \in Seq(PieceType)
           /\ \A k \in DOMAIN Filled(pieces, gap) : Filled(pieces, gap)[k].section \in P
<1>1. PICK f : f = Filled(pieces, gap)
  OBVIOUS
<1>2. /\ f \in Seq(PieceType) /\ \A k \in DOMAIN pieces : f[k] = pieces[k]
      /\ \A k \in DOMAIN f \ DOMAIN pieces : f[k].section = 0
  <2>1. CASE gap \in Nat
    BY <1>1, <2>1, FilledFacts
  <2>2. CASE ~(gap > 0)
    BY <1>1, <2>2 DEF Filled
  <2> QED BY <2>1, <2>2
<1> QED
  BY <1>1, <1>2

\* Every step of the image writes sections of the image.
LEMMA FileStep ==
    ASSUME FileInv, ImageInv, IsSectionList(sections)', [ImageNext]_<<vars, layoutVars, parts>>
    PROVE  FileInv'
<1> DEFINE P == {0} \cup DOMAIN sections
<1>1. CASE WriteInFront
  <2>1. PICK i, addr, size, done :
          /\ i \in DOMAIN sections
          /\ addr = (IF IsBootHeader(i) THEN Address[i] ELSE running)
          /\ size = sections[i].Length - Skipped(i)
          /\ done = Appended(file, i, size)
          /\ running' = Aligned(addr + size)
          /\ file' = IF sections[i].kind = "bootloader"
                     THEN Filled(done, running' - (addr + size)) ELSE done
          /\ UNCHANGED sections /\ stage = "writing"
    BY <1>1 DEF WriteInFront
  <2>2. LayoutTypeOK
    BY <2>1 DEF ImageInv, LayoutInv
  <2>3. addr \in Nat /\ size \in Nat
    BY <2>1, <2>2, SectionFields, LayoutAssumption
       DEF LayoutTypeOK, Skipped, IsSectionList, IsBootHeader
  <2>4. running' - (addr + size) \in Int
    BY <2>1, <2>3, AlignedBound
  <2>5. P \in SUBSET Nat /\ i \in P /\ 0 \in P
    BY <2>1, <2>2 DEF LayoutTypeOK, IsSectionList
  <2> HIDE DEF P
  <2>6. size \in Int
    BY <2>3
  <2>7. done \in Seq(PieceType) /\ \A k \in DOMAIN done : done[k].section \in P
    BY <2>1, <2>5, <2>6, AppendedPieces DEF FileInv, P
  <2>8. PICK gap \in Int : gap = running' - (addr + size)
    BY <2>4
  <2>9. /\ Filled(done, gap) \in Seq(PieceType)
        /\ \A k \in DOMAIN Filled(done, gap) : Filled(done, gap)[k].section \in P
    BY <2>5, <2>7, FilledPieces
  <2>10. file' \in Seq(PieceType) /\ \A k \in DOMAIN file' : file'[k].section \in P
    BY <2>1, <2>7, <2>8, <2>9
  <2> QED BY <2>1, <2>10 DEF FileInv, P
<1>2. CASE WriteSection
  <2>1. PICK i, addr, size :
          /\ i \in DOMAIN sections
          /\ addr = Address[i] /\ size = sections[i].Length
          /\ ~InFront(i) /\ ~Backwards(i)
          /\ running' = Aligned(addr + size)
          /\ file' = Filled(Appended(Filled(file, addr - running), i, size),
                            running' - (addr + size))
          /\ UNCHANGED sections /\ stage = "writing"
    BY <1>2 DEF WriteSection
  <2>2. LayoutTypeOK
    BY <2>1 DEF ImageInv, LayoutInv
  <2>3. addr \in Nat /\ size \in Nat /\ addr - running \in Nat
    BY <2>1, <2>2, SectionFields DEF LayoutTypeOK, Backwards
  <2>4. running' - (addr + size) \in Int
    BY <2>1, <2>3, AlignedBound
  <2>5. P \in SUBSET Nat /\ i \in P /\ 0 \in P
    BY <2>1, <2>2 DEF LayoutTypeOK, IsSectionList
  <2> HIDE DEF P
  <2>13. PICK skip \in Int : skip = addr - running
    BY <2>3
  <2>6. PICK f, g : f = Filled(file, skip) /\ g = Appended(f, i, size)
    OBVIOUS
  <2>7. f \in Seq(PieceType) /\ \A k \in DOMAIN f : f[k].section \in P
    BY <2>5, <2>6, FilledPieces DEF FileInv, P
  <2>8. size \in Int
    BY <2>3
  <2>9. g \in Seq(PieceType) /\ \A k \in DOMAIN g : g[k].section \in P
    BY <2>5, <2>6, <2>7, <2>8, AppendedPieces
  <2>10. PICK gap \in Int : gap = running' - (addr + size)
    BY <2>4
  <2>11. /\ Filled(g, gap) \in Seq(PieceType)
         /\ \A k \in DOMAIN Filled(g, gap) : Filled(g, gap)[k].section \in P
    BY <2>5, <2>9, FilledPieces
  <2>12. file' \in Seq(PieceType) /\ \A k \in DOMAIN file' : file'[k].section \in P
    BY <2>1, <2>6, <2>10, <2>11, <2>13
  <2> QED BY <2>1, <2>12 DEF FileInv, P
<1>3. CASE StartStacking
  <2>1. file = <<>> /\ UNCHANGED file
    BY <1>3 DEF StartStacking, ImageInv
  <2>2. DOMAIN file' = {}
    BY <2>1
  <2> QED BY <2>1, <2>2 DEF FileInv
<1>4. CASE ~WriteInFront /\ ~WriteSection /\ ~StartStacking
  <2>1. UNCHANGED <<sections, file>>
    BY <1>4 DEF ImageNext, BuildPartitions, LayOut, EncryptMetaHeader, Output, Ended,
         layoutVars, Stack, StackSection, OverlapError, StartRestacking, Restack,
         RestackSection, Link, StartWriting, Write, BackwardsError, Close
  <2> QED BY <2>1 DEF FileInv
<1> QED
  BY <1>1, <1>2, <1>3, <1>4

-----------------------------------------------------------------------------
\* What holds of every image at every step.
WholeInv == Inv /\ TypeInv /\ BuiltInv /\ ImageInv /\ FileInv

\* It holds of the image that is begun.
LEMMA WholeInit == ImageInit => WholeInv
<1> SUFFICES ASSUME ImageInit PROVE WholeInv
  OBVIOUS
<1>1. PICK input \in Inputs : InitOf(input) /\ smap = input.smap /\ parts = input.parts
  BY DEF ImageInit
<1>2. Init
  BY <1>1 DEF Init
<1>3. /\ plan = input.plan /\ phase = "start" /\ job = 1
      /\ chunks = [j \in DOMAIN plan |-> <<>>]
  BY <1>1 DEF InitOf
<1>4. ChunkedInv
  <2>1. plan \in Seq(Job)
    BY <1>3, InputsAssumption
  <2>2. \A j \in DOMAIN plan : ~(j < job)
    BY <1>3, <2>1
  <2> QED BY <1>3, <2>2 DEF ChunkedInv
<1>5. BuiltInv
  BY <1>1, <1>3, <1>4 DEF BuiltInv, SourceInv, RecordedInv
<1>6. ImageInv
  BY AttributeAssumption DEF ImageInit, ImageInv
<1>7. FileInv
  <2>1. file = <<>> /\ DOMAIN <<>> = {} /\ <<>> \in Seq(PieceType)
    BY DEF ImageInit
  <2> QED BY <2>1 DEF FileInv
<1> QED
  BY <1>2, <1>5, <1>6, <1>7, InitFiles, TypeInit DEF WholeInv

\* Every step keeps it.
LEMMA WholeStep ==
    ASSUME WholeInv, [ImageNext]_<<vars, layoutVars, parts>>
    PROVE  WholeInv'
<1>1. Next \/ UNCHANGED vars
  BY DEF ImageNext, BuildPartitions, StartStacking, LayOut, EncryptMetaHeader, Output, Ended
<1>2. Inv' /\ TypeInv'
  BY <1>1, KeyRollingStep, KeyRollingStutter, TypeStep, TypeStutter DEF WholeInv
<1>3. BuiltInv'
  BY BuiltStep DEF WholeInv
<1>4. IsSectionList(sections)'
  BY ImageListed DEF WholeInv
<1>5. ImageInv' /\ FileInv'
  BY <1>4, ImageStep, FileStep DEF WholeInv
<1> QED
  BY <1>2, <1>3, <1>5 DEF WholeInv

\* And so it always holds.
LEMMA ImageWhole == ImageSpec => []WholeInv
BY WholeInit, WholeStep, PTL DEF ImageSpec

\* Whatever the BIF says, what Build has put on the list when the partitions are built
\* are sections with lengths that are natural numbers, only one of each kind that goes
\* in front, and with lengths and attributes that need no padding where the passes give
\* none; their addresses never fall below zero, and the file consists of them and of
\* fill bytes.
THEOREM ImageTyped == ImageSpec => []ImageTypeOK
<1>1. WholeInv => (stage # "building" => LayoutTypeOK)
                /\ (\A k \in DOMAIN file : file[k].section \in {0} \cup DOMAIN sections)
  BY DEF WholeInv, ImageInv, LayoutInv, FileInv
<1> QED
  BY <1>1, ImageWhole, ImageRunsKeyRolling, KeyRollingTyped, PTL DEF ImageTypeOK

\* In every image that is linked the sections lie apart, the output meets no section
\* below the running address, and every section is found where the headers say.
THEOREM ImageLaidOut ==
    ImageSpec => []SectionsApart /\ []NeverBackwards /\ []FoundWhereLinked
<1>1. WholeInv => SectionsApart /\ NeverBackwards /\ FoundWhereLinked
  <2>1. CASE stage = "building"
    BY <2>1 DEF WholeInv, ImageInv, SectionsApart, NeverBackwards, FoundWhereLinked
  <2>2. CASE stage # "building"
    BY <2>2, ForwardsEnough DEF WholeInv, ImageInv, LayoutInv, PlacedInv
  <2> QED
    BY <2>1, <2>2
<1> QED
  BY <1>1, ImageWhole, PTL
=============================================================================
