----------------------------- MODULE KeyRolling -----------------------------
(***************************************************************************)
(* AES key rolling and chunk hashing of a Versal boot image.  Every        *)
(* encrypted partition, then the meta header, is cut into blocks; a secure *)
(* header and each block are encrypted under a key/IV pair of their own,   *)
(* and each carries the pair and the size of the block that follows.  The  *)
(* pairs come from a key file per partition, which may hold all of them,   *)
(* or a first pair or a seed from which the rest is derived, or be missing *)
(* and be generated.  The partitions of one image share one encryption     *)
(* context (ctx), whose members outlive the reading of a key file.         *)
(*                                                                         *)
(* A partition that is authenticated is then cut into chunks, each followed*)
(* by the hash of the next, so the blocks have to fit the chunks.          *)
(*                                                                         *)
(* Keys and IVs are bytes: <<0, 0, k, FALSE>> is literal k of a key file   *)
(* and <<s, f, x, w>> output x of the KDF under seed s and fixed input data*)
(* f; w tells whether the bytes of each word are in the order of memory,   *)
(* FALSE, or swapped.  Files and checks have them as texts: hex digits, in *)
(* upper or lower case.                                                    *)
(***************************************************************************)
EXTENDS Integers, SequencesExt

CONSTANTS
    Inputs,         \* the BIF and the directory: [plan, disk]
    Files,          \* names of key files
    Sources,        \* key sources: efuse_red_key, bbram_red_key ...
    SecureChunk,    \* SECURE_32K_CHUNK
    HashLength,     \* SHA3_LENGTH_BYTES
    Overhead,       \* SECURE_HDR_SZ + AES_GCM_TAG_SZ
    FirstRandom,    \* random seeds and data are numbered from here
    WordModulus     \* number of values of a uint32_t

WordBytes == 4

\* Numbers of bytes that are a number of words.
WholeWords == {n \in Nat : n % WordBytes = 0}

Null == <<>>
ZeroKey == <<0, 0, 0, FALSE>>
NoSeed == 0

KeyBytes == Nat \X Nat \X Nat \X BOOLEAN

\* The strings of aesKeyVec and aesIvVec.
KeyTexts == [bytes : KeyBytes, upper : BOOLEAN]

\* The bytes of the native words of a key that was read as big-endian words.
Swapped(key) == <<key[1], key[2], key[3], ~key[4]>>

\* fidFirst: the fixed input data stand before the seed.
KeyFile ==
    [keys : Seq(KeyTexts), ivs : Seq(KeyTexts), seed : Nat, fid : Nat, fidFirst : BOOLEAN]

Kinds == {"bootloader", "partition", "metaheader"}

\* A partition, or the meta header: lengths holds one length, or two when the
\* bootloader is followed by PMC data, and files as many key files.  Partitions are
\* padded to words, and SetEncryptionBlocks takes blocks of words only.
Job ==
    [kind : Kinds, image : Nat, source : Sources, encrypted : BOOLEAN,
     authentication : {"none", "delayed", "signed"}, checksum : BOOLEAN,
     blocks : Seq(WholeWords \ {0}), default : WholeWords, lengths : Seq(WholeWords \ {0}),
     files : Seq(Files)]

IsDisk(d) == DOMAIN d \subseteq Files /\ \A f \in DOMAIN d : d[f] \in KeyFile

\* 32 KB, 48 and 64 bytes: a chunk is far larger than what comes with its blocks.
ASSUME KeyRollingAssumption ==
    /\ SecureChunk \in WholeWords /\ HashLength \in WholeWords /\ Overhead \in WholeWords \ {0}
    /\ HashLength + Overhead * Overhead < SecureChunk
    /\ WordModulus \in Nat /\ SecureChunk < WordModulus
    /\ FirstRandom \in Nat \ {0}

\* ValidateSecurityCombinations: no checksum with authentication or encryption.
\* The seeds and the data of the files are numbered below the random ones.
ASSUME InputsAssumption ==
    \A input \in Inputs :
        /\ input.plan \in Seq(Job) /\ input.plan # <<>>
        /\ IsDisk(input.disk)
        /\ \A j \in DOMAIN input.plan :
              /\ input.plan[j].lengths # <<>>
              /\ Len(input.plan[j].files) = Len(input.plan[j].lengths)
              /\ input.plan[j].kind # "bootloader" => Len(input.plan[j].lengths) = 1
              /\ input.plan[j].checksum =>
                    input.plan[j].authentication # "signed" /\ ~input.plan[j].encrypted
        /\ \A f \in DOMAIN input.disk :
              input.disk[f].seed < FirstRandom /\ input.disk[f].fid < FirstRandom

VARIABLES
    plan,          \* the partitions in the order they are built
    disk,          \* the key files of the directory
    generate,      \* generateAesKeyFile of each partition, set at parse time
    job, stream,   \* what is being encrypted: partition, and its 1st or 2nd part
    phase,         \* the next step of it
    blocksList,    \* EncryptionBlocksList of the options
    usedFiles,     \* the key files read so far
    key0Of,        \* aesKeyandKeySrc: the first key 0 of each key source
    ctx,           \* the encryption context of the image
    aesKeyVec, aesIvVec,
    seen,          \* seenPairOwner: the texts of the pairs checked so far
    fresh,         \* number of the next random value
    bytesWritten,
    nextBlkSize,
    blkPtr,        \* the block being encrypted
    records,       \* what is encrypted: secure headers and blocks
    offList,       \* history: records not under the pair checked for them
    chunks,        \* sizes of the hashed chunks of each partition
    status         \* "building", "done", "error" or "crashed"

inputs == <<plan, disk, generate>>
position == <<job, stream, phase>>
keys == <<usedFiles, key0Of, ctx, aesKeyVec, aesIvVec, seen, fresh>>
cipher == <<bytesWritten, nextBlkSize, blkPtr, records, offList>>
vars == <<inputs, position, blocksList, keys, cipher, chunks, status>>

Lesser(a, b) == IF a <= b THEN a ELSE b

-----------------------------------------------------------------------------
(* The blocks of a partition.                                              *)

Signed(j) == plan[j].authentication # "none"

\* The sums of the first elements of s, by their number.
Sums(s) == LET sum[i \in 0 .. Len(s)] == IF i = 0 THEN 0 ELSE sum[i - 1] + s[i] IN sum

Total(s) == Sums(s)[Len(s)]

\* Bytes that the first i blocks take in a chunk.
Taken(blocks, i) == Sums(blocks)[i] + i * Overhead

\* Room for blocks in one chunk: it also holds a hash, unless nothing is hashed.
\* The meta header always leaves room for it.
ChunkSize(j) ==
    IF Signed(j) \/ plan[j].kind = "metaheader"
    THEN SecureChunk - HashLength ELSE SecureChunk

\* The user's blocks that fit the chunk whole and leave room.
WholeBlocks(j) ==
    {i \in DOMAIN plan[j].blocks : Taken(plan[j].blocks, i) < ChunkSize(j)}

DefaultBlocks(j) ==
    LET left == ChunkSize(j) - 1 - Taken(plan[j].blocks, Len(plan[j].blocks))
    IN  IF plan[j].default = 0 THEN 0 ELSE left \div (plan[j].default + Overhead)

\* Blocks that are not cut: the user's, then as many of the default size as fit.
UncutBlocks(j) ==
    LET user == plan[j].blocks
    IN  IF \E i \in DOMAIN user : i \notin WholeBlocks(j)
        THEN SubSeq(user, 1, CHOOSE i \in 0 .. Len(user) :
                                /\ 1 .. i \subseteq WholeBlocks(j)
                                /\ i + 1 \notin WholeBlocks(j))
        ELSE user \o [i \in 1 .. DefaultBlocks(j) |-> plan[j].default]

\* The last block of a chunk takes what the others leave, less its overhead.
LastBlock(j) ==
    ChunkSize(j) - Taken(UncutBlocks(j), Len(UncutBlocks(j))) - Overhead

\* There is no room left for a last block.
Misfit(j) == LastBlock(j) <= 0

\* LOG_ERROR "cannot fit into the secure chunk": only when the block that does
\* not fit has the default size.
RefusedMisfit(j) ==
    /\ Misfit(j)
    /\ plan[j].kind = "partition"
    /\ plan[j].default # 0
    /\ \A i \in DOMAIN plan[j].blocks : i \in WholeBlocks(j)

\* ConfigureEncryptionBlocks: the blocks of one chunk.  The bootloader is not
\* hashed in chunks, so its blocks are the user's.
EncrBlocks(j) ==
    IF plan[j].kind = "bootloader" THEN plan[j].blocks
    ELSE Append(UncutBlocks(j), LastBlock(j) % WordModulus)

\* The blocks needed to cover length bytes, the last one cut to what is left.
Cover(blocks, length) ==
    LET enough == {i \in DOMAIN blocks : Sums(blocks)[i] >= length}
        last   == CHOOSE i \in enough : \A k \in enough : i <= k
    IN  IF enough = {} THEN blocks
        ELSE Append(SubSeq(blocks, 1, last - 1), length - Sums(blocks)[last - 1])

Copies(blocks, n) ==
    [i \in 1 .. (n * Len(blocks)) |-> blocks[((i - 1) % Len(blocks)) + 1]]

RoundedUp(a, b) == (a + b - 1) \div b

\* The list of blocks Process makes for a partition of that length.
BlocksList(j, length) ==
    LET each   == EncrBlocks(j)
        actual == (ChunkSize(j) - Len(each) * Overhead) % WordModulus
        left   == length - Total(each)
        def    == plan[j].default
    IN  IF plan[j].kind # "bootloader"
        THEN Copies(each, length \div actual) \o
             (IF length % actual = 0 THEN <<>> ELSE Cover(each, length % actual))
        ELSE each \o (IF left <= 0 THEN <<>>
                      ELSE IF def = 0 THEN <<left>>
                      ELSE [i \in 1 .. RoundedUp(left, def) |-> def])

-----------------------------------------------------------------------------
(* The start.                                                              *)

FreshContext ==
    [aesKey |-> Null, aesIv |-> Null, seed |-> NoSeed, fid |-> NoSeed,
     seedExists |-> FALSE, fidExists |-> FALSE]

Absent(f) == f \notin DOMAIN disk

\* Looked up when the BIF is read: the key file of the partition is missing, or
\* that of the first partition of its image.
ToGenerate(list, files, j) ==
    \E i \in 1 .. j :
        /\ list[i].encrypted /\ list[i].image = list[j].image
        /\ i = j \/ \A h \in 1 .. (i - 1) : list[h].image # list[j].image
        /\ list[i].files[1] \notin DOMAIN files

InitOf(input) ==
    /\ plan = input.plan /\ disk = input.disk
    /\ generate = [j \in DOMAIN plan |-> ToGenerate(plan, disk, j)]
    /\ job = 1 /\ stream = 1 /\ phase = "start"
    /\ blocksList = <<>>
    /\ usedFiles = {}
    /\ key0Of = [s \in Sources |-> Null]
    /\ ctx = FreshContext
    /\ aesKeyVec = <<>> /\ aesIvVec = <<>>
    /\ seen = {}
    /\ fresh = FirstRandom
    /\ bytesWritten = 0 /\ nextBlkSize = 0 /\ blkPtr = 0
    /\ records = <<>> /\ offList = {}
    /\ chunks = [j \in DOMAIN plan |-> <<>>]
    /\ status = "building"

Init == \E input \in Inputs : InitOf(input)

At(p) == status = "building" /\ phase = p

Fail(outcome) ==
    /\ status' = outcome
    /\ UNCHANGED <<inputs, position, blocksList, keys, cipher, chunks>>

\* The next step is that of phase p.
Go(p) == phase' = p /\ UNCHANGED <<job, stream, status, chunks>>

File == plan[job].files[stream]
Source == plan[job].source
InLen == plan[job].lengths[stream]
Pairs == Len(blocksList) + 1

\* The blocks of every image are configured while the BIF is read; a block that
\* does not fit stops bootgen before anything is encrypted.
RefuseBlocks ==
    /\ At("start") /\ job = 1
    /\ \E j \in DOMAIN plan : plan[j].encrypted /\ RefusedMisfit(j)
    /\ Fail("error")

StartJob ==
    /\ At("start")
    /\ job = 1 => \A j \in DOMAIN plan : plan[j].encrypted => ~RefusedMisfit(j)
    /\ IF plan[job].encrypted
       THEN /\ blocksList' = BlocksList(job, Total(plan[job].lengths))
            /\ Go("file")
       ELSE /\ blocksList' = <<>>
            /\ Go("hash")
    /\ UNCHANGED <<inputs, keys, cipher>>

-----------------------------------------------------------------------------
(* The key file.                                                           *)

\* Output x as a generated key file has it, its words in upper case.
GeneratedText(seed, fid, x) == [bytes |-> <<seed, fid, x, FALSE>>, upper |-> TRUE]

\* Output x as GenerateRemainingKeys has it, the bytes of its native words.
DerivedBytes(seed, fid, x) == <<seed, fid, x, TRUE>>

\* ConvertKeyIvToString
TextOf(bytes) == [bytes |-> bytes, upper |-> FALSE]

\* PMC data and the meta header look for their file when they need it.
NeedsFile ==
    IF stream = 1 /\ plan[job].kind # "metaheader" THEN generate[job] ELSE Absent(File)

\* Mutant: key 0 is taken over even if there is none.
WithFirstKeyUnchecked(list, key0) == [list EXCEPT ![1] = [bytes |-> key0, upper |-> TRUE]]

WithFirstKey(list, key0) ==
    IF key0 = Null THEN list ELSE [list EXCEPT ![1] = [bytes |-> key0, upper |-> TRUE]]

\* GenerateEncryptionKeyFile: a pair per block and one more, from a new seed;
\* key 0 is that of the key source if it is known, else what the context holds.
GenerateKeyFile ==
    LET key0 == IF key0Of[Source] # Null THEN key0Of[Source] ELSE ctx.aesKey
        pair == [x \in 1 .. Pairs |-> GeneratedText(fresh, fresh, x - 1)]
    IN  /\ At("file") /\ NeedsFile /\ Absent(File)
        /\ disk' = [f \in DOMAIN disk \cup {File} |->
              IF f # File THEN disk[f]
              ELSE [keys |-> WithFirstKey(pair, key0), ivs |-> pair,
                    seed |-> NoSeed, fid |-> NoSeed, fidFirst |-> FALSE]]
        /\ ctx' = [ctx EXCEPT !.aesKey = key0, !.seed = fresh, !.fid = fresh]
        /\ fresh' = fresh + 1
        /\ Go("read")
        /\ UNCHANGED <<plan, generate, blocksList, usedFiles, key0Of, aesKeyVec,
                       aesIvVec, seen, cipher>>

\* "File already exists": it was missing when the BIF was read.
KeyFileExists ==
    /\ At("file") /\ NeedsFile /\ ~Absent(File)
    /\ Fail("error")

\* What the reading of f leaves in the context: what the file does not have
\* keeps the value of the file before.
ContextAfter(f) ==
    [aesKey |-> IF f.keys # <<>> THEN f.keys[1].bytes ELSE ctx.aesKey,
     aesIv |-> IF f.ivs # <<>> THEN f.ivs[1].bytes ELSE ctx.aesIv,
     seed |-> IF f.seed # NoSeed THEN f.seed ELSE ctx.seed,
     fid |-> IF f.fid # NoSeed THEN f.fid ELSE ctx.fid,
     seedExists |-> ctx.seedExists \/ f.seed # NoSeed,
     fidExists |-> ctx.fidExists \/ f.fid # NoSeed]

\* CheckForSameAesKeyFiles, the checks at the end of a line of the file, and
\* CheckForBadKeyandKeySrcPair.
KeyFileRefused(f, after) ==
    \/ File \in usedFiles
    \/ after.seedExists /\ (Len(f.keys) > 1 \/ Len(f.ivs) > 1)
    \/ after.fidExists /\ ~after.seedExists
    \/ f.fid # NoSeed /\ f.fidFirst /\ ~ctx.seedExists
    \/ key0Of[Source] # Null /\ after.aesKey # Null /\ key0Of[Source] # after.aesKey

KeyFileThere == At("read") \/ (At("file") /\ ~NeedsFile)

ReadKeyFile ==
    LET f == disk[File]
        after == ContextAfter(f)
    IN  /\ KeyFileThere
        /\ ~KeyFileRefused(f, after) /\ after.aesKey # Null
        /\ usedFiles' = usedFiles \cup {File}
        /\ ctx' = after
        /\ aesKeyVec' = f.keys /\ aesIvVec' = f.ivs
        /\ key0Of' = [key0Of EXCEPT ![Source] = after.aesKey]
        /\ Go("pairs")
        /\ UNCHANGED <<inputs, blocksList, seen, fresh, cipher>>

RefuseKeyFile ==
    /\ KeyFileThere
    /\ KeyFileRefused(disk[File], ContextAfter(disk[File]))
    /\ Fail("error")

\* The key that is copied to aesKeyandKeySrc is a null pointer: no file of the
\* image has had a key yet.
NoKeyToCopy ==
    /\ KeyFileThere
    /\ ~KeyFileRefused(disk[File], ContextAfter(disk[File]))
    /\ ContextAfter(disk[File]).aesKey = Null
    /\ Fail("crashed")

-----------------------------------------------------------------------------
(* The key/IV pairs.                                                       *)

FirstOf(v) == [x \in 1 .. Lesser(Pairs, Len(v)) |-> v[x]]

\* The file is taken to hold every pair.
AllGiven == ~ctx.seedExists /\ Len(aesKeyVec) # 1

\* CheckForExtraKeyIVPairs, and the pairs all come from the file.
TakePairs ==
    /\ At("pairs") /\ AllGiven
    /\ Len(aesKeyVec) >= Pairs /\ Len(aesIvVec) >= Pairs
    /\ aesKeyVec' = FirstOf(aesKeyVec) /\ aesIvVec' = FirstOf(aesIvVec)
    /\ Go("repeats")
    /\ UNCHANGED <<inputs, blocksList, usedFiles, key0Of, ctx, seen, fresh, cipher>>

\* "less keys than the number of blocks", or IVs; or no IV 0 to derive from.
TooFewPairs ==
    /\ At("pairs")
    /\ \/ AllGiven /\ (Len(aesKeyVec) < Pairs \/ Len(aesIvVec) < Pairs)
       \/ ~AllGiven /\ ctx.aesIv = Null /\ ~ctx.seedExists
    /\ Fail("error")

\* A file without a key takes that of the context, as the bytes of its words.
BorrowedKey == TextOf(Swapped(ctx.aesKey))

\* GenerateRemainingKeys: the missing pairs are outputs of the KDF, from the
\* first on.
DerivePairs ==
    LET keyVec  == IF aesKeyVec = <<>> THEN <<BorrowedKey>> ELSE FirstOf(aesKeyVec)
        ivVec   == FirstOf(aesIvVec)
        blocks  == IF ivVec = <<>> THEN Pairs ELSE Pairs - 1
        seed    == IF ctx.seed = NoSeed THEN fresh ELSE ctx.seed
        fid     == IF ctx.fid = NoSeed THEN fresh ELSE ctx.fid
        Fill(v) == [x \in 1 .. Lesser(Len(v) + blocks, Pairs) |->
                       IF x \in DOMAIN v THEN v[x]
                       ELSE TextOf(DerivedBytes(seed, fid, x - Len(v) - 1))]
    IN  /\ At("pairs") /\ ~AllGiven
        /\ ctx.aesIv # Null \/ ctx.seedExists
        /\ aesKeyVec' = Fill(keyVec) /\ aesIvVec' = Fill(ivVec)
        /\ ctx' = [ctx EXCEPT !.seed = seed, !.fid = fid,
                              !.aesIv = IF @ = Null THEN DerivedBytes(seed, fid, 0) ELSE @]
        /\ fresh' = IF NoSeed \in {ctx.seed, ctx.fid} THEN fresh + 1 ELSE fresh
        /\ Go("repeats")
        /\ UNCHANGED <<inputs, blocksList, usedFiles, key0Of, seen, cipher>>

\* MakeKeyIvPairId
Pair(i) == <<aesKeyVec[i], aesIvVec[i]>>

\* The key and the IV that two texts stand for.
BytesOf(pair) == <<pair[1].bytes, pair[2].bytes>>

\* PackNextKey, PackNextIv
PairBytes(i) == BytesOf(Pair(i))

\* Mutant: only pairs of one file are compared.
RepeatedInFile ==
    \E i, k \in DOMAIN aesKeyVec : i < k /\ Pair(i) = Pair(k)

\* The texts of a pair occur twice, in this file or in one before.
Repeated ==
    \/ \E i, k \in DOMAIN aesKeyVec : i < k /\ Pair(i) = Pair(k)
    \/ \E i \in DOMAIN aesKeyVec : Pair(i) \in seen

\* CheckForRepeatedKeyIVPairs
PairsRefused == Len(aesKeyVec) # Len(aesIvVec) \/ Repeated

CheckPairs ==
    /\ At("repeats") /\ ~PairsRefused
    /\ seen' = seen \cup {Pair(i) : i \in DOMAIN aesKeyVec}
    /\ Go("header")
    /\ UNCHANGED <<inputs, blocksList, usedFiles, key0Of, ctx, aesKeyVec, aesIvVec,
                   fresh, cipher>>

RefusePairs ==
    /\ At("repeats") /\ PairsRefused
    /\ Fail("error")

-----------------------------------------------------------------------------
(* Encryption of the blocks.                                               *)

\* Mutant: the size of the block itself is carried once more.
WordsToComeLate(next) == nextBlkSize \div WordBytes

\* The size that a record carries for the one after it.
WordsToCome(next) == next \div WordBytes

\* The next record, under the pair given, which should be the i-th of those checked.
AddRecord(pair, i, from, size, after, next) ==
    /\ records' = Append(records,
          [job |-> job, stream |-> stream, key |-> pair[1], iv |-> pair[2],
           from |-> from, size |-> size, nextKey |-> after[1], nextIv |-> after[2],
           nextWords |-> WordsToCome(next)])
    /\ offList' = IF i \in DOMAIN aesKeyVec /\ pair = PairBytes(i) THEN offList
                  ELSE offList \cup {Len(records) + 1}
    /\ nextBlkSize' = next

\* The secure header carries the first pair of the blocks and the words of the
\* first block.
EncryptHeader ==
    /\ At("header")
    /\ AddRecord(<<ctx.aesKey, ctx.aesIv>>, 1, 0, 0, PairBytes(2),
                 Lesser(blocksList[1], InLen))
    /\ bytesWritten' = 0 /\ blkPtr' = 1
    /\ Go("block")
    /\ UNCHANGED <<inputs, blocksList, keys>>

\* The block that is encrypted now ends outside the data.
Outside == bytesWritten + nextBlkSize > InLen

\* Mutant: a block that ends past the data is not cut.
NextSizeUncut(written) ==
    IF blkPtr < Len(blocksList) THEN blocksList[blkPtr + 1] ELSE InLen - written

\* The size of the block after this one: the next of the list, cut to what is
\* left; the sum is a uint32_t.
NextSize(written) ==
    LET next == IF blkPtr < Len(blocksList) THEN blocksList[blkPtr + 1] ELSE InLen - written
    IN  IF (next + written) % WordModulus > InLen THEN InLen - written ELSE next

\* Mutant: the pair of the block itself is carried once more.
PairAfterStale(next) ==
    IF next = 0 THEN <<ZeroKey, ZeroKey>> ELSE PairBytes(blkPtr + 1)

\* The pair of the block after this one; none after the last.
PairAfter(next) == IF next = 0 THEN <<ZeroKey, ZeroKey>> ELSE PairBytes(blkPtr + 2)

\* The pair the next block takes is not there.
PairMissing(next) == next # 0 /\ blkPtr + 2 > Len(aesKeyVec)

EncryptBlock ==
    LET written == bytesWritten + nextBlkSize
        next    == NextSize(written)
        before  == Last(records)
    IN  /\ At("block") /\ bytesWritten < InLen
        /\ ~Outside /\ ~PairMissing(next)
        /\ AddRecord(<<before.nextKey, before.nextIv>>, blkPtr + 1, bytesWritten,
                     nextBlkSize, PairAfter(next), next)
        /\ bytesWritten' = written /\ blkPtr' = blkPtr + 1
        /\ UNCHANGED <<inputs, position, blocksList, keys, chunks, status>>

\* The data is read, or a pair taken, from beyond its end.
Overrun ==
    /\ At("block") /\ bytesWritten < InLen
    /\ Outside \/ PairMissing(NextSize(bytesWritten + nextBlkSize))
    /\ Fail("crashed")

\* What was set aside for the cipher text of a part.
Estimated == InLen + Pairs * Overhead

Actual == InLen + blkPtr * Overhead

\* "Encryption buffer allocation error", "Buffer overflow": the meta header must
\* fill what was set aside, the parts of a bootloader with PMC data must fit.
LengthRefused ==
    \/ plan[job].kind = "metaheader" /\ Actual # Estimated
    \/ Len(plan[job].lengths) = 2 /\ Actual > Estimated

EndStream ==
    /\ At("block") /\ bytesWritten >= InLen /\ ~LengthRefused
    /\ Go("hash")
    /\ UNCHANGED <<inputs, blocksList, keys, cipher>>

RefuseLength ==
    /\ At("block") /\ bytesWritten >= InLen /\ LengthRefused
    /\ Fail("error")

\* The PMC data behind the bootloader has a key file of its own; the context is
\* cleared but for the list of blocks.
StartPmcData ==
    /\ At("hash") /\ plan[job].encrypted /\ stream < Len(plan[job].lengths)
    /\ stream' = stream + 1
    /\ phase' = "file"
    /\ ctx' = FreshContext
    /\ UNCHANGED <<inputs, job, blocksList, usedFiles, key0Of, aesKeyVec, aesIvVec,
                   seen, fresh, cipher, chunks, status>>

-----------------------------------------------------------------------------
(* Hashing, and the next partition.                                        *)

RecordsOf(j) == {i \in DOMAIN records : records[i].job = j}

\* Section::Length once partition j is encrypted.
SecuredLength(j) == Total(plan[j].lengths) + Cardinality(RecordsOf(j)) * Overhead

\* Bytes of data in a chunk.
HashedChunk == SecureChunk - HashLength

\* Mutant: the secure header is not added to the first chunk.
ChunkSizesNoHeader(j) ==
    LET count == RoundedUp(SecuredLength(j), HashedChunk)
    IN  [c \in 1 .. count |->
            IF c < count THEN HashedChunk ELSE SecuredLength(j) - (count - 1) * HashedChunk]

\* GetTotalDataChunks: all chunks but the last are full, and the secure header
\* comes on top of the first.
ChunkSizes(j) ==
    LET secured   == IF plan[j].encrypted THEN Overhead ELSE 0
        chunkedOn == SecuredLength(j) - secured
        count     == RoundedUp(chunkedOn, HashedChunk)
    IN  [c \in 1 .. count |->
            (IF c < count THEN HashedChunk ELSE chunkedOn - (count - 1) * HashedChunk)
            + (IF c = 1 THEN secured ELSE 0)]

Hashed(j) ==
    /\ plan[j].kind = "partition"
    /\ plan[j].authentication = "signed" \/ plan[j].checksum

NextJob ==
    /\ At("hash")
    /\ plan[job].encrypted => stream = Len(plan[job].lengths)
    /\ chunks' = [chunks EXCEPT ![job] = IF Hashed(job) THEN ChunkSizes(job) ELSE <<>>]
    /\ IF job = Len(plan)
       THEN status' = "done" /\ UNCHANGED <<position, ctx>>
       ELSE /\ job' = job + 1 /\ stream' = 1 /\ phase' = "start"
            /\ ctx' = IF plan[job + 1].image = plan[job].image THEN ctx ELSE FreshContext
            /\ status' = status
    /\ UNCHANGED <<inputs, blocksList, usedFiles, key0Of, aesKeyVec, aesIvVec, seen,
                   fresh, cipher>>

ReadKeys ==
    GenerateKeyFile \/ KeyFileExists \/ ReadKeyFile \/ RefuseKeyFile \/ NoKeyToCopy

PreparePairs == TakePairs \/ TooFewPairs \/ DerivePairs \/ CheckPairs \/ RefusePairs

Encrypt == EncryptHeader \/ EncryptBlock \/ Overrun \/ EndStream \/ RefuseLength

Next ==
    \/ RefuseBlocks \/ StartJob \/ ReadKeys \/ PreparePairs \/ Encrypt
    \/ StartPmcData \/ NextJob

Spec == Init /\ [][Next]_vars

-----------------------------------------------------------------------------
KeyRollingTypeOK ==
    /\ job \in DOMAIN plan
    /\ stream \in DOMAIN plan[job].lengths
    /\ phase \in {"start", "file", "read", "pairs", "repeats", "header", "block", "hash"}
    /\ IsDisk(disk)
    /\ blocksList \in Seq(Nat)
    /\ usedFiles \subseteq Files
    /\ key0Of \in [Sources -> KeyBytes \cup {Null}]
    /\ ctx.aesKey \in KeyBytes \cup {Null} /\ ctx.aesIv \in KeyBytes \cup {Null}
    /\ aesKeyVec \in Seq(KeyTexts) /\ aesIvVec \in Seq(KeyTexts)
    /\ fresh \in Nat /\ blkPtr \in Nat /\ bytesWritten \in Nat /\ nextBlkSize \in Nat
    /\ status \in {"building", "done", "error", "crashed"}

RecordPair(i) == <<records[i].key, records[i].iv>>

\* Some block of the list is empty or past what 32 bits hold.
SomeMisfit ==
    \E j \in DOMAIN plan :
        plan[j].encrypted /\ plan[j].kind # "bootloader" /\ Misfit(j)

\* The file of partition j leaves the key or the IV to the context, which holds
\* that of an earlier partition of the image.
Borrows(j) ==
    /\ ~Absent(plan[j].files[1])
    /\ <<>> \in {disk[plan[j].files[1]].keys, disk[plan[j].files[1]].ivs}
    /\ \E i \in 1 .. (j - 1) : plan[i].image = plan[j].image

\* The pair has passed the check in two spellings.
SpelledTwice(pair) == \E p, q \in seen : p # q /\ BytesOf(p) = pair /\ BytesOf(q) = pair

\* No pair that has been checked against repetition is used for two of the secure
\* headers and blocks of the boot image, unless key files spell it in different
\* cases: the check compares their digits as they are written.
CheckedPairsUsedOnce ==
    \A i, k \in DOMAIN records \ offList :
        i < k => RecordPair(i) # RecordPair(k) \/ SpelledTwice(RecordPair(i))

\* Only the checked pairs are used, unless a key file without a key or an IV follows
\* another of the same image, or a block is left with no room.  Of a key that is taken
\* from the file before, the bytes that are checked are not those that encrypt.
OnlyCheckedPairs ==
    \/ offList = {} \/ SomeMisfit
    \/ \E j \in DOMAIN plan : plan[j].encrypted /\ Borrows(j)

PartRecords(j, p) == {i \in RecordsOf(j) : records[i].stream = p}

\* Record i gives its pair and its size to the one after it, which takes up where
\* i ends.
Chained(i) ==
    /\ records[i + 1].key = records[i].nextKey
    /\ records[i + 1].iv = records[i].nextIv
    /\ records[i + 1].size = records[i].nextWords * WordBytes
    /\ records[i + 1].from = records[i].from + records[i].size
    /\ records[i].nextWords # 0

\* A device that follows the chain from the secure header on, until a size of 0 ends
\* it, finds all of the data.
Recovered(own, length) ==
    /\ own # {}
    /\ \A i \in own : IF i + 1 \in own THEN Chained(i)
                     ELSE /\ records[i].from + records[i].size = length
                          /\ records[i].nextWords = 0

\* A part that is fully encrypted can be recovered by following the chain of pairs
\* and sizes.
ReceiverRecovers ==
    \A j \in 1 .. job : plan[j].encrypted => \A p \in DOMAIN plan[j].lengths :
        (j < job \/ p < stream \/ (p = stream /\ phase = "hash")) =>
            Misfit(j) \/ Recovered(PartRecords(j, p), plan[j].lengths[p])

\* Neither data nor pairs are taken from beyond their end, and the cipher text has
\* the size that was set aside for it.
NeverOverrun ==
    SomeMisfit \/ phase # "block" \/
        IF bytesWritten < InLen
        THEN ~Outside /\ ~PairMissing(NextSize(bytesWritten + nextBlkSize))
        ELSE Actual <= Estimated /\ ~LengthRefused

\* Bytes of cipher text up to the end of record i of partition j.
CipherEnd(j, i) ==
    records[i].from + records[i].size + Cardinality({k \in RecordsOf(j) : k <= i}) * Overhead

\* A hashed chunk of a signed partition ends where a block ends, so a device that
\* has checked a chunk can decrypt all of it; and it is no larger than a device
\* buffers: the data, the hash of the next chunk, and once the secure header.
ChunksHoldWholeBlocks ==
    \A j \in DOMAIN plan : plan[j].encrypted /\ Signed(j) /\ ~Misfit(j) =>
        \A c \in DOMAIN chunks[j] :
            /\ \E i \in RecordsOf(j) : Sums(chunks[j])[c] = CipherEnd(j, i)
            /\ chunks[j][c] + HashLength <= SecureChunk + (IF c = 1 THEN Overhead ELSE 0)

=============================================================================
