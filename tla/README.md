# Bootgen: a TLA+ model of its core

Bootgen reads a BIF description and a set of inputs (ELF, bitstream, CDO, raw
data, keys) and writes a boot image for Zynq-7000, Zynq UltraScale+, Versal and
their successors. It is a batch program of about 200 000 lines, much of it
cloned once per architecture. Its own logic, as opposed to hashing, field
population and parsing, is in a few places: where the sections of an image go,
how they are written to one or several files, how the blocks of an encrypted
partition get their keys and fit the chunks it is hashed in, how the configuration
of several SLRs is interleaved, how the one-time indices of an LMS key are spent
by several threads and several runs, and how the trees of such a key are rebuilt
while it signs. This directory models those places.

## Inventory

| Component | State | Operations | What makes it hard | What makes it correct |
|---|---|---|---|---|
| Section layout (`common/src/binary.cpp`, `versal/src/binary-versal.cpp`) | section list, `runningAddress`, `reservedAddress`, `TotalSize`, header sizes in Options | `StackAndAlign` | offsets, alignments, reservations and continuations mix; 32-bit masks on 64-bit addresses | no two sections share a byte, reservations stay free, an error only for a real conflict |
| Output loop (`common/src/outputfile.cpp`, `versal/src/outputfile-versal.cpp`) | current file, `splitOffset`, its own running address | `Output`, `ProcessSplitMode`, `ProcessSplitSlaveBootMode`, `WritePostscriptAndClose` | order of filling and switching files | agrees with the layout; header offsets are positions in the files |
| BIN files (`common/src/binfile.cpp`) | two streams | `Open`, `Fill`, `Write`, `Close` | striping and the boundary of two flash devices | every byte where the device reads it |
| MCS files (`common/src/mcsfile.cpp`) | streams, `pageAddress` (per split file), loop bounds | the same, in records | pages, shifted addresses, unsigned loop bounds | programming the records gives the image back |
| SSIT configuration (`versal/src/imageheadertable-versal.cpp`) | per SLR: cursor, sync points, eof; three global sync counters | `CreateSlrConfigPartition`, `GetActualChunkSize`, `FindCurrentSyncPoint`, `CheckSyncPointInChunk` | SLRs wait for one another and for the master | nobody runs past a sync point; all is sent; the loop ends |
| LMS key state (`lms-hash-sigs/lms_sign.c`, `hss_reserve.c`) | index in the key file, cache of working keys per process | `LmsSign`, `hss_advance_count`, `update_private_key` | crashes, failed writes, several processes, one key under several names | no index signs twice |
| HSS thread pool (`lms-hash-sigs/hss_thread_pthread.c`) | slots, queue, two mutexes | init, issue, worker, done | threads exit while work arrives; the lock is given up to join | each request carried out once, done returns |
| HSS working key (`hss_sign.c`, `hss_generate.c`, `hss_alloc.c`) | ACTIVE, BUILDING, NEXT subtree per level, identities of the trees, turn of each upper tree | generate, sign, step | amortised building, jobs in any order, a data race on `current_index` | a subtree is complete when it becomes active; each count is signed by the leaves it determines |
| Orchestration (`common/src/main.cpp`, `bootimage.cpp`) | options, list of images | `Process`, `BuildAndLink`, `Output` | order of phases, images built from images | phases in order, modes restored |
| Header tables (Zynq, ZynqMP, Versal) | linked lists of headers by word offset | `Build`, `Link` | relocation in split images, relinking | a reader finds what was linked |
| Reader and verifier | positions in an image | `ReadBinaryFile`, `Verify` | mirrors the linker | reads back what was written |
| Authentication, checksums (`versal/src/partition-versal.cpp`) | certificates, chain of chunk hashes | `CreateSignature`, `ChunkifyAndHash` | chunks of hashed and encrypted data overlap | a chunk holds whole blocks |
| Encryption, KDF (`versal/src/encryption-versal.cpp`, `common/src/encryption.cpp`) | keys, IVs, blocks of a context shared by the partitions of an image; the key files | `Process`, `ChunkifyAndEncrypt`, KDF in counter mode | key files that are full, short, seeded, missing, shared; what an earlier file leaves in the context | no key/IV pair used twice; the receiver recovers the data |
| Options and parsers | option fields | setters, checks | mutual exclusions, order | conflicts reported |
| CDO tools | command sequences | load, overlay, allocate | overlay of marked sections | |
| Spartan UltraScale+, Versal Gen 2, Versal 2VP | as Versal | as Versal | near clones | as Versal |
| Primitives, logging, generated and vendored code | | | | not modelled |

`PROJECT.json` lists the components with their sources and status and the
hazards with their lines.

**Interaction.** `BIF_File::Process` fills Options; `BootImage::BuildAndLink`
builds the header and partition sections (attributes of the BIF reach `Section`
here), calls `StackAndAlign`, then `Link`, which writes the addresses into the
header tables; `OutputFile::Output` then walks the same list through the `File`
interface. Layout and writer share only the section list and the sizes left in
Options. `OutputFile` EXTENDS `SectionLayout`, and `BinFile` and `McsFile` EXTEND
`OutputFile`: a run of either goes through the layout first, so the writer only
sees layouts that the program can produce. While sections are built, a partition
authenticated with LMS calls `LmsSign` (`LmsKeyStore`), which loads and steps
Merkle trees (`HssTrees`) through the thread pool (`HssThreadPool`). On Versal the
length of a section is only known once its partition has been encrypted in blocks
and hashed in chunks (`KeyRolling`), the layout has two passes (`VersalLayout`),
and the meta header is encrypted after the addresses have been linked; `VersalImage`
composes the three in the order of `VersalBootImage::BuildAndLink`. For an SSIT device the
configuration images of the slaves are built first, each by a complete pass,
and `SsitConfig` then joins them.

Bootgen is one thread, except inside the LMS library. `LOG_ERROR` prints and
throws: the run ends. Concurrency is thus the thread pool, and several runs of
bootgen on one key file.

## Modules

| Module | Models | Notes |
|---|---|---|
| `SectionLayout` | `Binary::StackAndAlign` | one action per section of the loop (`StackSection`), the overlap error, the end |
| `OutputFile` | `OutputFile::Output`, the split by partition and the slave boot split | the loop makes calls of the `File` interface; `call` is the one in progress |
| `BinFile` | `BinFile` | a call is one step; a file is the bytes at their positions |
| `McsFile` | `McsFile` | one step per record written, so that pages and bounds change between records |
| `KeyRolling` | key files and block sizes of a Versal image, `VersalEncryptionContext::Process`, `ChunkifyAndEncrypt`, `ChunkifyAndHash` | one step per key file, per encrypted record, per chunk |
| `VersalLayout` | `VersalBinary::StackAndAlign`, `SetPartitionWordOffset`, `OutputFile::OutputVersal` | one step per section of each loop |
| `VersalImage` | `VersalBootImage::BuildAndLink`, `VersalPartition::Build` | EXTENDS the two: sections are made from what `KeyRolling` has built |
| `SsitConfig` | `CreateSlrConfigPartition` | one step per SLR and round; a slave PDI is partitions and sync addresses |
| `LmsKeyStore` | `LmsSign`, the key cache, `hss_advance_count` | one step between any two points where a crash or a failure differs |
| `OneTimeIndices` | what `LmsKeyStore` promises | abstract |
| `HssThreadPool` | `hss_thread_pthread.c` | a step is a critical section or touches one thread's data |
| `WorkBatch` | what `HssThreadPool` promises | abstract |
| `HssTrees` | `hss_generate_working_key`, `hss_generate_signature` and its jobs | a job is one step, and so is the exchange of trees when all are done |
| `HssSignatures` | what `HssTrees` promises | abstract |
| `OutputFileProofs` (and of `SectionLayout`), `BinFileProofs`, `McsFileProofs`, `VersalImageProofs` (and of `VersalLayout` and `KeyRolling`), `SsitConfigProofs`, `LmsKeyStoreProofs`, `HssThreadPoolProofs`, `HssTreesProofs` | theorems | |
| `MC*` | instances for TLC | |

Correspondence of state, where the names differ from the source:

* `SectionLayout`: `running` and `reserved` are the locals `runningAddress` and
  `reservedAddress`; `sizes` holds the header sizes kept in Options
  (`SetAllHeaderSize` and the like). `wrapped` is history: an alignment mask has
  cut an address. `BitAnd` is the C operator; the model states what is assumed of
  it. A section whose `Address` is not zero on entry has an `[offset]`.
* `OutputFile`: `written` is the loop's own `runningAddress`, `file` the target
  of the next call, `phase` where the program is; `toSplit` are the sections that
  `ProcessSplitMode` gives a file of their own.
* `McsFile`: `lineAddress`, `endAddress`, `pageAddress`, `filePageAddr`,
  `newFile`, `eofrWritten` are the source's. A record is kept as the bytes it
  puts at addresses. `LineLength` and `PageSize` are 16 and 65536 in the source.
* `SsitConfig`: `common`, `current`, `last` are `common_sync_point`,
  `current_sync_point`, `last_sync_point`; `AllEnded` is 0xFFFFFFFF; `index` and
  `inPart` are `partition_index` and `partition_offset`. `master` is the number of
  parts the sync points cut the master CDO into, 0 when there is no master. The
  test of the total of bytes is `BytesLeft`.
* `LmsKeyStore`: `disk[f]` is the index in the key file, `Expired` a trashed key;
  an entry's `reserve` is `reserve_count`, which agrees with the copy of the
  private key it wrote last; `issued` counts the signatures made with each index.
* `HssThreadPool`: `at[t]` is the point thread t is at; `word[t]` is what it has
  read of the caller's buffer before storing its result.
* `HssTrees`: levels and subtrees count from 1, from 0 in the source. I and seed of a
  tree are one name, the leaves that lead to it, since the source derives both from
  the parent's and a leaf; `Unset` is what the top tree has in `I_next`. `made` is
  history: the tree, first leaf and number of leaves that the nodes of a subtree have
  been computed from (`Mixed` if they are not neighbours in one tree). Each job of a
  signature has a subtree of its own, so a job is one step; that the pool carries out
  each job once, in any order, and that done waits for all, is `WorkBatch`. The one
  variable that two jobs' owners share is `current_index` of the bottom tree: `Issue`
  reads it while the signing job may or may not have run. Stacks are left out, since a
  node is built from consecutive leaves or not at all.
* `KeyRolling`: a key or IV is a literal of a file or an output of the KDF, named by
  seed, fixed data and number, and by the order of the bytes in its words: the native
  words of a key and its big-endian bytes are two keys (`Swapped`). The vectors of
  `Process`, the files and the checks hold texts, that is such bytes and whether their
  hex digits are upper case; encryption takes the bytes (`PairBytes`). `ctx` is the
  encryption context with what outlives a key file; `records` lists the secure headers and blocks with the pairs that encrypted
  them, `offList` is history: those not under the pair checked for them. `disk` is the
  directory.
* `VersalLayout`: `stage` follows `BuildAndLink`: `visited` are the sections that the
  loop in progress has handled, `linked` the addresses in the headers, `file` the
  pieces appended to the file, fill included. Addresses have 64 bits, the masks that
  align them and most header fields 32 (`MaskModulus`): `AlignTo` keeps what the C
  expression keeps, `Link` what the field holds (`LinkModulus`). `folded` is history:
  the sections at which an address has lost bits.

## Runs

Every run is a configuration of an MC module. All bounds are in the `.cfg` files.

| Run | Shows |
|---|---|
| `section_layout` | lists of three sections with every mix of two lengths, three offsets, three reservations, two alignments and continuations: sections disjoint, reservations kept, the error justified, `TotalSize` covers everything |
| `section_layout_wide` (violation) | with an offset beyond the 32-bit range the mask `~(A-1)` clears the upper half of the address and a later section is accepted on top of an earlier one (`binary.cpp:98`) |
| `bin_file` | four sections; plain, parallel, stacked, split by partition and slave boot split: every byte at its place at every step (`BytesAtHome`), device sizes, the writer never sees an address go backwards, split offsets are file positions |
| `mcs_file` | the same images as records, with and without `-fill`: the programmed image reads back, no record astray at any time, fill stays in gaps and files end once but in a slave boot split, the loop ends |
| `mcs_stacked` (violation) | a section across the boundary of the first device loses its last bytes: the end is recomputed from a length that has already been reduced (`mcsfile.cpp:219`); with a short rest the unsigned difference wraps and the loop does not end |
| `mcs_split_fill` (violation) | with `-fill` the start of a gap is moved by the file's offset and the end is not, so fill covers sections (`mcsfile.cpp:140`) |
| `ssit_config` | three slaves with up to two sync points anywhere, master with up to three parts or absent: no chunk passes a sync point early, the master's parts come in step, and with matching sync points all is sent and the loop ends |
| `lms_key_store` | two processes, one key of four indices under three names, crashes, failed writes, restarts, with and without automatic reservation: no index twice, the file covers what was signed, no index wasted without a fault, `OneTimeIndices` implemented |
| `hss_thread_pool` | three threads, five requests, every interleaving and every failure of malloc or `pthread_create`: queued work is served, counts agree, joins are right, `WorkBatch` implemented, done returns |
| `hss_trees` | keys of one, two and three levels, every subtree size of the bottom tree, loaded at every count and signed with to the end, jobs in every order: the ACTIVE subtrees are always whole and of the right tree (`ActiveComplete`), an upper tree has had all its updates when it signs again (`UpdatesSuffice`), every signature is that of its count (`HssSignatures`) |
| `hss_trees_high_top` (violation) | an H10 tree over H5 trees loaded at an index of 31: `hss_generate_working_key` tests the wrong tree's `max_index` (`hss_generate.c:376`) and derives the next tree from values that were never set; a leaf of the H10 tree then signs a tree that no later load derives |
| `versal_image` | Versal images from BIF to file, with the sizes of the source: no checked key/IV pair twice unless it is spelled in two ways, none unchecked unless a key file borrows a key or IV, every block decrypts with what the one before it carried, blocks never outrun the data and fill whole chunks, sections apart unless a 32-bit mask has cut an address, the writer never goes backwards, sections are found where they are linked |

**Why the bounds are enough.**

* Layout: 5-bit words and 6-bit addresses make the 32/64-bit difference visible.
  An interaction of attributes involves an earlier section that sets `running` or
  `reserved` and a later one that meets it; three sections give both and one in
  between. The safety is proved for any number.
* Files: a device of 16 bytes, sections of 2 and 6 bytes and an offset past the
  boundary put a section before, on, across and behind it, and gaps likewise.
  Lines of 2 and pages of 8 bytes give records that are whole, short and stopped
  by a page, pages skipped by a gap, and page changes between split files. Four
  sections allow one in each file of a split. Lengths are even because sections
  are padded to words before they get to the writer.
* SSIT: chunks of 2 bytes, PDIs of 4; one shape has a chunk with two sync points
  in the middle of the PDI (a jump by two), the other a security chunk and three
  chunks before its end (lagging slaves). With three slaves one may wait while two
  differ. Shape and sync addresses of each slave are chosen freely.
* Keys: four indices include the first, an inner, the last-but-one (the
  reservation is clipped) and the last one (the key is trashed). Two processes and
  three names give stale entries within and across processes. Symmetry is not used.
* Trees: 5 is the least height of the source; with its four subtree sizes a bottom tree
  has one, two or three subtrees and gives 4 to 32 updates. Starting at every count
  covers each position of a loaded subtree, and running to the last signature each
  exchange. H5/H5 has two levels; trees of heights 3 and 4 stand for the higher ones
  where three levels, or a lower tree above a higher one, would be too large:
  updates pass through a middle tree, whose NEXT subtrees only exist with three.
  `UpdatesToSpare` checks for all heights of the source that the sizes `hss_alloc` takes
  give more updates than are needed. The violation has real heights and starts near
  the count that shows it.
* Versal: chunks of 32768 bytes, hashes of 48, overheads of 64 and a 20-bit word; addresses
  are cut to 18 bits where the source has 32, which is above every address of an image
  without an `[offset]` of that size. The inputs come in six groups. `BlockInputs`: one partition with block sizes on both
  sides of what fits a chunk with and without a hash. `Several`: a bootloader (with and
  without PMC data), a partition and the meta header, each key file full, of one
  pair, seeded, seeded without IV, or missing. `Segments`: two partitions of one image
  and one of another under the same choices. `Booting` and `Partial`: placement,
  with and without a bootloader, SMAP words, certificates, checksums, offsets,
  alignments, reservations and a continuation.
  `Segments` also has a file that repeats the pairs of another in capitals, files
  without a key 0, and fixed input data in front of the seed. `Far`: offsets at, before
  and across the address that the masks cut. These exceptions in the properties are
  thus met by the run, and so is what they are there for: without them TLC finds a pair
  used twice, a pair unchecked, a partition placed over the headers and a header that
  points elsewhere. `FrontUncut` in `NeverBackwards` is not met: it takes a boot header
  that ends within its SMAP words of 4 GB, which only the theorem has to exclude.
* Pool: five requests on three threads fill the pool, the queue, and reuse slots
  of dead threads. `NumThreads` is at least 2 since `hss_thread_init` makes no pool
  for less.

**Deadlock.** `CHECK_DEADLOCK FALSE` is set where the program ends: layout, files
and `SsitConfig`. The pool has a `Finished` step instead, so that a real deadlock of
its threads is reported, and so have `VersalImage` (`Ended`) and `HssTrees`
(`Expired`); the key store never ends.

**Fairness.** `McsFairSpec` and `SsitConfig!FairSpec`: a single thread is not kept
from its next step. `HssThreadPool!FairSpec`: weak fairness of the caller and of
each worker, that is, the operating system runs every thread that can run and
grants a mutex that stays free. Failures are never required to happen. The key
store has no liveness property: nothing promises that a signature comes out.

## Proofs

Checked by TLAPS, for all values of the constants under the assumptions that the
modules name; TLC evaluates those assumptions on every run. Each safety theorem
has the same shape: an invariant stronger than the property, with one lemma per
part and one case per action, and a last step that reads the property off it.

* **`OutputFileProofs`**, about `SectionLayout` and the loop that writes a layout.
  - `TypeCorrect`, `LayoutSafe` (`SectionsDisjoint`), `ReservesKept`,
    `ErrorsJustified`, `TotalCovers`. From `SizeAssumption`,
    `AttributeAssumption`, `AlignmentAssumption` and `BitAndAssumption` (and with a
    mask clears less than A of a 32-bit word; TLC evaluates it for the real operator).
    Disjointness is not inductive: the invariant adds that every placed section ends
    at or before `running`, and that its reservation ends at or before `reserved`,
    while nothing has wrapped (`Frontier`); `ErrorIsJustified` needs the converse,
    that each of the two is the end of something placed, with its padding
    (`Origins`). `AlignUpBound` says that aligning up moves an address by less than A;
    `PlacePreserves` is the step, for a section placed anywhere at or after `Start`.
  - `OutputKeepsLayout`, `Forward` (`NeverBackwards`). The loop over any
    implementation of `File` is `OutputSpec`; its behaviours are behaviours of the
    layout, so the theorems above apply, and `OutputInv` says that `written` is at
    most the start of every section not yet written.
* **`BinFileProofs`** `BinRunsLoop` (the BIN writer refines that loop), `BinForward`,
  `DeviceSizesHold`, `BytesHome`, `SplitHolds`. `BytesAtHome` says two things at every
  step: a byte in a file belongs there (`Sound`) and what has been written is there
  (`Complete`). Both rest on what the call in progress has still to write and on the
  size of the files. In the parallel mode the hypothesis `EvenImage` is needed: an odd
  number of bytes is not divided without loss, and the source pads sections to words.
  For the slave boot split the invariant joins the linker's and the writer's views: the
  offsets that have been linked (`LinkedExactly`), which file the next section follows
  in, and how large each file is.
* **`McsFileProofs`** `McsRunsLoop`, `McsForward`, `FilesEndOnce`, `NoByteAstray`
  (`NothingAstray`), `GapsFilled` (`FillsGapsOnly`), `ImageComesBack`
  (`ImageReadBack`). A call is many records, so the invariant holds between any two:
  where the page and the line are (`PageInv`, `LineInv`), how an address in the image
  becomes one in the file (`OffsetInv`), which gap is being filled (`GapInv`). The last
  three have the hypothesis `SimpleModes`, without the stacked mode, in which
  `NothingAstray` is false (run `mcs_stacked`), and with even sections in the parallel
  modes.
* **`LmsKeyStoreProofs`** `TypeCorrect`, `OneTime` (`IndexUsedOnce`),
  `SignaturesCovered`, `NeverWrittenBack`, `NoneWasted`, `Refinement`. `IndexUsedOnce`
  needs the strengthening `Inv`: at most one process is inside `LmsSign`; an entry is
  never ahead of the file (`EntriesBehind`); an entry that would be reused holds only
  unused indices (`CurrentUnused`); of two such entries for one file at most one still
  has reserved indices (`OneReservation`); and what holds at `advance` and `sign`.
  `NoIndexWasted` needs an account of its own (`Accounted`): while nothing has failed
  and nothing is reserved, the entries that are in use stay in step with the file and
  every index below it has signed, but for the one being used. The refinement of
  `OneTimeIndices` follows from the same invariants.
* **`VersalImageProofs`**, about `KeyRolling`: `KeyRollingTyped`, `PairsUsedOnce`,
  `KeyFileIsThere`, `OnlyChecked`, `NothingOverrun`, `ChainIsComplete`, `ChunksAreWhole`.
  - `PairsUsedOnce`: the invariant says where every pair of a record came from. Pairs of
    checked files are recorded when they are checked; pairs of the file being read
    differ from one another and are not used before their turn. The check compares
    texts and the records have bytes, so each part of the invariant leaves out a pair of
    which two texts have passed (`SpelledTwice`), and that pair only. `KeyFileIsThere` says
    that a file is generated before it is read. Nothing is assumed of the KDF but that
    outputs of different seeds, fixed data or numbers differ, and differ from literals.
  - `OnlyChecked`: the pair a block is encrypted with is the one its predecessor
    carried, and that one was in the file when the file was checked (`FirstPairInv`,
    `CarriedPairInv`). The exceptions are the property's own: a file that borrows the key
    or the IV of the context, and a block size that leaves no room.
  - `NothingOverrun`, `ChainIsComplete` and `ChunksAreWhole` are about the sizes:
    the block that is cut ends where the sum of the list of blocks says (`SizesInv`);
    the records so far are a chain from the secure header on, without a gap
    (`ReceiverInv`); the records of a partition stand in a row in its cipher text and
    end where chunks end (`RowInv`, `ChunksInv`, with the lemmas `ChunkedBlocks`,
    `EndsOfChunks` and `ChunksEndWithBlocks` on the list that the source computes
    beforehand). They have the hypothesis `SizesFit`: no sum of sizes reaches
    `WordModulus`, where the source's `uint32_t` would wrap (2^32). The instance of the run satisfies it.
  - `WholeWords` is an assumption of the model: data and blocks are whole 4-byte words.
    Block sizes are checked when the BIF is read (`bifoptions.cpp:1443`), and
    partitions are padded before they are encrypted (`partition-versal.cpp:84`).
  And about `VersalLayout` and the whole image:
  - `LayoutApart` (`SectionsApart`), `LayoutForwards` (`NeverBackwards`), `LayoutFound`
    (`FoundWhereLinked`). The first pass alone does not keep the sections apart; the
    invariant is about the second: what it has visited ends at or before `running` and
    lies below everything that is still to come, given that a section does not outgrow
    its reservation (`ReservesCover`) and that no address has been cut to 32 bits
    (`folded = {}`), the hypotheses inside `SectionsApart`. Of the masks it is assumed
    that they clear less than A of a 32-bit word (`MaskAssumption`, which TLC evaluates
    for the real operator). `NeverBackwards` also holds of partitions beyond 4 GB, as
    long as what is in front stays below (`FrontUncut`) and the bootloader has no
    reservation; `FoundWhereLinked` is about images without a cut address, since
    `SetPartitionWordOffset` takes a `uint32_t`, and with gaps filled or none. The writer computes the
    addresses in front again, by rules of its own; `PlacedInv` says that it arrives at
    the linked ones.
  - `ImageRunsKeyRolling`, `ImagePairsUsedOnce`, `ImageOnlyChecked`, `ImageIsRecovered`.
    A step of the image is a step of the key rolling or leaves its variables alone, so
    the theorems about it hold of the image.
  - `ImageTyped` (`ImageTypeOK`) and `ImageLaidOut` (the three properties of the layout,
    of the image). What has to be shown is that the sections that `Build` makes are a
    list as `LayoutSpec` starts from (`SectionsBuilt`): one boot header, one bootloader
    and one certificate of it at most, no length below zero, and no attribute or length
    off the default alignment where the passes do not align. The lengths come out of the
    key rolling: a partition that is encrypted has its secure header by the time it is
    hashed (`RecordedInv`), without which the bytes to be cut into chunks would be less
    than none; so it has a chunk at least (`ChunkedInv`), and its hashes one less than
    chunks. From there on every step of the image is one of the layout, and every piece
    of the file is a section or fill bytes (`FileInv`). No hypothesis is left but
    those inside the properties and `AttributeAssumption`, what the BIF parser and `ImageHeader::Build` refuse.
* **`SsitConfigProofs`** `BarrierHolds` (`BarrierKept`), `MasterFollows`
  (`MasterInStep`), `AllSent` (`EverythingSent`), for any number of slaves, any
  partitions and any sync points. No part of the invariant stands alone: every slave
  with data left has come as far as the current sync point, which the common and the
  master's never pass (`InStep`); its cursor is what has been sent (`CursorCounts`,
  `SentIs`); and with matching sync points a slave only ends when the master has at
  most its last part left (`EndInStep`).
* **`HssThreadPoolProofs`** `PoolInvariant`, `WorkServed` (`QueuedWorkIsServed`),
  `AliveAgrees` (`AliveCounted`), `JoinsExist` (`JoinedOnce`), `OrderKept`
  (`IssueOrderKept`), `ImplementsBatchSafely` (the safety part of
  `ImplementsWorkBatch`), for any number of threads and requests. None of them is
  inductive: `PoolInv` adds where each thread is for what its slot says (`Control`),
  which dead threads have been joined (`Joining`), that `num_alive` is the number of live
  slots at every step and that all are alive while work is queued (`Counting`), that
  nobody writes between another's read and write (`Writing`), and that every request
  issued is in one place: with one thread or stored (`Carried`), else queued or pending
  (`Placed`), in order (`Queued`). `AllDone` says that at the end no place but the
  results is left. That a request is carried out only once is this invariant, not the
  refinement: `results` is a set, to which a second result would add nothing.
* **`HssTreesProofs`** `InductiveInvariant`, `ActiveAlwaysComplete` (`ActiveComplete`),
  `UpdatesAlwaysSuffice` (`UpdatesSuffice`), `SignedByCount` (`ImplementsHssSignatures`),
  for every key that `KeysAssumption` admits, every count it is loaded at and every order
  of the jobs.
  - `ActiveComplete` is not inductive, since ACTIVE becomes what BUILDING or NEXT have
    been. `IInv` says how far these are: a BUILDING subtree contains at least as many
    leaves as the signing leaf has passed in the ACTIVE one (`BuildingOK`); below some
    subtree all NEXT subtrees are done, above it none is begun, and it contains what the
    signing leaf makes due (`NextOK`, with `StepNextOf` for one step). Upper trees get
    their steps from below; `UpdatesOK` bounds their update count from below by the leaf
    of the tree under them, so that the updates suffice when that tree ends
    (`UpdatesAtEnd`). This is where `UpdatesGenerated > UpdatesRequired` is used: the race
    at `hss_sign.c:543` may cost one update of each life of a tree, and the `+ 1` of
    `UpdatesOK` allows for it.
  - When subtrees end is decided by `Count % Capacity`, which trees end by the leaves.
    `Value` is the number that the leaves write, one digit per level; `UsedUpByDigits` and
    `EndsByDigits` say what its remainders tell of the digits, and `NextValue` is the
    carry. From these, `FinishLevels` and `FinishOK` are the exchange.
  - `SignedByCount` adds an invariant about the names of the trees (`NamesOK`): `I` is
    the path of leaves above the tree, `I_next` that of the next leaf, and a link is the
    leaf and the two names. Exchanging keeps it (`PathsExchanged`, `NamesFinish`). Its
    hypothesis `LoadsInStep` is about loading only: `hss_generate_working_key` compares
    the parent's index with the child's last one, which gives the same tree as signing
    when the top tree is not higher than the next and the others are equally high. It
    cannot be dropped: `hss_trees_high_top` is a key without it. The keys of `hss_trees`
    have it (`MCKeysInStep`). The first two theorems do without.

**Recursion.** What the proofs need of a sum over a list is stated about recursive
functions (`Sums` in `KeyRolling`) and proved with the least number for which it would
fail (`UpToN`, from the well-foundedness of the natural numbers). So are the powers of
two (`Power`) and the products of tree sizes (`Capacities`) in `HssTrees`, for which the
existence of the recursive function is proved first. The library's folds, recursive
operators and the exponent have no such form; properties that depend on their values are
left to TLC.

**Only model-checked.** Liveness, that is `DoneReturns`, `Terminates` of `McsFile`,
`LoopTerminates` of `SsitConfig`, and the fairness part of `ImplementsWorkBatch`; whatever is about ENABLED;
and the violations. Every invariant that a passing run checks is a theorem, some of them
under the hypotheses named above. The type invariants of `SectionLayout`,
`LmsKeyStore` and `KeyRolling` are theorems and no longer part of a run.

## What was met on the way

Behaviour of the code that no run's property is about, for a reader of the source:

* `hss_alloc.c:291` accepts as many updates as are required, but the race at
  `hss_sign.c:543` can cost one: with as many as required a tree may sign before it is
  complete. No parameter set of the source is so close (`UpdatesToSpare`).
* After the last signature of an HSS key the lower trees are exchanged and signed once
  more by a leaf beyond the last; the key is marked expired and never signs again.
  `left_leaf` of a BUILDING subtree at the right edge is never set when a key is loaded
  there; it is compared with the number of leaves, and the subtree is not used.
* Versal with `smap_width=0`: gaps are not filled (`outputfile-versal.cpp:141`), so
  behind a gap the file is shorter than the linked addresses say; `FoundWhereLinked`
  is about the other images.
* Slave boot split: when the last section is not a partition, one file gets two
  end-of-file records and the partitions file none (`outputfile.cpp:382`).
* Versal's second pass drops the bootloader's `[reserve]`, `[offset]` and `[alignment]`,
  and may raise a continuation partition, or a partition larger than its `[reserve]`,
  past what follows; the writer then refuses the image with "Sequential addresses are
  going backwards!".
* The check for repeated pairs compares the strings of the key files
  (`encryption.cpp:541`), which keep the case they are written in
  (`encryption-versal.cpp:241`); the blocks are encrypted with the bytes (`:370`). A pair in
  upper case in one file and in lower case in another passes and encrypts twice
  (`SpelledTwice`). bootgen itself writes both: generated files are upper case (`:172`),
  derived pairs lower case (`:553`), and these have the bytes of each word swapped.
* A key file without IV 0 takes the IV 0 of the file read before it
  (`encryption-versal.cpp:994`), and one without key 0 its key. The string of that key
  that is checked is made of its native words (`:968`), so on a little-endian host it is
  in another byte order than the key that encrypts (`:106`): the pair that is used has
  not been checked, and may have been used before (`Borrows`). A first file with only a seed leaves a null key to be copied (`encryption-versal.cpp:933`).
* The passes of the Versal layout and its writer mask 64-bit addresses with a 32-bit
  value, as `Binary` does (run `section_layout_wide`): `binary-versal.cpp:98`, `:108`,
  `:147`, `:174`, `:194`, `outputfile-versal.cpp:83`, `:98`, `:115`, `:153`. Behind a partition
  at 4 GB the next one without an offset is placed over the headers. Moreover
  `SetPartitionWordOffset` takes the address as a `uint32_t` before it divides by the
  word (`partitionheadertable-versal.cpp:567`), so the word offset of a partition beyond
  4 GB would fit the field and is still wrong.
* Fixed input data that stand before the seed in a key file are refused
  (`encryption-versal.cpp:345`), unless an earlier file of the image had a seed.
* A block size given by the user that leaves less than the overhead of a block in a
  chunk is accepted; the last block is then empty or the remaining size wraps
  (`bootimage-versal.cpp:1276`; `Misfit` in the model, exempt from three properties).

## Not modelled, and why

* Two processes overlapping inside `LmsSign`: nothing in the code locks the key
  file and nothing promises this works; the model takes turns.
* Dual QSPI together with a split (`mcsfile.cpp:79` opens the second stream again
  without closing it); the bitstream mode; the names of split files, which are taken
  to differ (`outputfile.cpp:117` cuts them from the names of images).
* Odd lengths in the parallel modes: sections are word-padded.
* `BOOTGEN_SKIP_SSIT_SYNCPOINT_CHECK` with unequal sync points is in the model for
  the ordering properties; that the loop ends is claimed for matching ones only
  (with a master that has fewer, it does not).
* SLR PDIs whose partitions are not contiguous, and the mapping of a sync offset
  into an encrypted partition.
* Versal: the branches of Versal Net, XIP mode, pre-signed and imported partitions, an
  HSM, alignments that are no powers of two, the split modes of `OutputVersal` and dual
  QSPI with them; obfuscated keys and the encryption of Zynq UltraScale+.
* HSS: auxiliary data, the choice of subtree sizes by memory, internal errors of the
  hash functions, `hss_reserve_signature`.
* Values of hashes, signatures and ciphertexts; formatting and logging; parsers;
  third-party code.

## Plan

Done: `SectionLayout`, `LmsKeyStore`, `HssThreadPool`, `OutputFile` with `BinFile` and
`McsFile`, `SsitConfig`, `KeyRolling`, `VersalLayout`, `VersalImage`, `HssTrees`; and the
proofs named above.

Next, in this order:

1. Header tables: `Link` of Zynq UltraScale+ with the reader as its inverse, over the
   addresses of `SectionLayout`.
2. The bitstream mode and the names of split files in `OutputFile`.
3. The verifier as the reader of `KeyRolling`'s chain of chunk hashes.
4. Orchestration: the list of images of an SSIT BIF and modes restored between them.
5. Options and their exclusions; CDO overlay.

Theorems next: those of the new modules; every invariant of the present ones is proved.
