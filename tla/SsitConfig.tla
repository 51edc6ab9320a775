------------------------------ MODULE SsitConfig ------------------------------
(***************************************************************************)
(* The configuration partition of a device of several SLRs (Versal SSIT):  *)
(* CreateSlrConfigPartition interleaves the PDIs of the slave SLRs, cut    *)
(* into chunks, with the CDO of the master SLR, round robin.  The images   *)
(* meet at sync points: a slave that has passed one waits until every      *)
(* slave has, and the master's commands up to that point come next.        *)
(*                                                                         *)
(* A byte of a slave PDI is its offset.  The master CDO is the sequence of *)
(* its parts, cut at its sync points.                                      *)
(***************************************************************************)
EXTENDS Integers, SequencesExt, FiniteSetsExt

CONSTANTS
    NumSlaves,    \* slave SLRs, in the order of their index
    Partitions,   \* partition lists of a slave PDI: sequences of [size, top]
    ChunkSize,    \* bytes of a chunk (32 KB, or the key rolling block size)
    MaxSyncs,     \* bound: sync points of one SLR
    SkipCheck     \* BOOTGEN_SKIP_SSIT_SYNCPOINT_CHECK is set

Slaves == 1 .. NumSlaves
Master == NumSlaves + 1

\* 0xFFFFFFFF, what FindCurrentSyncPoint returns when every slave is at its end.
AllEnded == MaxSyncs + NumSlaves + 2

ASSUME SsitAssumption ==
    /\ NumSlaves \in Nat \ {0}
    /\ ChunkSize \in Nat \ {0}
    /\ MaxSyncs \in Nat
    /\ SkipCheck \in BOOLEAN
    /\ \A list \in Partitions :
          /\ list \in Seq([size : Nat, top : Nat])
          /\ list # <<>>
          /\ \A p \in DOMAIN list : list[p].top < list[p].size

VARIABLES
    pdi,         \* pdi[s]: the partitions of slave s and its sync addresses
    master,      \* parts of the master CDO; none if there is no master
    turn,        \* the SLR of the round whose turn it is; 0 between rounds
    index,       \* partition_index
    inPart,      \* partition_offset
    topSent,     \* top_chunk_processed: per slave, the partitions
    offset,      \* bytes of the slave PDI already sent
    syncs,       \* sync_points: sync points of the slave already sent
    eof,
    masterSent,  \* parts of the master already sent (master_index)
    common,      \* common_sync_point
    current,     \* current_sync_point
    last,        \* last_sync_point
    out,         \* the chunks written to the configuration partition
    status       \* "running" or "done"

inputs == <<pdi, master>>
cursors == <<index, inPart, topSent, offset, syncs, eof>>
vars == <<inputs, turn, cursors, masterSent, common, current, last, out, status>>

\* The bytes of the first p partitions of a list, by p.
BytesOfFirst(list) ==
    LET sum[p \in 0 .. Len(list)] == IF p = 0 THEN 0 ELSE sum[p - 1] + list[p].size
    IN  sum

Bytes(list) == BytesOfFirst(list)[Len(list)]

SizeOf(s) == Bytes(pdi[s].parts)

\* The check of ParseSlrConfigFiles: every SLR has as many sync points as the
\* master, none without a master.
SameSyncPoints ==
    \A s \in Slaves : Cardinality(pdi[s].syncs) = IF master = 0 THEN 0 ELSE master - 1

\* The slave PDIs explored: any sync points, in any place.
Files ==
    UNION {[parts : {list},
            syncs : {a \in SUBSET (0 .. (Bytes(list) - 1)) : Cardinality(a) <= MaxSyncs}] :
           list \in Partitions}

Init ==
    /\ pdi \in [Slaves -> Files]
    /\ master \in 0 .. (MaxSyncs + 1)
    /\ SkipCheck \/ SameSyncPoints
    /\ turn = 1
    /\ index = [s \in Slaves |-> 1]
    /\ inPart = [s \in Slaves |-> 0]
    /\ topSent = [s \in Slaves |-> {}]
    /\ offset = [s \in Slaves |-> 0]
    /\ syncs = [s \in Slaves |-> 0]
    /\ eof = [s \in Slaves |-> FALSE]
    /\ masterSent = 0
    /\ common = 0 /\ current = 0 /\ last = 0
    /\ out = <<>>
    /\ status = "running"

-----------------------------------------------------------------------------
Part(s) == pdi[s].parts[index[s]]

Left(s) == Part(s).size - inPart[s]

HasTop(s) == Part(s).top # 0 /\ index[s] \notin topSent[s]

\* GetActualChunkSize: the hashes, certificate or secure header of a partition
\* come in a chunk of their own, and every partition starts a new chunk.
ActualChunkSize(s) ==
    IF HasTop(s) THEN Part(s).top
    ELSE IF Left(s) <= ChunkSize THEN Left(s)
    ELSE ChunkSize

AdvanceInPartition(s) ==
    LET n    == ActualChunkSize(s)
        next == ~HasTop(s) /\ Left(s) <= ChunkSize /\ index[s] < Len(pdi[s].parts)
    IN  /\ index' = IF next THEN [index EXCEPT ![s] = @ + 1] ELSE index
        /\ inPart' = [inPart EXCEPT ![s] = IF next THEN 0 ELSE @ + n]
        /\ topSent' = IF HasTop(s) THEN [topSent EXCEPT ![s] = @ \cup {index[s]}]
                      ELSE topSent

\* CheckSyncPointInChunk
SyncsInChunk(s, n) ==
    Cardinality({a \in pdi[s].syncs : a >= offset[s] /\ a < offset[s] + n})

\* Mutant: a slave that has ended holds the others back.
CurrentWithEnded == Min({syncs'[s] : s \in Slaves} \cup {AllEnded})

\* FindCurrentSyncPoint
CurrentSyncPoint ==
    Min({syncs'[s] : s \in {t \in Slaves : ~eof'[t]}} \cup {AllEnded})

\* Mutant: a slave goes on as soon as the others have caught up, before the
\* master's part is out.
EligibleBeforeMaster(s) == syncs[s] = common

Eligible(s) == syncs[s] = common /\ last = current

SendChunk(s) ==
    LET n == ActualChunkSize(s)
    IN  /\ Eligible(s)
        /\ n # 0
        /\ AdvanceInPartition(s)
        /\ syncs' = [syncs EXCEPT ![s] = @ + SyncsInChunk(s, n)]
        /\ offset' = [offset EXCEPT ![s] = @ + n]
        /\ out' = Append(out, [slr |-> s, from |-> offset[s], size |-> n])
        /\ eof' = eof

ReachEnd(s) ==
    /\ Eligible(s)
    /\ ActualChunkSize(s) = 0
    /\ AdvanceInPartition(s)
    /\ eof' = [eof EXCEPT ![s] = TRUE]
    /\ UNCHANGED <<offset, syncs, out>>

Wait(s) == ~Eligible(s) /\ UNCHANGED <<cursors, out>>

\* The turn goes to the next SLR of configSlrsInfo, then to the end of the round.
PassTurn == turn' = IF turn < NumSlaves \/ (turn = NumSlaves /\ master # 0)
                    THEN turn + 1 ELSE 0

SlaveTurn(s) ==
    /\ turn = s
    /\ SendChunk(s) \/ ReachEnd(s) \/ Wait(s)
    /\ current' = CurrentSyncPoint
    /\ last' = IF master = 0 /\ last # current' THEN last + 1 ELSE last
    /\ PassTurn
    /\ UNCHANGED <<inputs, masterSent, common, status>>

\* Mutant: a part of the master goes out in every round.
MasterDueAlways == TRUE

MasterDue == last # current

\* The next part of the master: the commands up to its next sync point, or to
\* the end of the CDO.
MasterTurn ==
    /\ turn = Master
    /\ IF MasterDue /\ masterSent < master
       THEN /\ out' = Append(out, [slr |-> Master, from |-> masterSent, size |-> 1])
            /\ masterSent' = masterSent + 1
            /\ last' = last + 1
       ELSE UNCHANGED <<out, masterSent, last>>
    /\ PassTurn
    /\ UNCHANGED <<inputs, cursors, common, current, status>>

\* Mutant: the master's size is left out of the total.
SlaveBytesLeft == \E s \in Slaves : offset[s] < SizeOf(s)

\* total_slr_chunk_size < slr_total_file_size
BytesLeft == (\E s \in Slaves : offset[s] < SizeOf(s)) \/ masterSent < master

EndRound ==
    /\ turn = 0 /\ status = "running"
    /\ common' = current
    /\ IF current = AllEnded \/ ~BytesLeft
       THEN status' = "done" /\ turn' = turn
       ELSE status' = status /\ turn' = 1
    /\ UNCHANGED <<inputs, cursors, masterSent, current, last, out>>

Next == (\E s \in Slaves : SlaveTurn(s)) \/ MasterTurn \/ EndRound

Spec == Init /\ [][Next]_vars

\* The loop is one thread's; nothing keeps it from its next step.
FairSpec == Spec /\ WF_vars(Next)

-----------------------------------------------------------------------------
\* Sync points of slave s before address a.
SyncsBefore(s, a) == Cardinality({b \in pdi[s].syncs : b < a})

\* What chunk j of the configuration partition finds already loaded.
SentBefore(s, j) ==
    Max({out[i].from + out[i].size : i \in {k \in 1 .. (j - 1) : out[k].slr = s}} \cup {0})

MasterBefore(j) == Cardinality({i \in 1 .. (j - 1) : out[i].slr = Master})

HasReached(s, m, j) ==
    \/ SyncsBefore(s, SentBefore(s, j)) >= m
    \/ SentBefore(s, j) = SizeOf(s)

\* Steps 3 to 6 of the algorithm above CreateSlrConfigPartition: no chunk of a
\* slave that starts behind its m-th sync point is loaded before every slave has
\* reached its own and the master has been given its commands up to there.
BarrierKept ==
    \A j \in DOMAIN out : out[j].slr # Master =>
        LET m == SyncsBefore(out[j].slr, out[j].from)
        IN  /\ \A s \in Slaves : HasReached(s, m, j)
            /\ MasterBefore(j) >= Min({m, master})

\* Step 5: the master's commands up to a sync point come when every slave has
\* reached it, those behind the last one when every slave has ended.
MasterInStep ==
    \A j \in DOMAIN out : out[j].slr = Master =>
        \A s \in Slaves : HasReached(s, out[j].from + 1, j)

\* Step 7: with matching sync points the loop stops with every slave PDI and the
\* whole master CDO in the configuration partition, whichever way it stops.
EverythingSent ==
    status = "done" /\ SameSyncPoints =>
        /\ \A s \in Slaves : SentBefore(s, Len(out) + 1) = SizeOf(s)
        /\ MasterBefore(Len(out) + 1) = master

\* "Repeat the above steps, till all the sync points are processed or EOF": when
\* their sync points match the SLRs never wait for one another for ever.
LoopTerminates == SameSyncPoints => <>(status = "done")
=============================================================================
