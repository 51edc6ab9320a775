---------------------------- MODULE HssThreadPool ----------------------------
(***************************************************************************)
(* hss_thread_pthread.c: the worker threads that hash the Merkle trees of  *)
(* an LMS key.  The caller issues NumItems requests and waits for them;    *)
(* a request starts a thread, joins the queue, or is carried out by the    *)
(* caller when memory or a thread cannot be had.  A step holds a lock or   *)
(* touches what one thread owns.                                           *)
(***************************************************************************)
EXTENDS Naturals, Sequences, FiniteSets

CONSTANTS
    NumThreads,   \* col->num_thread, after hss_thread_init clipped it
    NumItems,     \* requests the caller issues
    Main,         \* the caller's thread
    None

ASSUME PoolAssumption ==
    /\ NumThreads \in Nat \ {0, 1}
    /\ NumItems \in Nat
    /\ Main # None
    /\ {Main, None} \cap Nat = {}

Slots == 0 .. NumThreads - 1
Threads == Slots \cup {Main}
Items == 1 .. NumItems

VARIABLES
    pool,        \* "live", "single" (col = 0) or "freed"
    state,       \* state[s]: never_was, alive or dead
    numAlive,    \* col->num_alive
    currentPtr,  \* col->current_ptr
    queue,       \* top_work_queue .. end_work_queue
    lock,        \* holder of col->lock
    writeLock,   \* holder of col->write_lock
    at,          \* at[t]: where thread t is
    doing,       \* doing[t]: the request thread t carries out
    word,        \* word[t]: what t read of the caller's data
    results,     \* the caller's data: requests whose result is stored
    issued,      \* requests issued so far
    slot,        \* the slot the caller works on
    starts,      \* history: starts[i], times request i was started
    fellBack     \* history: malloc or pthread_create failed

vars == <<pool, state, numAlive, currentPtr, queue, lock, writeLock, at, doing,
          word, results, issued, slot, starts, fellBack>>

workVars == <<writeLock, word, results>>
poolVars == <<pool, state, numAlive, currentPtr, queue>>

\* hss_thread_init: no collection when the caller asks for one thread or
\* memory or a mutex cannot be had.
Init ==
    /\ pool \in {"live", "single"}
    /\ state = [s \in Slots |-> "never_was"]
    /\ numAlive = 0 /\ currentPtr = 0 /\ queue = <<>>
    /\ lock = None /\ writeLock = None
    /\ at = [t \in Threads |-> IF t = Main THEN "idle" ELSE "absent"]
    /\ doing = [t \in Threads |-> None]
    /\ word = [t \in Threads |-> {}]
    /\ results = {}
    /\ issued = 0
    /\ slot = 0
    /\ starts = [i \in Items |-> 0]
    /\ fellBack = FALSE

Goto(t, label) == at' = [at EXCEPT ![t] = label]

\* Thread t begins request i.
Start(t, i) ==
    /\ doing' = [doing EXCEPT ![t] = i]
    /\ starts' = [starts EXCEPT ![i] = @ + 1]

-----------------------------------------------------------------------------
\* The function of a request (hss_gen_intermediate_tree): it computes, then
\* stores its result in the caller's data under write_lock.  The store may
\* read and write back a whole word.

\* Mutant: write_lock is not taken.
BeforeWriteUnlocked(t) ==
    /\ at[t] = "run"
    /\ writeLock' = t
    /\ word' = [word EXCEPT ![t] = results]
    /\ Goto(t, "write")
    /\ UNCHANGED <<poolVars, lock, doing, results, issued, slot, starts, fellBack>>

BeforeWrite(t) ==
    /\ at[t] = "run"
    /\ pool = "single" \/ writeLock = None
    /\ writeLock' = IF pool = "single" THEN None ELSE t
    /\ word' = [word EXCEPT ![t] = results]
    /\ Goto(t, "write")
    /\ UNCHANGED <<poolVars, lock, doing, results, issued, slot, starts, fellBack>>

AfterWrite(t) ==
    /\ at[t] = "write"
    /\ results' = word[t] \cup {doing[t]}
    /\ word' = [word EXCEPT ![t] = {}]
    /\ writeLock' = None
    /\ doing' = [doing EXCEPT ![t] = None]
    /\ Goto(t, IF t = Main THEN "idle" ELSE "look")
    /\ UNCHANGED <<poolVars, lock, issued, slot, starts, fellBack>>

-----------------------------------------------------------------------------
\* worker_thread, between two requests.
WorkerLock(s) ==
    /\ at[s] = "look"
    /\ lock = None
    /\ lock' = s
    /\ Goto(s, "hold")
    /\ UNCHANGED <<poolVars, workVars, doing, issued, slot, starts, fellBack>>

TakeWork(s) ==
    /\ at[s] = "hold"
    /\ queue # <<>>
    /\ queue' = Tail(queue)
    /\ Start(s, Head(queue))
    /\ lock' = None
    /\ Goto(s, "run")
    /\ UNCHANGED <<pool, state, numAlive, currentPtr, workVars, issued, slot,
                   fellBack>>

\* Mutant: the thread leaves without saying so in num_alive.
ObituaryUncounted(s) ==
    /\ at[s] = "hold"
    /\ queue = <<>>
    /\ state' = [state EXCEPT ![s] = "dead"]
    /\ lock' = None
    /\ Goto(s, "exited")
    /\ UNCHANGED <<pool, numAlive, currentPtr, queue, workVars, doing, issued, slot,
                   starts, fellBack>>

\* Mutant: the thread leaves although there is work.
ObituaryAlways(s) ==
    /\ at[s] = "hold"
    /\ state' = [state EXCEPT ![s] = "dead"]
    /\ numAlive' = numAlive - 1
    /\ lock' = None
    /\ Goto(s, "exited")
    /\ UNCHANGED <<pool, currentPtr, queue, workVars, doing, issued, slot, starts,
                   fellBack>>

Obituary(s) ==
    /\ at[s] = "hold"
    /\ queue = <<>>
    /\ state' = [state EXCEPT ![s] = "dead"]
    /\ numAlive' = numAlive - 1
    /\ lock' = None
    /\ Goto(s, "exited")
    /\ UNCHANGED <<pool, currentPtr, queue, workVars, doing, issued, slot, starts,
                   fellBack>>

Worker(s) ==
    BeforeWrite(s) \/ AfterWrite(s) \/ WorkerLock(s) \/ TakeWork(s) \/ Obituary(s)

-----------------------------------------------------------------------------
\* hss_thread_issue_work: the caller carries the request out itself when there
\* is no collection or no memory for a work item.
IssueInline ==
    /\ at[Main] = "idle"
    /\ issued < NumItems
    /\ issued' = issued + 1
    /\ Start(Main, issued + 1)
    /\ Goto(Main, "run")
    /\ fellBack' = (fellBack \/ pool = "live")
    /\ UNCHANGED <<poolVars, workVars, lock, slot>>

IssueLock ==
    /\ at[Main] = "idle"
    /\ issued < NumItems
    /\ pool = "live"
    /\ lock = None
    /\ lock' = Main
    /\ issued' = issued + 1
    /\ Goto(Main, "scan")
    /\ UNCHANGED <<poolVars, workVars, doing, slot, starts, fellBack>>

\* The first slot from current_ptr on, round robin, that is not alive.
After(s, k) == (s + k) % NumThreads

FirstFree(s) ==
    \E k \in Slots :
        /\ s = After(currentPtr, k)
        /\ state[s] # "alive"
        /\ \A j \in 0 .. k - 1 : state[After(currentPtr, j)] = "alive"

NoRoom == numAlive >= NumThreads \/ \A s \in Slots : state[s] = "alive"

\* Mutant: a stack instead of a FIFO.
AppendedFirst(i) == <<i>> \o queue

Appended(i) == Append(queue, i)

Enqueue ==
    /\ at[Main] = "scan"
    /\ NoRoom
    /\ queue' = Appended(issued)
    /\ numAlive' = IF numAlive < NumThreads THEN NumThreads ELSE numAlive
    /\ lock' = None
    /\ Goto(Main, "idle")
    /\ UNCHANGED <<pool, state, currentPtr, workVars, doing, issued, slot, starts,
                   fellBack>>

\* The thread in slot s starts with the request, or pthread_create fails and
\* the caller carries it out.
Spawn(s) ==
    /\ state' = [state EXCEPT ![s] = "alive"]
    /\ numAlive' = numAlive + 1
    /\ currentPtr' = After(s, 1)
    /\ Start(s, issued)
    /\ at' = [at EXCEPT ![s] = "run", ![Main] = "idle"]
    /\ lock' = None
    /\ UNCHANGED <<pool, queue, workVars, issued, slot, fellBack>>

SpawnFails(s) ==
    /\ state' = [state EXCEPT ![s] = "never_was"]
    /\ Start(Main, issued)
    /\ Goto(Main, "run")
    /\ lock' = None
    /\ fellBack' = TRUE
    /\ UNCHANGED <<pool, numAlive, currentPtr, queue, workVars, issued, slot>>

StartThread(s) ==
    /\ at[Main] = "scan"
    /\ ~NoRoom
    /\ FirstFree(s)
    /\ state[s] = "never_was"
    /\ Spawn(s) \/ SpawnFails(s)

\* The slot's thread has died: unlock, join it, and lock again.
UnlockToJoin(s) ==
    /\ at[Main] = "scan"
    /\ ~NoRoom
    /\ FirstFree(s)
    /\ state[s] = "dead"
    /\ slot' = s
    /\ lock' = None
    /\ Goto(Main, "join")
    /\ UNCHANGED <<poolVars, workVars, doing, issued, starts, fellBack>>

\* pthread_join (external): returns when the thread has ended.
Join(s, from, to) ==
    /\ at[Main] = from
    /\ slot = s
    /\ at[s] = "exited"
    /\ at' = [at EXCEPT ![s] = "absent", ![Main] = to]
    /\ UNCHANGED <<poolVars, workVars, lock, doing, issued, slot, starts, fellBack>>

RelockToSpawn ==
    /\ at[Main] = "relock"
    /\ lock = None
    /\ lock' = Main
    /\ Goto(Main, "respawn")
    /\ UNCHANGED <<poolVars, workVars, doing, issued, slot, starts, fellBack>>

Respawn ==
    /\ at[Main] = "respawn"
    /\ Spawn(slot) \/ SpawnFails(slot)

-----------------------------------------------------------------------------
\* hss_thread_done: lock, and for each slot that has been used unlock, join and
\* lock again; then free the collection.
DoneLock ==
    /\ at[Main] = "idle"
    /\ issued = NumItems
    /\ pool = "live"
    /\ lock = None
    /\ lock' = Main
    /\ slot' = 0
    /\ Goto(Main, "reap")
    /\ UNCHANGED <<poolVars, workVars, doing, issued, starts, fellBack>>

\* Mutant: only the threads that are still alive are waited for, and a dead one
\* is left behind.
MustJoinAlive(s) == state[s] = "alive"

MustJoin(s) == state[s] # "never_was"

\* Mutant: a slot that was never used stops the scan.
ReapStuck ==
    /\ at[Main] = "reap"
    /\ slot \in Slots
    /\ ~MustJoin(slot)
    /\ UNCHANGED vars

ReapNext ==
    /\ at[Main] = "reap"
    /\ slot \in Slots
    /\ ~MustJoin(slot)
    /\ slot' = slot + 1
    /\ UNCHANGED <<poolVars, workVars, lock, at, doing, issued, starts, fellBack>>

ReapUnlock ==
    /\ at[Main] = "reap"
    /\ slot \in Slots
    /\ MustJoin(slot)
    /\ lock' = None
    /\ Goto(Main, "wait")
    /\ UNCHANGED <<poolVars, workVars, doing, issued, slot, starts, fellBack>>

ReapRelock ==
    /\ at[Main] = "reaped"
    /\ lock = None
    /\ lock' = Main
    /\ slot' = slot + 1
    /\ Goto(Main, "reap")
    /\ UNCHANGED <<poolVars, workVars, doing, issued, starts, fellBack>>

FreePool ==
    /\ at[Main] = "reap"
    /\ slot = NumThreads
    /\ pool' = "freed"
    /\ lock' = None
    /\ Goto(Main, "returned")
    /\ UNCHANGED <<state, numAlive, currentPtr, queue, workVars, doing, issued, slot,
                   starts, fellBack>>

DoneSingle ==
    /\ at[Main] = "idle"
    /\ issued = NumItems
    /\ pool = "single"
    /\ Goto(Main, "returned")
    /\ UNCHANGED <<poolVars, workVars, lock, doing, issued, slot, starts, fellBack>>

Caller ==
    \/ IssueInline \/ IssueLock \/ Enqueue \/ RelockToSpawn \/ Respawn
    \/ \E s \in Slots : StartThread(s) \/ UnlockToJoin(s)
    \/ \E s \in Slots : Join(s, "join", "relock") \/ Join(s, "wait", "reaped")
    \/ BeforeWrite(Main) \/ AfterWrite(Main)
    \/ DoneLock \/ ReapNext \/ ReapUnlock \/ ReapRelock \/ FreePool \/ DoneSingle

Finished == at[Main] = "returned" /\ UNCHANGED vars

Next == Caller \/ (\E s \in Slots : Worker(s)) \/ Finished

Spec == Init /\ [][Next]_vars

\* The operating system runs every thread that can run, and a mutex that is
\* free is granted.
FairSpec == Spec /\ WF_vars(Caller) /\ \A s \in Slots : WF_vars(Worker(s))

-----------------------------------------------------------------------------
\* Work never waits without a thread that will come for it: a request is queued
\* only while every slot has a live thread, and no thread leaves before the
\* queue is empty.
QueuedWorkIsServed ==
    queue # <<>> => \A s \in Slots : state[s] = "alive" /\ at[s] # "exited"

\* num_alive, which decides whether to spawn or to queue, agrees with the slots
\* whenever nobody is inside the lock.
AliveCounted ==
    lock = None => numAlive = Cardinality({s \in Slots : state[s] = "alive"})

\* Only a thread that exists is joined, so no join hangs or is repeated, and the
\* collection is freed when no thread can touch it any more.
JoinedOnce ==
    /\ at[Main] \in {"join", "wait"} => at[slot] # "absent"
    /\ pool = "freed" => \A s \in Slots : at[s] = "absent"

\* The queue keeps the order the requests were issued in, unless a shortage made
\* the caller carry one out ahead of it.
IssueOrderKept ==
    ~fellBack => \A i, j \in Items : i < j /\ starts[j] > 0 => starts[i] > 0

\* hss_thread_done returns.
DoneReturns == <>(at[Main] = "returned")

Batch == INSTANCE WorkBatch WITH returned <- (at[Main] = "returned")

\* The pool implements WorkBatch.
ImplementsWorkBatch == Batch!Spec
=============================================================================
