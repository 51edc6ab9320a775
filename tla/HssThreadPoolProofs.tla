------------------------- MODULE HssThreadPoolProofs -------------------------
(***************************************************************************)
(* The thread pool for any number of threads and requests: the slots and   *)
(* the count agree, no join is of a thread that is gone, the requests start*)
(* in order, and each is carried out exactly once before done returns.     *)
(***************************************************************************)
EXTENDS HssThreadPool, FiniteSetTheorems, TLAPS

WorkerPlaces == {"absent", "run", "write", "look", "hold", "exited"}
IssuePlaces == {"scan", "join", "relock", "respawn"}
DonePlaces == {"reap", "wait", "reaped"}
CallerPlaces == {"idle", "run", "write", "returned"} \cup IssuePlaces \cup DonePlaces

PoolTypeOK ==
    /\ pool \in {"live", "single", "freed"}
    /\ state \in [Slots -> {"never_was", "alive", "dead"}]
    /\ numAlive \in Int
    /\ currentPtr \in Slots
    /\ queue \in Seq(Items)
    /\ lock \in Threads \cup {None}
    /\ writeLock \in Threads \cup {None}
    /\ at \in [Threads -> WorkerPlaces \cup CallerPlaces]
    /\ doing \in [Threads -> Items \cup {None}]
    /\ word \in [Threads -> SUBSET Items]
    /\ results \in SUBSET Items
    /\ issued \in 0 .. NumItems
    /\ slot \in 0 .. NumThreads
    /\ starts \in [Items -> Nat]
    /\ fellBack \in BOOLEAN

\* Who is where, and what the slots and the lock say of it.
Control ==
    /\ at[Main] \in CallerPlaces
    /\ lock = Main <=> at[Main] \in {"scan", "respawn", "reap"}
    /\ \A s \in Slots :
          /\ at[s] \in WorkerPlaces
          /\ lock = s <=> at[s] = "hold"
          /\ state[s] = "alive" <=> at[s] \in {"run", "write", "look", "hold"}
          /\ state[s] = "never_was" => at[s] = "absent"

\* A dead thread that has been joined, and whose slot still says dead.
Buried(s) ==
    \/ at[Main] \in {"relock", "respawn", "reaped"} /\ s = slot
    \/ at[Main] \in DonePlaces /\ s < slot
    \/ at[Main] = "returned"

Joining ==
    /\ at[Main] \in {"join", "relock", "respawn"} => slot \in Slots /\ state[slot] = "dead"
    /\ at[Main] \in {"wait", "reaped"} => slot \in Slots
    /\ at[Main] \in {"join", "wait"} => at[slot] # "absent"
    /\ at[Main] \in {"relock", "respawn", "reaped"} => at[slot] = "absent"
    /\ at[Main] \in DonePlaces => \A s \in Slots : s < slot => at[s] = "absent"
    /\ at[Main] = "returned" => \A s \in Slots : at[s] = "absent"
    /\ \A s \in Slots : state[s] = "dead" /\ at[s] = "absent" => Buried(s)

\* Without a collection there are no threads; the caller does everything.
Single ==
    /\ pool = "freed" => at[Main] = "returned"
    /\ pool = "single" =>
          /\ at[Main] \in {"idle", "run", "write", "returned"}
          /\ queue = <<>>
          /\ \A s \in Slots : at[s] = "absent" /\ state[s] = "never_was"

Alive == {s \in Slots : state[s] = "alive"}

Counting ==
    /\ numAlive = Cardinality(Alive)
    /\ queue # <<>> => Alive = Slots

Writing ==
    \A t \in Threads : at[t] = "write" =>
        /\ word[t] = results
        /\ pool # "single" => writeLock = t

\* The request that is issued and neither started nor queued.
Pending == at[Main] \in IssuePlaces

\* A thread carries out the request it started, no two the same, until the result
\* is stored.
Carried ==
    /\ \A t \in Threads : doing[t] # None <=> at[t] \in {"run", "write"}
    /\ \A t \in Threads : doing[t] # None =>
          starts[doing[t]] # 0 /\ doing[t] \notin results
    /\ \A t, u \in Threads : doing[t] # None /\ doing[t] = doing[u] => t = u
    /\ \A i \in results : starts[i] # 0
    /\ \A i \in Items : starts[i] # 0 =>
          i \in results \/ \E t \in Threads : doing[t] = i

\* A request that is issued and not started is in the queue, or pending.
Placed ==
    /\ \A i \in Items : starts[i] # 0 => i <= issued
    /\ \A k \in DOMAIN queue : queue[k] <= issued /\ starts[queue[k]] = 0
    /\ \A i \in Items : starts[i] = 0 /\ i <= issued =>
          (\E k \in DOMAIN queue : queue[k] = i) \/ (Pending /\ i = issued)
    /\ at[Main] \in DonePlaces \cup {"returned"} => issued = NumItems

\* Requests wait in the order of their issue; the pending one is the last.
Queued ==
    /\ \A j, k \in DOMAIN queue : j < k => queue[j] < queue[k]
    /\ Pending =>
          /\ issued \in Items /\ starts[issued] = 0
          /\ \A k \in DOMAIN queue : queue[k] < issued

PoolInv ==
    /\ PoolTypeOK /\ Control /\ Joining /\ Single /\ Counting
    /\ Writing /\ Carried /\ Placed /\ Queued /\ IssueOrderKept

-----------------------------------------------------------------------------
(* What is common to the steps.                                            *)

\* The threads, the caller and None are told apart.
LEMMA Names ==
    /\ Main \notin Slots /\ None \notin Threads /\ None \notin Items
    /\ Slots \subseteq Threads /\ Main \in Threads /\ Slots \subseteq Nat
  BY PoolAssumption DEF Slots, Threads, Items

\* A thread starts in a slot whose last thread, if any, has been joined.
SpawnStep(s) ==
    /\ s \in Slots
    /\ at[s] = "absent" /\ state[s] # "alive"
    /\ \/ at[Main] = "scan" /\ ~NoRoom
       \/ at[Main] = "respawn" /\ s = slot
    /\ Spawn(s)

FailStep(s) ==
    /\ s \in Slots
    /\ at[s] = "absent" /\ state[s] # "alive"
    /\ \/ at[Main] = "scan"
       \/ at[Main] = "respawn" /\ s = slot
    /\ SpawnFails(s)

\* Steps of a thread that holds or wants a lock, or of both kinds of thread.
WorkerStep ==
    \/ \E t \in Threads : BeforeWrite(t) \/ AfterWrite(t)
    \/ \E s \in Slots : WorkerLock(s) \/ TakeWork(s) \/ Obituary(s)

IssueStep ==
    \/ IssueInline \/ IssueLock \/ Enqueue
    \/ \E s \in Slots : SpawnStep(s) \/ FailStep(s)

JoinStep ==
    \/ RelockToSpawn
    \/ \E s \in Slots : UnlockToJoin(s) \/ Join(s, "join", "relock") \/ Join(s, "wait", "reaped")

DoneStep == DoneLock \/ ReapNext \/ ReapUnlock \/ ReapRelock \/ FreePool \/ DoneSingle

\* Every step is one of these, and a thread starts only in a free slot.
LEMMA Steps ==
    ASSUME PoolInv, [Next]_vars
    PROVE  WorkerStep \/ IssueStep \/ JoinStep \/ DoneStep \/ UNCHANGED vars
<1>1. ASSUME NEW s \in Slots, StartThread(s) PROVE IssueStep
  <2>1. at[s] = "absent" /\ state[s] # "alive" /\ at[Main] = "scan" /\ ~NoRoom
    BY <1>1 DEF StartThread, PoolInv, Control
  <2> QED BY <1>1, <2>1 DEF StartThread, IssueStep, SpawnStep, FailStep
<1>2. ASSUME Respawn PROVE IssueStep
  <2>1. slot \in Slots /\ at[slot] = "absent" /\ state[slot] # "alive" /\ at[Main] = "respawn"
    BY <1>2 DEF Respawn, PoolInv, Joining
  <2> QED BY <1>2, <2>1 DEF Respawn, IssueStep, SpawnStep, FailStep
<1> QED
  BY <1>1, <1>2, Names
  DEF Next, Caller, Worker, Finished, WorkerStep, IssueStep, JoinStep, DoneStep

-----------------------------------------------------------------------------
(* Types.                                                                  *)

\* No step leaves the types.
LEMMA TypeStep ==
    ASSUME PoolInv, [Next]_vars
    PROVE  PoolTypeOK'
<1> USE Names
<1>1. PoolTypeOK
  BY DEF PoolInv
<1>2. ASSUME NEW t \in Threads, BeforeWrite(t) \/ AfterWrite(t) PROVE PoolTypeOK'
  <2>1. CASE BeforeWrite(t)
    BY <1>1, <2>1 DEF PoolTypeOK, BeforeWrite, Goto, poolVars, WorkerPlaces
  <2>2. CASE AfterWrite(t)
    <3>1. at[t] = "write"
      BY <2>2 DEF AfterWrite
    <3>2. doing[t] \in Items
      BY <1>1, <3>1 DEF PoolInv, Carried, PoolTypeOK
    <3> QED
      BY <1>1, <2>2, <3>2 DEF PoolTypeOK, AfterWrite, Goto, poolVars, WorkerPlaces, CallerPlaces
  <2> QED BY <1>2, <2>1, <2>2
<1>3. ASSUME NEW s \in Slots, WorkerLock(s) \/ TakeWork(s) \/ Obituary(s) PROVE PoolTypeOK'
  <2>1. CASE WorkerLock(s)
    BY <1>1, <2>1 DEF PoolTypeOK, WorkerLock, Goto, poolVars, workVars, WorkerPlaces
  <2>2. CASE TakeWork(s)
    <3>1. Head(queue) \in Items /\ Tail(queue) \in Seq(Items)
      BY <1>1, <2>2 DEF PoolTypeOK, TakeWork
    <3> QED
      BY <1>1, <2>2, <3>1 DEF PoolTypeOK, TakeWork, Start, Goto, workVars, WorkerPlaces
  <2>3. CASE Obituary(s)
    BY <1>1, <2>3 DEF PoolTypeOK, Obituary, Goto, workVars, WorkerPlaces
  <2> QED BY <1>3, <2>1, <2>2, <2>3
<1>4. CASE IssueInline \/ IssueLock
  <2>1. issued + 1 \in Items
    BY <1>1, <1>4, PoolAssumption DEF IssueInline, IssueLock, PoolTypeOK, Items
  <2>2. CASE IssueInline
    BY <1>1, <2>1, <2>2, PoolAssumption
    DEF PoolTypeOK, IssueInline, Start, Goto, poolVars, workVars, CallerPlaces, Items
  <2>3. CASE IssueLock
    BY <1>1, <2>1, <2>3, PoolAssumption
    DEF PoolTypeOK, IssueLock, Goto, poolVars, workVars, CallerPlaces, IssuePlaces, Items
  <2> QED BY <1>4, <2>2, <2>3
<1>5. CASE Enqueue
  <2>1. issued \in Items
    BY <1>5 DEF PoolInv, Queued, Pending, Enqueue, IssuePlaces
  <2> QED
    BY <1>1, <1>5, <2>1, PoolAssumption
    DEF PoolTypeOK, Enqueue, Appended, Goto, workVars, CallerPlaces
<1>6. ASSUME NEW s \in Slots, SpawnStep(s) \/ FailStep(s) PROVE PoolTypeOK'
  <2>1. issued \in Items
    BY <1>6 DEF PoolInv, Queued, Pending, SpawnStep, FailStep, IssuePlaces
  <2>2. After(s, 1) \in Slots
    BY PoolAssumption DEF After, Slots
  <2>3. CASE SpawnStep(s)
    <3>1. /\ state' \in [Slots -> {"never_was", "alive", "dead"}]
          /\ numAlive' \in Int /\ currentPtr' \in Slots
      BY <1>1, <2>2, <2>3 DEF PoolTypeOK, SpawnStep, Spawn
    <3>2. doing' \in [Threads -> Items \cup {None}] /\ starts' \in [Items -> Nat]
      BY <1>1, <2>1, <2>3 DEF PoolTypeOK, SpawnStep, Spawn, Start
    <3>3. at' \in [Threads -> WorkerPlaces \cup CallerPlaces]
      BY <1>1, <2>3 DEF PoolTypeOK, SpawnStep, Spawn, CallerPlaces
    <3>4. /\ UNCHANGED <<pool, queue, writeLock, word, results, issued, slot, fellBack>>
          /\ lock' = None
      BY <2>3 DEF SpawnStep, Spawn, workVars
    <3> QED BY <1>1, <3>1, <3>2, <3>3, <3>4 DEF PoolTypeOK
  <2>4. CASE FailStep(s)
    <3>1. state' \in [Slots -> {"never_was", "alive", "dead"}]
      BY <1>1, <2>4 DEF PoolTypeOK, FailStep, SpawnFails
    <3>2. doing' \in [Threads -> Items \cup {None}] /\ starts' \in [Items -> Nat]
      BY <1>1, <2>1, <2>4 DEF PoolTypeOK, FailStep, SpawnFails, Start
    <3>3. at' \in [Threads -> WorkerPlaces \cup CallerPlaces]
      BY <1>1, <2>4 DEF PoolTypeOK, FailStep, SpawnFails, Goto, CallerPlaces
    <3>4. /\ UNCHANGED <<pool, numAlive, currentPtr, queue, writeLock, word, results, issued,
                         slot>>
          /\ lock' = None /\ fellBack' = TRUE
      BY <2>4 DEF FailStep, SpawnFails, workVars
    <3> QED BY <1>1, <3>1, <3>2, <3>3, <3>4 DEF PoolTypeOK
  <2> QED BY <1>6, <2>3, <2>4
<1>7. CASE JoinStep
  <2>1. Slots \subseteq 0 .. NumThreads
    BY PoolAssumption DEF Slots
  <2>2. CASE RelockToSpawn
    BY <1>1, <2>2
    DEF PoolTypeOK, RelockToSpawn, Goto, poolVars, workVars, CallerPlaces, IssuePlaces
  <2>3. ASSUME NEW s \in Slots, UnlockToJoin(s) PROVE PoolTypeOK'
    BY <1>1, <2>1, <2>3
    DEF PoolTypeOK, UnlockToJoin, Goto, poolVars, workVars, CallerPlaces, IssuePlaces
  <2>4. ASSUME NEW s \in Slots, Join(s, "join", "relock") \/ Join(s, "wait", "reaped")
        PROVE  PoolTypeOK'
    BY <1>1, <2>4
    DEF PoolTypeOK, Join, poolVars, workVars, CallerPlaces, WorkerPlaces, IssuePlaces, DonePlaces
  <2> QED BY <1>7, <2>2, <2>3, <2>4 DEF JoinStep
<1>8. CASE DoneStep
  <2>1. at[Main] = "reaped" => slot \in Slots
    BY DEF PoolInv, Joining
  <2>2. 0 \in 0 .. NumThreads /\ \A s \in Slots : s + 1 \in 0 .. NumThreads
    BY PoolAssumption DEF Slots
  <2>3. CASE DoneLock \/ FreePool \/ DoneSingle
    BY <1>1, <2>2, <2>3
    DEF PoolTypeOK, DoneLock, FreePool, DoneSingle, Goto, poolVars, workVars, CallerPlaces,
        DonePlaces
  <2>4. CASE ReapNext
    BY <1>1, <2>2, <2>4 DEF PoolTypeOK, ReapNext, poolVars, workVars
  <2>5. CASE ReapUnlock
    BY <1>1, <2>5
    DEF PoolTypeOK, ReapUnlock, Goto, poolVars, workVars, CallerPlaces, DonePlaces
  <2>6. CASE ReapRelock
    <3>1. slot' \in 0 .. NumThreads
      BY <2>1, <2>2, <2>6 DEF ReapRelock
    <3> QED
      BY <1>1, <2>6, <3>1
      DEF PoolTypeOK, ReapRelock, Goto, poolVars, workVars, CallerPlaces, DonePlaces
  <2> QED BY <1>8, <2>3, <2>4, <2>5, <2>6 DEF DoneStep
<1>9. CASE UNCHANGED vars
  BY <1>1, <1>9 DEF PoolTypeOK, vars
<1> QED
  BY <1>2, <1>3, <1>4, <1>5, <1>6, <1>7, <1>8, <1>9, Steps DEF WorkerStep, IssueStep

-----------------------------------------------------------------------------
(* The threads, the lock and the joins.                                    *)

\* The slots and the lock go on agreeing with where the threads are.
LEMMA ControlStep ==
    ASSUME PoolInv, [Next]_vars
    PROVE  Control'
<1> USE Names
<1>1. PoolTypeOK /\ Control /\ Joining
  BY DEF PoolInv
<1>2. CASE WorkerStep
  <2>1. ASSUME NEW t \in Threads, BeforeWrite(t) \/ AfterWrite(t) PROVE Control'
    <3>1. CASE t = Main
      BY <1>1, <2>1, <3>1
      DEF PoolTypeOK, Control, BeforeWrite, AfterWrite, Goto, poolVars, CallerPlaces
    <3>2. CASE t \in Slots
      BY <1>1, <2>1, <3>2
      DEF PoolTypeOK, Control, BeforeWrite, AfterWrite, Goto, poolVars, WorkerPlaces
    <3> QED BY <3>1, <3>2 DEF Threads
  <2>2. ASSUME NEW s \in Slots, WorkerLock(s) PROVE Control'
    BY <1>1, <2>2 DEF PoolTypeOK, Control, WorkerLock, Goto, poolVars, WorkerPlaces
  <2>3. ASSUME NEW s \in Slots, TakeWork(s) PROVE Control'
    BY <1>1, <2>3 DEF PoolTypeOK, Control, TakeWork, Start, Goto, WorkerPlaces
  <2>4. ASSUME NEW s \in Slots, Obituary(s) PROVE Control'
    BY <1>1, <2>4 DEF PoolTypeOK, Control, Obituary, Goto, WorkerPlaces
  <2> QED BY <1>2, <2>1, <2>2, <2>3, <2>4 DEF WorkerStep
<1>3. CASE IssueStep
  <2>1. CASE IssueInline \/ IssueLock \/ Enqueue
    BY <1>1, <2>1
    DEF PoolTypeOK, Control, IssueInline, IssueLock, Enqueue, Start, Goto, poolVars,
        CallerPlaces, IssuePlaces, DonePlaces
  <2>2. ASSUME NEW s \in Slots, SpawnStep(s) PROVE Control'
    BY <1>1, <2>2
    DEF PoolTypeOK, Control, SpawnStep, Spawn, Start, CallerPlaces, IssuePlaces, DonePlaces,
        WorkerPlaces
  <2>3. ASSUME NEW s \in Slots, FailStep(s) PROVE Control'
    BY <1>1, <2>3
    DEF PoolTypeOK, Control, FailStep, SpawnFails, Start, Goto, CallerPlaces, IssuePlaces,
        DonePlaces
  <2> QED BY <1>3, <2>1, <2>2, <2>3 DEF IssueStep
<1>4. CASE JoinStep
  BY <1>1, <1>4
  DEF PoolTypeOK, Control, JoinStep, RelockToSpawn, UnlockToJoin, Join, Goto, poolVars,
      CallerPlaces, IssuePlaces, DonePlaces, WorkerPlaces
<1>5. CASE DoneStep
  BY <1>1, <1>5
  DEF PoolTypeOK, Control, DoneStep, DoneLock, ReapNext, ReapUnlock, ReapRelock, FreePool,
      DoneSingle, Goto, poolVars, CallerPlaces, IssuePlaces, DonePlaces, Single, PoolInv
<1>6. CASE UNCHANGED vars
  BY <1>1, <1>6 DEF Control, vars
<1> QED BY <1>2, <1>3, <1>4, <1>5, <1>6, Steps

\* A dead thread is joined once, before its slot is used again or freed.
LEMMA JoiningStep ==
    ASSUME PoolInv, [Next]_vars
    PROVE  Joining'
<1> USE Names
<1>1. PoolTypeOK /\ Control /\ Joining
  BY DEF PoolInv
<1>2. CASE WorkerStep
  <2>1. ASSUME NEW t \in Threads, BeforeWrite(t) \/ AfterWrite(t) PROVE Joining'
    <3>1. CASE t = Main
      BY <1>1, <2>1, <3>1
      DEF PoolTypeOK, Joining, Buried, BeforeWrite, AfterWrite, Goto, poolVars, DonePlaces
    <3>2. CASE t \in Slots
      BY <1>1, <2>1, <3>2
      DEF PoolTypeOK, Joining, Buried, BeforeWrite, AfterWrite, Goto, poolVars, DonePlaces
    <3> QED BY <3>1, <3>2 DEF Threads
  <2>2. ASSUME NEW s \in Slots, WorkerLock(s) \/ TakeWork(s) \/ Obituary(s) PROVE Joining'
    BY <1>1, <2>2
    DEF PoolTypeOK, Control, Joining, Buried, WorkerLock, TakeWork, Obituary, Start, Goto,
        poolVars, DonePlaces
  <2> QED BY <1>2, <2>1, <2>2 DEF WorkerStep
<1>3. CASE IssueStep
  <2>1. CASE IssueInline \/ IssueLock \/ Enqueue
    BY <1>1, <2>1
    DEF PoolTypeOK, Joining, Buried, IssueInline, IssueLock, Enqueue, Start, Goto, poolVars,
        DonePlaces
  <2>2. ASSUME NEW s \in Slots, SpawnStep(s) PROVE Joining'
    BY <1>1, <2>2 DEF PoolTypeOK, Joining, Buried, SpawnStep, Spawn, Start, DonePlaces
  <2>3. ASSUME NEW s \in Slots, FailStep(s) PROVE Joining'
    BY <1>1, <2>3 DEF PoolTypeOK, Joining, Buried, FailStep, SpawnFails, Start, Goto, DonePlaces
  <2> QED BY <1>3, <2>1, <2>2, <2>3 DEF IssueStep
<1>4. CASE JoinStep
  <2>1. CASE RelockToSpawn
    BY <1>1, <2>1 DEF PoolTypeOK, Joining, Buried, RelockToSpawn, Goto, poolVars, DonePlaces
  <2>2. ASSUME NEW s \in Slots, UnlockToJoin(s) PROVE Joining'
    BY <1>1, <2>2 DEF PoolTypeOK, Joining, Buried, UnlockToJoin, Goto, poolVars, DonePlaces
  <2>3. ASSUME NEW s \in Slots, Join(s, "join", "relock") PROVE Joining'
    BY <1>1, <2>3 DEF PoolTypeOK, Control, Joining, Buried, Join, poolVars, DonePlaces
  <2>4. ASSUME NEW s \in Slots, Join(s, "wait", "reaped") PROVE Joining'
    BY <1>1, <2>4 DEF PoolTypeOK, Control, Joining, Buried, Join, poolVars, DonePlaces
  <2> QED BY <1>4, <2>1, <2>2, <2>3, <2>4 DEF JoinStep
<1>5. CASE DoneStep
  <2>1. CASE DoneLock
    BY <1>1, <2>1 DEF PoolTypeOK, Joining, Buried, DoneLock, Goto, poolVars, DonePlaces, Slots
  <2>2. CASE ReapNext \/ ReapRelock
    <3>1. \A s \in Slots : s < slot + 1 <=> s < slot \/ s = slot
      BY <1>1, PoolAssumption DEF PoolTypeOK, Slots
    <3>2. at[slot] = "absent" /\ slot' = slot + 1 /\ at'[Main] = "reap" /\ slot \in Slots
      BY <1>1, <2>2 DEF PoolTypeOK, Control, Joining, ReapNext, ReapRelock, MustJoin, Goto
    <3>3. \A s \in Slots : at'[s] = at[s] /\ state'[s] = state[s]
      BY <1>1, <2>2 DEF PoolTypeOK, ReapNext, ReapRelock, Goto, poolVars
    <3>4. at[Main] \in {"reap", "reaped"}
      BY <2>2 DEF ReapNext, ReapRelock
    <3>5. \A s \in Slots : s < slot' => at'[s] = "absent"
      BY <1>1, <3>1, <3>2, <3>3, <3>4 DEF Joining, DonePlaces
    <3>6. \A s \in Slots : state'[s] = "dead" /\ at'[s] = "absent" => Buried(s)'
      BY <1>1, <3>1, <3>2, <3>3, <3>4 DEF Joining, Buried, DonePlaces
    <3> QED BY <3>2, <3>5, <3>6 DEF Joining, DonePlaces
  <2>3. CASE ReapUnlock
    <3>1. at[Main] = "reap" /\ at'[Main] = "wait" /\ slot' = slot /\ slot \in Slots
      BY <1>1, <2>3 DEF PoolTypeOK, ReapUnlock, Goto
    <3>2. \A s \in Slots : at'[s] = at[s] /\ state'[s] = state[s]
      BY <1>1, <2>3 DEF PoolTypeOK, ReapUnlock, Goto, poolVars
    <3>3. at[slot] # "absent"
      <4>1. state[slot] # "never_was"
        BY <2>3 DEF ReapUnlock, MustJoin
      <4>2. ~Buried(slot)
        BY <3>1, <1>1 DEF Buried, DonePlaces, PoolTypeOK
      <4> QED BY <1>1, <3>1, <4>1, <4>2 DEF PoolTypeOK, Control, Joining
    <3> QED BY <1>1, <3>1, <3>2, <3>3 DEF Joining, Buried, DonePlaces
  <2>4. CASE FreePool
    <3>1. \A s \in Slots : s < NumThreads
      BY PoolAssumption DEF Slots
    <3> QED
      BY <1>1, <2>4, <3>1 DEF PoolTypeOK, Joining, Buried, FreePool, Goto, DonePlaces
  <2>5. CASE DoneSingle
    BY <1>1, <2>5
    DEF PoolTypeOK, PoolInv, Single, Joining, Buried, DoneSingle, Goto, poolVars, DonePlaces
  <2> QED BY <1>5, <2>1, <2>2, <2>3, <2>4, <2>5 DEF DoneStep
<1>6. CASE UNCHANGED vars
  BY <1>1, <1>6 DEF Joining, Buried, vars
<1> QED BY <1>2, <1>3, <1>4, <1>5, <1>6, Steps

\* No thread appears where there is no collection.
LEMMA SingleStep ==
    ASSUME PoolInv, [Next]_vars
    PROVE  Single'
<1> USE Names
<1>1. PoolTypeOK /\ Single
  BY DEF PoolInv
<1>2. CASE WorkerStep
  <2>1. ASSUME NEW t \in Threads, BeforeWrite(t) \/ AfterWrite(t) PROVE Single'
    <3>1. CASE t = Main
      BY <1>1, <2>1, <3>1
      DEF PoolTypeOK, Single, BeforeWrite, AfterWrite, Goto, poolVars
    <3>2. CASE t \in Slots
      BY <1>1, <2>1, <3>2
      DEF PoolTypeOK, Single, BeforeWrite, AfterWrite, Goto, poolVars
    <3> QED BY <3>1, <3>2 DEF Threads
  <2>2. ASSUME NEW s \in Slots, WorkerLock(s) \/ TakeWork(s) \/ Obituary(s) PROVE Single'
    BY <1>1, <2>2
    DEF PoolTypeOK, Single, WorkerLock, TakeWork, Obituary, Start, Goto, poolVars
  <2> QED BY <1>2, <2>1, <2>2 DEF WorkerStep
<1>3. CASE IssueStep
  <2>1. CASE IssueInline \/ IssueLock \/ Enqueue
    BY <1>1, <2>1
    DEF PoolTypeOK, Single, IssueInline, IssueLock, Enqueue, Start, Goto, poolVars
  <2>2. ASSUME NEW s \in Slots, SpawnStep(s) \/ FailStep(s) PROVE Single'
    BY <1>1, <2>2
    DEF PoolTypeOK, Single, SpawnStep, Spawn, FailStep, SpawnFails, Start, Goto
  <2> QED BY <1>3, <2>1, <2>2 DEF IssueStep
<1>4. CASE JoinStep
  BY <1>1, <1>4
  DEF PoolTypeOK, Single, JoinStep, RelockToSpawn, UnlockToJoin, Join, Goto, poolVars
<1>5. CASE DoneStep
  BY <1>1, <1>5
  DEF PoolTypeOK, Single, DoneStep, DoneLock, ReapNext, ReapUnlock, ReapRelock, FreePool,
      DoneSingle, Goto, poolVars
<1>6. CASE UNCHANGED vars
  BY <1>1, <1>6 DEF Single, vars
<1> QED BY <1>2, <1>3, <1>4, <1>5, <1>6, Steps

-----------------------------------------------------------------------------
(* The count of threads, and the queue.                                    *)

\* The live slots can be counted, and all are alive when the count is full.
LEMMA SlotsFinite ==
    /\ IsFiniteSet(Slots) /\ Cardinality(Slots) = NumThreads
    /\ IsFiniteSet(Alive) /\ Cardinality(Alive) \in 0 .. NumThreads
    /\ Cardinality(Alive) = NumThreads <=> Alive = Slots
<1>1. IsFiniteSet(Slots) /\ Cardinality(Slots) = NumThreads
  BY FS_Interval, PoolAssumption DEF Slots
<1>2. Alive \in SUBSET Slots
  BY DEF Alive
<1>3. /\ IsFiniteSet(Alive)
      /\ Cardinality(Alive) <= Cardinality(Slots)
      /\ Cardinality(Slots) = Cardinality(Alive) => Slots = Alive
  BY <1>1, <1>2, FS_Subset
<1>4. Cardinality(Alive) \in Nat
  BY <1>3, FS_CardinalityType
<1> QED BY <1>1, <1>3, <1>4, PoolAssumption

\* num_alive changes with the slots, and work is queued only when all are alive.
LEMMA CountingStep ==
    ASSUME PoolInv, [Next]_vars
    PROVE  Counting'
<1> USE Names
<1>1. PoolTypeOK /\ Control /\ Counting
  BY DEF PoolInv
<1>2. SUFFICES ASSUME ~UNCHANGED <<state, numAlive, queue>> PROVE Counting'
  BY <1>1 DEF Counting, Alive
<1>3. ASSUME NEW s \in Slots, TakeWork(s) PROVE Counting'
  <2>1. queue # <<>> /\ Alive' = Alive /\ numAlive' = numAlive
    BY <1>3 DEF TakeWork, Alive
  <2> QED BY <1>1, <2>1 DEF Counting
<1>4. ASSUME NEW s \in Slots, Obituary(s) PROVE Counting'
  <2>1. queue' = <<>> /\ numAlive' = numAlive - 1 /\ s \in Alive /\ Alive' = Alive \ {s}
    BY <1>1, <1>4 DEF Obituary, Alive, Control, PoolTypeOK
  <2>2. Cardinality(Alive \ {s}) = Cardinality(Alive) - 1
    BY <2>1, SlotsFinite, FS_RemoveElement
  <2> QED BY <1>1, <2>1, <2>2 DEF Counting
<1>5. CASE Enqueue
  <2>1. NoRoom /\ Alive' = Alive
    BY <1>5 DEF Enqueue, Alive
  <2>2. Alive = Slots
    <3>1. CASE numAlive >= NumThreads
      BY <1>1, <3>1, SlotsFinite, PoolAssumption DEF Counting
    <3>2. CASE \A s \in Slots : state[s] = "alive"
      BY <3>2 DEF Alive
    <3> QED BY <2>1, <3>1, <3>2 DEF NoRoom
  <2>3. numAlive' = numAlive
    BY <1>1, <1>5, <2>2, SlotsFinite, PoolAssumption DEF Enqueue, Counting
  <2> QED BY <1>1, <2>1, <2>2, <2>3 DEF Counting
<1>6. ASSUME NEW s \in Slots, SpawnStep(s) \/ FailStep(s) PROVE Counting'
  <2>1. s \notin Alive /\ queue' = queue
    BY <1>6 DEF SpawnStep, FailStep, Spawn, SpawnFails, Alive
  <2>2. queue = <<>>
    BY <1>1, <2>1 DEF Counting
  <2>3. CASE SpawnStep(s)
    <3>1. numAlive' = numAlive + 1 /\ Alive' = Alive \cup {s}
      BY <1>1, <2>3 DEF SpawnStep, Spawn, Alive, PoolTypeOK
    <3>2. Cardinality(Alive \cup {s}) = Cardinality(Alive) + 1
      BY <2>1, SlotsFinite, FS_AddElement
    <3> QED BY <1>1, <2>1, <2>2, <3>1, <3>2 DEF Counting
  <2>4. CASE FailStep(s)
    <3>1. numAlive' = numAlive /\ Alive' = Alive
      BY <1>1, <2>1, <2>4 DEF FailStep, SpawnFails, Alive, PoolTypeOK
    <3> QED BY <1>1, <2>1, <2>2, <3>1 DEF Counting
  <2> QED BY <1>6, <2>3, <2>4
<1> QED
  BY <1>2, <1>3, <1>4, <1>5, <1>6, Steps
  DEF WorkerStep, BeforeWrite, AfterWrite, WorkerLock, IssueStep, IssueInline, IssueLock,
      JoinStep, RelockToSpawn, UnlockToJoin, Join, DoneStep, DoneLock, ReapNext, ReapUnlock,
      ReapRelock, FreePool, DoneSingle, poolVars, vars

-----------------------------------------------------------------------------
(* The caller's data.                                                      *)

\* Nobody writes between the read and the write of another (write_lock).
LEMMA WritingStep ==
    ASSUME PoolInv, [Next]_vars
    PROVE  Writing'
<1> USE Names
<1>1. PoolTypeOK /\ Control /\ Single /\ Writing
  BY DEF PoolInv
<1>2. ASSUME NEW t \in Threads, BeforeWrite(t) PROVE Writing'
  <2>1. ASSUME NEW u \in Threads \ {t} PROVE at[u] # "write"
    <3>1. CASE pool = "single"
      <4>1. t = Main /\ u \in Slots
        BY <1>1, <1>2, <2>1, <3>1 DEF BeforeWrite, Single, Threads
      <4> QED BY <1>1, <3>1, <4>1 DEF Single
    <3>2. CASE pool # "single"
      BY <1>1, <1>2, <3>2 DEF BeforeWrite, Writing
    <3> QED BY <3>1, <3>2
  <2> QED BY <1>1, <1>2, <2>1 DEF PoolTypeOK, BeforeWrite, Writing, Goto, poolVars
<1>3. ASSUME NEW t \in Threads, AfterWrite(t) PROVE Writing'
  <2>1. ASSUME NEW u \in Threads \ {t} PROVE at[u] # "write"
    <3>1. CASE pool = "single"
      <4>1. t = Main /\ u \in Slots
        BY <1>1, <1>3, <2>1, <3>1 DEF AfterWrite, Single, Threads
      <4> QED BY <1>1, <3>1, <4>1 DEF Single
    <3>2. CASE pool # "single"
      BY <1>1, <1>3, <3>2 DEF AfterWrite, Writing
    <3> QED BY <3>1, <3>2
  <2> QED BY <1>1, <1>3, <2>1 DEF PoolTypeOK, AfterWrite, Writing, Goto
<1>4. CASE /\ UNCHANGED <<writeLock, word, results>>
           /\ \A t \in Threads : at'[t] = "write" => at[t] = "write"
           /\ pool' # "single" => pool # "single"
  BY <1>1, <1>4 DEF Writing
<1>5. ASSUME NEW s \in Slots, WorkerLock(s) \/ TakeWork(s) \/ Obituary(s) PROVE Writing'
  BY <1>1, <1>4, <1>5
  DEF PoolTypeOK, WorkerLock, TakeWork, Obituary, Start, Goto, poolVars, workVars
<1>6. CASE IssueStep
  <2>1. CASE IssueInline \/ IssueLock \/ Enqueue
    BY <1>1, <1>4, <2>1
    DEF PoolTypeOK, IssueInline, IssueLock, Enqueue, Start, Goto, poolVars, workVars
  <2>2. ASSUME NEW s \in Slots, SpawnStep(s) \/ FailStep(s) PROVE Writing'
    BY <1>1, <1>4, <2>2
    DEF PoolTypeOK, SpawnStep, Spawn, FailStep, SpawnFails, Start, Goto, workVars
  <2> QED BY <1>6, <2>1, <2>2 DEF IssueStep
<1>7. CASE JoinStep
  BY <1>1, <1>4, <1>7
  DEF PoolTypeOK, JoinStep, RelockToSpawn, UnlockToJoin, Join, Goto, poolVars, workVars
<1>8. CASE DoneStep
  BY <1>1, <1>4, <1>8
  DEF PoolTypeOK, Single, DoneStep, DoneLock, ReapNext, ReapUnlock, ReapRelock, FreePool,
      DoneSingle, Goto, poolVars, workVars
<1>9. CASE UNCHANGED vars
  BY <1>1, <1>9 DEF Writing, vars
<1> QED BY <1>2, <1>3, <1>5, <1>6, <1>7, <1>8, <1>9, Steps DEF WorkerStep

-----------------------------------------------------------------------------
(* The requests.                                                           *)

\* Thread t starts request i, and the others go on.
StartsRequest(t, i) ==
    /\ t \in Threads /\ i \in Items
    /\ doing[t] = None /\ starts[i] = 0
    /\ Start(t, i)
    /\ at'[t] = "run"
    /\ \A u \in Threads \ {t} : at'[u] \in {"run", "write"} <=> at[u] \in {"run", "write"}
    /\ results' = results

\* A request that starts was never started, and nobody else carries it out.
LEMMA Starting ==
    ASSUME PoolInv, NEW t, NEW i, StartsRequest(t, i)
    PROVE  /\ Carried'
           /\ \A j \in Items : starts'[j] = IF j = i THEN 1 ELSE starts[j]
<1> USE Names
<1>1. PoolTypeOK /\ Carried
  BY DEF PoolInv
<1>2. /\ \A u \in Threads : doing'[u] = IF u = t THEN i ELSE doing[u]
      /\ \A j \in Items : starts'[j] = IF j = i THEN 1 ELSE starts[j]
      /\ results' = results /\ results \subseteq Items
      /\ \A u \in Threads : doing[u] \in Items \cup {None}
  BY <1>1 DEF StartsRequest, Start, PoolTypeOK
<1>3. /\ t \in Threads /\ i \in Items
      /\ doing[t] = None /\ starts[i] = 0
      /\ at'[t] = "run"
      /\ \A u \in Threads \ {t} : at'[u] \in {"run", "write"} <=> at[u] \in {"run", "write"}
  BY DEF StartsRequest
<1>4. \A u \in Threads : doing'[u] # None <=> at'[u] \in {"run", "write"}
  BY <1>1, <1>2, <1>3 DEF Carried
<1>5. \A u \in Threads : doing[u] # i
  BY <1>1, <1>2, <1>3 DEF Carried
<1>6. i \notin results
  BY <1>1, <1>3 DEF Carried
<1>7. \A u \in Threads : doing'[u] # None => starts'[doing'[u]] # 0 /\ doing'[u] \notin results'
  BY <1>1, <1>2, <1>3, <1>5, <1>6 DEF Carried
<1>8. \A u, v \in Threads : doing'[u] # None /\ doing'[u] = doing'[v] => u = v
  BY <1>1, <1>2, <1>3, <1>5 DEF Carried
<1>9. \A j \in results' : starts'[j] # 0
  BY <1>1, <1>2 DEF Carried
<1>10. \A j \in Items : starts'[j] # 0 => j \in results' \/ \E u \in Threads : doing'[u] = j
  <2> SUFFICES ASSUME NEW j \in Items, starts'[j] # 0, j \notin results'
               PROVE  \E u \in Threads : doing'[u] = j
    OBVIOUS
  <2>1. CASE j = i
    BY <2>1, <1>2, <1>3
  <2>2. CASE j # i
    <3>1. PICK u \in Threads : doing[u] = j
      BY <1>1, <1>2, <2>2 DEF Carried
    <3>2. doing'[u] = j
      BY <1>2, <1>3, <3>1
    <3> QED BY <3>2
  <2> QED BY <2>1, <2>2
<1> QED BY <1>2, <1>4, <1>7, <1>8, <1>9, <1>10 DEF Carried

\* Which steps start a request, and which leave the requests where they are.
LEMMA TakeStarts ==
    ASSUME PoolInv, NEW s \in Slots, TakeWork(s)
    PROVE  /\ StartsRequest(s, queue[1])
           /\ queue \in Seq(Items) /\ queue # <<>> /\ queue' = Tail(queue)
           /\ issued' = issued /\ at'[Main] = at[Main] /\ fellBack' = fellBack
<1> USE Names
<1>1. PoolTypeOK /\ Control /\ Carried /\ Placed
  BY DEF PoolInv
<1>2. queue \in Seq(Items) /\ queue # <<>> /\ queue' = Tail(queue) /\ 1 \in DOMAIN queue
      /\ queue[1] \in Items /\ Head(queue) = queue[1]
  BY <1>1 DEF TakeWork, PoolTypeOK
<1>3. doing[s] = None /\ starts[queue[1]] = 0
  BY <1>1, <1>2 DEF TakeWork, Carried, Placed
<1>4. at'[s] = "run" /\ \A u \in Threads \ {s} : at'[u] = at[u]
  BY <1>1 DEF TakeWork, Goto, PoolTypeOK
<1>5. Start(s, queue[1]) /\ results' = results /\ issued' = issued /\ fellBack' = fellBack
  BY <1>2 DEF TakeWork, workVars
<1> QED BY <1>2, <1>3, <1>4, <1>5 DEF StartsRequest

\* The caller starts the request it is issuing.
LEMMA IssueStarts ==
    ASSUME PoolInv, IssueInline
    PROVE  /\ StartsRequest(Main, issued + 1)
           /\ queue' = queue /\ issued' = issued + 1 /\ at'[Main] = "run"
           /\ fellBack' = (fellBack \/ pool = "live")
<1> USE Names
<1>1. PoolTypeOK /\ Carried /\ Placed
  BY DEF PoolInv
<1>2. issued + 1 \in Items /\ ~(issued + 1 <= issued)
  BY <1>1, PoolAssumption DEF IssueInline, PoolTypeOK, Items
<1>3. starts[issued + 1] = 0
  BY <1>1, <1>2 DEF Placed
<1> QED
  BY <1>1, <1>2, <1>3
  DEF IssueInline, Carried, StartsRequest, Goto, PoolTypeOK, poolVars, workVars

\* The pending request starts in a new thread or, when that fails, in the caller.
LEMMA ThreadStarts ==
    ASSUME PoolInv, NEW s \in Slots, SpawnStep(s) \/ FailStep(s)
    PROVE  /\ \E t \in Threads : StartsRequest(t, issued)
           /\ Pending /\ queue = <<>> /\ queue' = <<>> /\ issued' = issued
           /\ at'[Main] \in {"idle", "run"}
           /\ fellBack' = fellBack \/ fellBack' = TRUE
<1> USE Names
<1>1. PoolTypeOK /\ Carried /\ Placed /\ Queued /\ Counting
  BY DEF PoolInv
<1>2. Pending
  BY DEF SpawnStep, FailStep, Pending, IssuePlaces
<1>3. issued \in Items /\ starts[issued] = 0
  BY <1>1, <1>2 DEF Queued
<1>4. queue = <<>>
  BY <1>1 DEF SpawnStep, FailStep, Counting, Alive
<1>5. CASE SpawnStep(s)
  <2>1. StartsRequest(s, issued)
    BY <1>1, <1>3, <1>5
    DEF SpawnStep, Spawn, Carried, StartsRequest, PoolTypeOK, workVars
  <2> QED BY <1>1, <1>2, <1>4, <1>5, <2>1 DEF SpawnStep, Spawn, PoolTypeOK
<1>6. CASE FailStep(s)
  <2>1. StartsRequest(Main, issued)
    BY <1>1, <1>3, <1>6
    DEF FailStep, SpawnFails, Carried, StartsRequest, Goto, PoolTypeOK, workVars
  <2> QED BY <1>1, <1>2, <1>4, <1>6, <2>1 DEF FailStep, SpawnFails, Goto, PoolTypeOK
<1> QED BY <1>5, <1>6

\* No request changes its place.
Still ==
    /\ UNCHANGED <<doing, starts, results, queue, issued, fellBack>>
    /\ \A t \in Threads : at'[t] \in {"run", "write"} <=> at[t] \in {"run", "write"}
    /\ Pending' <=> Pending
    /\ at'[Main] \in DonePlaces \cup {"returned"} =>
          at[Main] \in DonePlaces \cup {"returned"} \/ issued = NumItems

\* Locking, joining and leaving move no request.
LEMMA StillSteps ==
    ASSUME PoolInv,
           \/ \E t \in Threads : BeforeWrite(t)
           \/ \E s \in Slots : WorkerLock(s) \/ Obituary(s)
           \/ JoinStep \/ DoneStep \/ UNCHANGED vars
    PROVE  Still
<1> USE Names
<1>1. PoolTypeOK
  BY DEF PoolInv
<1>2. ASSUME NEW t \in Threads, BeforeWrite(t) PROVE Still
  BY <1>1, <1>2 DEF Still, BeforeWrite, Goto, PoolTypeOK, poolVars, Pending, IssuePlaces, DonePlaces
<1>3. ASSUME NEW s \in Slots, WorkerLock(s) \/ Obituary(s) PROVE Still
  BY <1>1, <1>3 DEF Still, WorkerLock, Obituary, Goto, PoolTypeOK, poolVars, workVars, Pending
<1>4. CASE JoinStep
  BY <1>1, <1>4
  DEF Still, JoinStep, RelockToSpawn, UnlockToJoin, Join, Goto, PoolTypeOK, poolVars, workVars,
      Pending, IssuePlaces, DonePlaces
<1>5. CASE DoneStep
  BY <1>1, <1>5
  DEF Still, DoneStep, DoneLock, ReapNext, ReapUnlock, ReapRelock, FreePool, DoneSingle, Goto,
      PoolTypeOK, poolVars, workVars, Pending, IssuePlaces, DonePlaces
<1>6. CASE UNCHANGED vars
  BY <1>6 DEF Still, vars, Pending
<1> QED BY <1>2, <1>3, <1>4, <1>5, <1>6

\* A request is completed: its result is added to the caller's data.
LEMMA Storing ==
    ASSUME PoolInv, NEW t \in Threads, AfterWrite(t)
    PROVE  /\ doing[t] \in Items /\ results' = results \cup {doing[t]}
           /\ doing' = [doing EXCEPT ![t] = None]
           /\ UNCHANGED <<starts, queue, issued, fellBack>>
           /\ at[t] = "write" /\ at'[t] \in {"idle", "look"}
           /\ \A u \in Threads \ {t} : at'[u] = at[u]
           /\ at'[Main] \in {at[Main], "idle"} /\ (t = Main => at'[Main] = "idle")
<1> USE Names
<1>1. PoolTypeOK /\ Writing /\ Carried
  BY DEF PoolInv
<1>2. at[t] = "write" /\ word[t] = results
  BY <1>1 DEF AfterWrite, Writing
<1>3. doing[t] \in Items
  BY <1>1, <1>2 DEF Carried, PoolTypeOK
<1> QED BY <1>1, <1>2, <1>3 DEF AfterWrite, Goto, PoolTypeOK, poolVars

\* No step doubles or drops a request that was started.
LEMMA CarriedStep ==
    ASSUME PoolInv, [Next]_vars
    PROVE  Carried'
<1> USE Names
<1>1. PoolTypeOK /\ Carried
  BY DEF PoolInv
<1>2. ASSUME NEW t \in Threads, AfterWrite(t) PROVE Carried'
  <2>1. /\ doing[t] \in Items /\ at[t] = "write" /\ at'[t] \in {"idle", "look"}
        /\ results' = results \cup {doing[t]} /\ starts' = starts
        /\ \A u \in Threads : doing'[u] = IF u = t THEN None ELSE doing[u]
        /\ \A u \in Threads \ {t} : at'[u] = at[u]
    BY <1>1, <1>2, Storing DEF PoolTypeOK
  <2>2. starts[doing[t]] # 0
    BY <1>1, <2>1 DEF Carried
  <2>3. \A u \in Threads : doing'[u] # None => doing'[u] \notin results'
    BY <1>1, <2>1 DEF Carried
  <2>4. \A i \in Items : starts[i] # 0 => i \in results' \/ \E u \in Threads : doing'[u] = i
    <3> SUFFICES ASSUME NEW i \in Items, starts[i] # 0, i \notin results'
                 PROVE  \E u \in Threads : doing'[u] = i
      OBVIOUS
    <3>1. PICK u \in Threads : doing[u] = i
      BY <1>1, <2>1 DEF Carried
    <3>2. u # t
      BY <2>1, <3>1
    <3> QED BY <2>1, <3>1, <3>2
  <2> QED BY <1>1, <2>1, <2>2, <2>3, <2>4 DEF Carried
<1>3. ASSUME Still PROVE Carried'
  BY <1>1, <1>3 DEF Carried, Still
<1>4. CASE UNCHANGED <<doing, starts, results>> /\
           \A t \in Threads : at'[t] \in {"run", "write"} <=> at[t] \in {"run", "write"}
  BY <1>1, <1>4 DEF Carried
<1>5. CASE IssueLock \/ Enqueue
  BY <1>1, <1>4, <1>5 DEF IssueLock, Enqueue, Goto, PoolTypeOK, workVars
<1> QED
  BY <1>2, <1>3, <1>5, Steps, StillSteps, Starting, TakeStarts, IssueStarts, ThreadStarts
  DEF WorkerStep, IssueStep

\* No step loses a request that has not started.
LEMMA PlacedStep ==
    ASSUME PoolInv, [Next]_vars
    PROVE  Placed'
<1> USE Names
<1>1. PoolTypeOK /\ Control /\ Carried /\ Placed /\ Queued
  BY DEF PoolInv
<1>2. ASSUME NEW t \in Threads, AfterWrite(t) PROVE Placed'
  <2>1. Pending' <=> Pending
    BY <1>2, Storing DEF Pending, IssuePlaces
  <2> QED
    BY <1>1, <1>2, <2>1, Storing DEF Placed, DonePlaces
<1>3. ASSUME Still PROVE Placed'
  BY <1>1, <1>3 DEF Placed, Still
<1>4. ASSUME NEW s \in Slots, TakeWork(s) PROVE Placed'
  <2>1. /\ queue \in Seq(Items) /\ queue # <<>> /\ queue' = Tail(queue)
        /\ issued' = issued /\ at'[Main] = at[Main] /\ queue[1] \in Items
        /\ \A j \in Items : starts'[j] = IF j = queue[1] THEN 1 ELSE starts[j]
    BY <1>4, TakeStarts, Starting DEF StartsRequest
  <2>2. Pending' <=> Pending
    BY <2>1 DEF Pending
  <2>3. /\ DOMAIN queue' = 1 .. Len(queue) - 1
        /\ \A k \in DOMAIN queue' : k + 1 \in DOMAIN queue /\ queue'[k] = queue[k + 1]
        /\ \A k \in DOMAIN queue : k # 1 => k - 1 \in DOMAIN queue' /\ queue'[k - 1] = queue[k]
        /\ 1 \in DOMAIN queue /\ \A k \in DOMAIN queue : queue[k] \in Items
    BY <2>1
  <2>4. \A k \in DOMAIN queue' : queue'[k] # queue[1]
    <3> SUFFICES ASSUME NEW k \in DOMAIN queue' PROVE queue[k + 1] # queue[1]
      BY <2>3
    <3>1. k + 1 \in DOMAIN queue /\ 1 < k + 1
      BY <2>1, <2>3
    <3>2. queue[1] < queue[k + 1]
      BY <1>1, <2>3, <3>1 DEF Queued
    <3> QED BY <2>3, <3>1, <3>2 DEF Items
  <2>5. queue[1] <= issued
    BY <1>1, <2>3 DEF Placed
  <2>6. \A i \in Items : starts'[i] # 0 => i <= issued
    BY <1>1, <2>1, <2>5 DEF Placed
  <2>7. \A k \in DOMAIN queue' : queue'[k] <= issued /\ starts'[queue'[k]] = 0
    BY <1>1, <2>1, <2>3, <2>4 DEF Placed
  <2>8. \A i \in Items : starts'[i] = 0 /\ i <= issued =>
           (\E k \in DOMAIN queue' : queue'[k] = i) \/ (Pending /\ i = issued)
    <3> SUFFICES ASSUME NEW i \in Items, starts'[i] = 0, i <= issued, ~(Pending /\ i = issued)
                 PROVE  \E k \in DOMAIN queue' : queue'[k] = i
      OBVIOUS
    <3>1. PICK k \in DOMAIN queue : queue[k] = i
      BY <1>1, <2>1 DEF Placed
    <3>2. k # 1
      BY <2>1, <3>1
    <3> QED BY <2>3, <3>1, <3>2
  <2> QED BY <1>1, <2>1, <2>2, <2>6, <2>7, <2>8 DEF Placed
<1>5. CASE IssueInline
  <2>1. /\ issued + 1 \in Items /\ issued' = issued + 1 /\ queue' = queue /\ at'[Main] = "run"
        /\ \A j \in Items : starts'[j] = IF j = issued + 1 THEN 1 ELSE starts[j]
    BY <1>5, IssueStarts, Starting DEF StartsRequest
  <2>2. issued \in Nat /\ \A k \in DOMAIN queue : queue[k] \in Items
    BY <1>1 DEF PoolTypeOK
  <2>3. ~Pending /\ ~Pending'
    BY <1>5, <2>1 DEF IssueInline, Pending, IssuePlaces
  <2>4. \A i \in Items : i <= issued + 1 <=> i <= issued \/ i = issued + 1
    BY <2>2 DEF Items
  <2> QED BY <1>1, <2>1, <2>2, <2>3, <2>4 DEF Placed, DonePlaces, Items
<1>6. CASE IssueLock
  <2>1. /\ issued' = issued + 1 /\ queue' = queue /\ starts' = starts
        /\ ~Pending /\ Pending' /\ at'[Main] = "scan"
    BY <1>1, <1>6
    DEF IssueLock, Goto, PoolTypeOK, poolVars, Pending, IssuePlaces
  <2>2. issued \in Nat /\ \A k \in DOMAIN queue : queue[k] \in Items
    BY <1>1 DEF PoolTypeOK
  <2>3. \A i \in Items : i <= issued + 1 <=> i <= issued \/ i = issued + 1
    BY <2>2 DEF Items
  <2> QED BY <1>1, <2>1, <2>2, <2>3 DEF Placed, DonePlaces, Items
<1>7. CASE Enqueue
  <2>1. /\ issued' = issued /\ queue' = Append(queue, issued) /\ starts' = starts
        /\ Pending /\ at'[Main] = "idle" /\ queue \in Seq(Items)
    BY <1>1, <1>7
    DEF Enqueue, Appended, Goto, PoolTypeOK, workVars, Pending, IssuePlaces
  <2>2. issued \in Items /\ starts[issued] = 0
    BY <1>1, <2>1 DEF Queued
  <2>3. /\ DOMAIN queue' = DOMAIN queue \cup {Len(queue) + 1}
        /\ \A k \in DOMAIN queue : queue'[k] = queue[k]
        /\ queue'[Len(queue) + 1] = issued
    BY <2>1, <2>2
  <2> QED BY <1>1, <2>1, <2>2, <2>3 DEF Placed, DonePlaces, Items
<1>8. ASSUME NEW s \in Slots, SpawnStep(s) \/ FailStep(s) PROVE Placed'
  <2>1. /\ Pending /\ queue = <<>> /\ queue' = <<>> /\ issued' = issued
        /\ at'[Main] \in {"idle", "run"} /\ issued \in Items
        /\ \A j \in Items : starts'[j] = IF j = issued THEN 1 ELSE starts[j]
    BY <1>8, ThreadStarts, Starting DEF StartsRequest
  <2> QED BY <1>1, <2>1 DEF Placed, DonePlaces, Items
<1> QED
  BY <1>2, <1>3, <1>4, <1>5, <1>6, <1>7, <1>8, Steps, StillSteps DEF WorkerStep, IssueStep

\* The queue stays in the order of issue.
LEMMA QueuedStep ==
    ASSUME PoolInv, [Next]_vars
    PROVE  Queued'
<1> USE Names
<1>1. PoolTypeOK /\ Placed /\ Queued
  BY DEF PoolInv
<1>2. ASSUME NEW t \in Threads, AfterWrite(t) PROVE Queued'
  BY <1>1, <1>2, Storing DEF Queued, Pending, IssuePlaces
<1>3. ASSUME Still PROVE Queued'
  BY <1>1, <1>3 DEF Queued, Still
<1>4. ASSUME NEW s \in Slots, TakeWork(s) PROVE Queued'
  <2>1. /\ queue \in Seq(Items) /\ queue # <<>> /\ queue' = Tail(queue)
        /\ issued' = issued /\ at'[Main] = at[Main] /\ queue[1] \in Items
        /\ \A j \in Items : starts'[j] = IF j = queue[1] THEN 1 ELSE starts[j]
    BY <1>4, TakeStarts, Starting DEF StartsRequest
  <2>2. /\ \A k \in DOMAIN queue' : k + 1 \in DOMAIN queue /\ queue'[k] = queue[k + 1]
        /\ \A j, k \in DOMAIN queue' : j < k => j + 1 < k + 1
        /\ 1 \in DOMAIN queue
    BY <2>1
  <2>3. Pending' <=> Pending
    BY <2>1 DEF Pending
  <2>4. Pending => queue[1] # issued
    BY <1>1, <2>1, <2>2 DEF Queued, Items
  <2> QED BY <1>1, <2>1, <2>2, <2>3, <2>4 DEF Queued
<1>5. CASE IssueInline
  <2>1. queue' = queue /\ ~Pending'
    BY <1>5, IssueStarts DEF Pending, IssuePlaces
  <2> QED BY <1>1, <2>1 DEF Queued
<1>6. CASE IssueLock
  <2>1. /\ issued' = issued + 1 /\ queue' = queue /\ starts' = starts /\ issued < NumItems
    BY <1>1, <1>6 DEF IssueLock, poolVars
  <2>2. issued \in Nat /\ \A k \in DOMAIN queue : queue[k] \in Items
    BY <1>1 DEF PoolTypeOK
  <2>3. issued + 1 \in Items /\ ~(issued + 1 <= issued)
    BY <2>1, <2>2, PoolAssumption DEF Items
  <2>4. starts[issued + 1] = 0 /\ \A k \in DOMAIN queue : queue[k] < issued + 1
    BY <1>1, <2>2, <2>3 DEF Placed, Items
  <2> QED BY <1>1, <2>1, <2>3, <2>4 DEF Queued
<1>7. CASE Enqueue
  <2>1. /\ issued' = issued /\ queue' = Append(queue, issued)
        /\ Pending /\ ~Pending' /\ queue \in Seq(Items)
    BY <1>1, <1>7
    DEF Enqueue, Appended, Goto, PoolTypeOK, workVars, Pending, IssuePlaces
  <2>2. issued \in Items
    BY <1>1, <2>1 DEF Queued
  <2>3. /\ DOMAIN queue' = DOMAIN queue \cup {Len(queue) + 1}
        /\ \A k \in DOMAIN queue : queue'[k] = queue[k] /\ k < Len(queue) + 1
        /\ queue'[Len(queue) + 1] = issued /\ Len(queue) \in Nat
    BY <2>1, <2>2
  <2>4. \A j, k \in DOMAIN queue' : j < k => queue'[j] < queue'[k]
    <3> SUFFICES ASSUME NEW j \in DOMAIN queue', NEW k \in DOMAIN queue', j < k
                 PROVE  queue'[j] < queue'[k]
      OBVIOUS
    <3>1. CASE k \in DOMAIN queue
      BY <1>1, <2>1, <2>3, <3>1 DEF Queued
    <3>2. CASE k = Len(queue) + 1
      <4>1. j \in DOMAIN queue
        BY <2>1, <2>3, <3>2
      <4> QED BY <1>1, <2>1, <2>3, <3>2, <4>1 DEF Queued
    <3> QED BY <2>3, <3>1, <3>2
  <2> QED BY <2>1, <2>4 DEF Queued
<1>8. ASSUME NEW s \in Slots, SpawnStep(s) \/ FailStep(s) PROVE Queued'
  <2>1. queue' = <<>> /\ ~Pending'
    BY <1>8, ThreadStarts DEF Pending, IssuePlaces
  <2> QED BY <2>1 DEF Queued
<1> QED
  BY <1>2, <1>3, <1>4, <1>5, <1>6, <1>7, <1>8, Steps, StillSteps DEF WorkerStep, IssueStep

\* A request starts after those issued before it.
LEMMA OrderStep ==
    ASSUME PoolInv, [Next]_vars
    PROVE  IssueOrderKept'
<1> USE Names
<1>1. PoolTypeOK /\ Control /\ Single /\ Placed /\ Queued /\ IssueOrderKept
  BY DEF PoolInv
<1>2. CASE starts' = starts /\ fellBack' = fellBack
  BY <1>1, <1>2 DEF IssueOrderKept
<1>3. ASSUME NEW i \in Items, \A j \in Items : starts'[j] = IF j = i THEN 1 ELSE starts[j],
             fellBack' = fellBack, ~fellBack => \A j \in Items : j < i => starts[j] # 0
      PROVE  IssueOrderKept'
  <2>1. \A j \in Items : starts[j] \in Nat
    BY <1>1 DEF PoolTypeOK
  <2> QED BY <1>1, <1>3, <2>1 DEF IssueOrderKept
<1>4. ASSUME NEW t \in Threads, AfterWrite(t) PROVE IssueOrderKept'
  BY <1>2, <1>4, Storing
<1>5. ASSUME Still PROVE IssueOrderKept'
  BY <1>2, <1>5 DEF Still
<1>6. ASSUME NEW s \in Slots, TakeWork(s) PROVE IssueOrderKept'
  <2>1. /\ queue \in Seq(Items) /\ queue # <<>> /\ queue[1] \in Items /\ fellBack' = fellBack
        /\ \A j \in Items : starts'[j] = IF j = queue[1] THEN 1 ELSE starts[j]
    BY <1>6, TakeStarts, Starting DEF StartsRequest
  <2>2. ASSUME NEW j \in Items, j < queue[1] PROVE starts[j] # 0
    <3>1. 1 \in DOMAIN queue /\ queue[1] <= issued /\ issued \in Nat
      BY <1>1, <2>1 DEF Placed, PoolTypeOK
    <3>2. j < issued
      BY <2>1, <2>2, <3>1 DEF Items
    <3>3. ASSUME NEW k \in DOMAIN queue, queue[k] = j PROVE FALSE
      <4>1. k = 1 \/ 1 < k
        BY <2>1, <3>3
      <4>2. k # 1
        BY <2>2, <2>1, <3>3 DEF Items
      <4>3. queue[1] < queue[k]
        BY <1>1, <3>1, <4>1, <4>2 DEF Queued
      <4> QED BY <2>1, <2>2, <3>3, <4>3 DEF Items
    <3> QED BY <1>1, <3>1, <3>2, <3>3 DEF Placed, Items
  <2> QED BY <1>3, <2>1, <2>2
<1>7. CASE IssueInline
  <2>1. /\ issued + 1 \in Items /\ fellBack' = (fellBack \/ pool = "live")
        /\ \A j \in Items : starts'[j] = IF j = issued + 1 THEN 1 ELSE starts[j]
    BY <1>7, IssueStarts, Starting DEF StartsRequest
  <2>2. CASE pool = "live"
    BY <2>1, <2>2 DEF IssueOrderKept
  <2>3. CASE pool = "single"
    <3>1. queue = <<>> /\ ~Pending /\ issued \in Nat
      BY <1>1, <1>7, <2>3 DEF Single, IssueInline, Pending, IssuePlaces, PoolTypeOK
    <3>2. \A j \in Items : j < issued + 1 => starts[j] # 0
      BY <1>1, <3>1 DEF Placed, Items
    <3>3. fellBack' = fellBack
      BY <1>1, <2>1, <2>3 DEF PoolTypeOK
    <3> QED BY <1>3, <2>1, <3>2, <3>3
  <2>4. pool # "freed"
    BY <1>1, <1>7 DEF IssueInline, Single
  <2> QED BY <1>1, <2>2, <2>3, <2>4 DEF PoolTypeOK
<1>8. CASE IssueLock \/ Enqueue
  BY <1>2, <1>8 DEF IssueLock, Enqueue
<1>9. ASSUME NEW s \in Slots, SpawnStep(s) \/ FailStep(s) PROVE IssueOrderKept'
  <2>1. /\ queue = <<>> /\ issued \in Items
        /\ fellBack' = fellBack \/ fellBack' = TRUE
        /\ \A j \in Items : starts'[j] = IF j = issued THEN 1 ELSE starts[j]
    BY <1>9, ThreadStarts, Starting DEF StartsRequest
  <2>2. \A j \in Items : j < issued => starts[j] # 0
    BY <1>1, <2>1 DEF Placed, Items
  <2>3. CASE fellBack' = TRUE
    BY <2>3 DEF IssueOrderKept
  <2> QED BY <1>3, <2>1, <2>2, <2>3
<1> QED
  BY <1>4, <1>5, <1>6, <1>7, <1>8, <1>9, Steps, StillSteps DEF WorkerStep, IssueStep

-----------------------------------------------------------------------------
(* The theorems.                                                           *)

\* The invariant holds at the start.
LEMMA InitPoolInv ==
    ASSUME Init PROVE PoolInv
<1> USE Names DEF Init
<1>1. PoolTypeOK
  <2>1. 0 \in Slots /\ 0 \in 0 .. NumThreads /\ 0 \in 0 .. NumItems /\ <<>> \in Seq(Items)
    BY PoolAssumption DEF Slots
  <2> QED BY <2>1 DEF PoolTypeOK, CallerPlaces, WorkerPlaces
<1>2. Control
  BY DEF Control, CallerPlaces, WorkerPlaces, Threads
<1>3. Joining /\ Single /\ Writing
  BY DEF Joining, Buried, Single, Writing, DonePlaces, Threads
<1>4. Counting
  <2>1. Alive = {}
    BY DEF Alive
  <2> QED BY <2>1, FS_EmptySet DEF Counting
<1>5. Carried /\ Placed /\ Queued /\ IssueOrderKept
  <2>1. \A t \in Threads : at[t] \notin {"run", "write"}
    OBVIOUS
  <2>2. DOMAIN queue = {} /\ ~Pending
    BY DEF Pending, IssuePlaces
  <2>3. \A i \in Items : ~(i <= issued)
    BY PoolAssumption DEF Items
  <2>4. at[Main] = "idle"
    OBVIOUS
  <2> QED BY <2>1, <2>2, <2>3, <2>4 DEF Carried, Placed, Queued, IssueOrderKept, DonePlaces
<1> QED BY <1>1, <1>2, <1>3, <1>4, <1>5 DEF PoolInv

\* The inductive invariant: where every thread, slot and request is, for any number
\* of threads and requests.
THEOREM PoolInvariant == Spec => []PoolInv
<1>1. Init => PoolInv
  BY InitPoolInv
<1>2. PoolInv /\ [Next]_vars => PoolInv'
  BY TypeStep, ControlStep, JoiningStep, SingleStep, CountingStep, WritingStep, CarriedStep,
     PlacedStep, QueuedStep, OrderStep
  DEF PoolInv
<1> QED BY <1>1, <1>2, PTL DEF Spec

\* What the invariant is for.
LEMMA Safe ==
    ASSUME PoolInv
    PROVE  QueuedWorkIsServed /\ AliveCounted /\ JoinedOnce /\ IssueOrderKept
<1>1. Control /\ Joining /\ Single /\ Counting /\ IssueOrderKept
  BY DEF PoolInv
<1>2. QueuedWorkIsServed
  BY <1>1 DEF Counting, Control, Alive, QueuedWorkIsServed
<1>3. AliveCounted
  BY <1>1 DEF Counting, Alive, AliveCounted
<1>4. JoinedOnce
  BY <1>1 DEF Joining, Single, JoinedOnce
<1> QED BY <1>1, <1>2, <1>3, <1>4

\* For any number of threads and requests: a queued request always has live
\* threads to come for it.
THEOREM WorkServed == Spec => []QueuedWorkIsServed
  BY PoolInvariant, Safe, PTL

\* Outside the lock num_alive agrees with the slots, and hss_thread_issue_work
\* decides by it whether to create a thread or to queue.
THEOREM AliveAgrees == Spec => []AliveCounted
  BY PoolInvariant, Safe, PTL

\* hss_thread_done joins only threads that exist, each once, and frees the
\* collection after the last.
THEOREM JoinsExist == Spec => []JoinedOnce
  BY PoolInvariant, Safe, PTL

\* Requests start in the order of their issue while memory lasts.
THEOREM OrderKept == Spec => []IssueOrderKept
  BY PoolInvariant, Safe, PTL

-----------------------------------------------------------------------------
(* The promise of hss_thread.h.                                            *)

\* When hss_thread_done is about to return, every result is in.
LEMMA AllDone ==
    ASSUME PoolInv, FreePool \/ DoneSingle
    PROVE  results = 1 .. NumItems /\ issued = NumItems /\ at[Main] # "returned"
<1> USE Names
<1>1. PoolTypeOK /\ Control /\ Joining /\ Single /\ Counting /\ Carried /\ Placed
  BY DEF PoolInv
<1>2. at[Main] \in {"reap", "idle"} /\ issued = NumItems
  BY <1>1 DEF FreePool, DoneSingle, Placed, DonePlaces
<1>3. \A s \in Slots : at[s] = "absent"
  <2>1. CASE FreePool
    <3>1. \A s \in Slots : s < slot
      BY <2>1, PoolAssumption DEF FreePool, Slots
    <3> QED BY <1>1, <2>1, <3>1 DEF FreePool, Joining, DonePlaces
  <2>2. CASE DoneSingle
    BY <1>1, <2>2 DEF DoneSingle, Single
  <2> QED BY <2>1, <2>2
<1>4. queue = <<>>
  <2>1. 0 \in Slots
    BY PoolAssumption DEF Slots
  <2>2. Alive # Slots
    BY <1>1, <1>3, <2>1 DEF Control, Alive
  <2> QED BY <1>1, <2>2 DEF Counting
<1>5. ASSUME NEW i \in Items PROVE i \in results
  <2>1. i <= issued
    BY <1>2, PoolAssumption DEF Items
  <2>2. ~Pending
    BY <1>2 DEF Pending, IssuePlaces
  <2>3. starts[i] # 0
    BY <1>1, <1>4, <2>1, <2>2 DEF Placed
  <2>4. ASSUME NEW t \in Threads, doing[t] = i PROVE FALSE
    <3>1. at[t] \in {"run", "write"}
      BY <1>1, <2>4 DEF Carried
    <3> QED BY <1>2, <1>3, <3>1 DEF Threads
  <2> QED BY <1>1, <2>3, <2>4 DEF Carried
<1>6. results \subseteq Items
  BY <1>1 DEF PoolTypeOK
<1> QED BY <1>2, <1>5, <1>6 DEF Items

\* Every step is one of WorkBatch, or leaves its variables alone.
LEMMA BatchStep ==
    ASSUME PoolInv, [Next]_vars
    PROVE  [Batch!Next]_(Batch!vars)
<1> USE Names DEF Batch!Next, Batch!vars
<1>1. PoolTypeOK /\ Control /\ Carried /\ Placed
  BY DEF PoolInv
<1>2. ASSUME NEW t \in Threads, AfterWrite(t) PROVE [Batch!Next]_(Batch!vars)
  <2>1. /\ doing[t] \in Items /\ results' = results \cup {doing[t]} /\ issued' = issued
        /\ (at'[Main] = "returned") = (at[Main] = "returned")
    BY <1>2, Storing
  <2>2. doing[t] \notin results /\ doing[t] <= issued
    BY <1>1, <2>1 DEF Carried, Placed
  <2>3. Batch!Complete(doing[t]) /\ doing[t] \in 1 .. issued
    BY <1>1, <2>1, <2>2 DEF Batch!Complete, Items, PoolTypeOK
  <2> QED BY <2>3
<1>3. CASE IssueInline \/ IssueLock
  <2>1. /\ issued < NumItems /\ issued' = issued + 1 /\ results' = results
        /\ at[Main] = "idle" /\ at'[Main] \in {"run", "scan"}
    BY <1>1, <1>3 DEF IssueInline, IssueLock, Goto, PoolTypeOK, workVars
  <2> QED BY <2>1 DEF Batch!Issue
<1>4. CASE FreePool \/ DoneSingle
  <2>1. results' = results /\ issued' = issued /\ at'[Main] = "returned"
    BY <1>1, <1>4 DEF FreePool, DoneSingle, Goto, PoolTypeOK, workVars
  <2> QED BY <1>4, <2>1, AllDone DEF Batch!Return
<1>5. CASE /\ results' = results /\ issued' = issued
           /\ (at'[Main] = "returned") = (at[Main] = "returned")
  BY <1>5
<1>6. ASSUME NEW t \in Threads, BeforeWrite(t) PROVE [Batch!Next]_(Batch!vars)
  BY <1>1, <1>5, <1>6 DEF BeforeWrite, Goto, PoolTypeOK
<1>7. ASSUME NEW s \in Slots, WorkerLock(s) \/ TakeWork(s) \/ Obituary(s)
      PROVE  [Batch!Next]_(Batch!vars)
  BY <1>1, <1>5, <1>7 DEF WorkerLock, TakeWork, Obituary, Goto, PoolTypeOK, workVars
<1>8. CASE Enqueue \/ JoinStep
  BY <1>1, <1>5, <1>8
  DEF Enqueue, JoinStep, RelockToSpawn, UnlockToJoin, Join, Goto, PoolTypeOK, workVars
<1>9. ASSUME NEW s \in Slots, SpawnStep(s) \/ FailStep(s) PROVE [Batch!Next]_(Batch!vars)
  BY <1>1, <1>5, <1>9
  DEF SpawnStep, Spawn, FailStep, SpawnFails, Goto, PoolTypeOK, workVars
<1>10. CASE DoneLock \/ ReapNext \/ ReapUnlock \/ ReapRelock
  BY <1>1, <1>5, <1>10
  DEF DoneLock, ReapNext, ReapUnlock, ReapRelock, Goto, PoolTypeOK, workVars
<1>11. CASE UNCHANGED vars
  BY <1>5, <1>11 DEF vars
<1> QED
  BY <1>2, <1>3, <1>4, <1>6, <1>7, <1>8, <1>9, <1>10, <1>11, Steps
  DEF WorkerStep, IssueStep, DoneStep

\* For any number of threads and requests: each request is carried out exactly
\* once, none is lost or repeated when threads die, cannot be created or memory is
\* short, and hss_thread_done returns only when all results are in.
THEOREM ImplementsBatchSafely ==
    Spec => Batch!Init /\ [][Batch!Next]_(Batch!vars)
<1>1. Init => Batch!Init
  BY Names DEF Init, Batch!Init
<1>2. PoolInv /\ [Next]_vars => [Batch!Next]_(Batch!vars)
  BY BatchStep
<1> QED BY <1>1, <1>2, PoolInvariant, PTL DEF Spec
=============================================================================
