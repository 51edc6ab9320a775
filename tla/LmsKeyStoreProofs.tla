-------------------------- MODULE LmsKeyStoreProofs --------------------------
(***************************************************************************)
(* No one-time index signs twice, and LmsKeyStore implements               *)
(* OneTimeIndices, for any number of processes, files and names, any       *)
(* number of signatures per key and any automatic reservation.             *)
(***************************************************************************)
EXTENDS LmsKeyStore, TLAPS

Busy(p) == pc[p] \in {"lookup", "advance", "sign"}

OneBusy == \A p, q \in Procs : Busy(p) /\ Busy(q) => p = q

FileOfEntry(p, c) == FileOf[cache[p][c].name]

\* The entry is usable and its last write is what the file still holds, so
\* LmsSign would reuse it.
Current(p, c) ==
    /\ cache[p][c] # None
    /\ cache[p][c].usable
    /\ cache[p][c].reserve = disk[FileOfEntry(p, c)]

\* Index i of key f, and every later one, has never signed.
UnusedFrom(f, i) == \A j \in Index : i <= j => issued[f][j] = 0

EntriesBehind ==
    \A p \in Procs, c \in Names : cache[p][c] # None =>
        /\ cache[p][c].reserve <= disk[FileOfEntry(p, c)]
        /\ cache[p][c].usable => cache[p][c].count <= cache[p][c].reserve

CurrentUnused ==
    \A p \in Procs, c \in Names :
        Current(p, c) => UnusedFrom(FileOfEntry(p, c), cache[p][c].count)

\* Of two current entries for one file, at most one still has indices reserved.
OneReservation ==
    \A p, q \in Procs, c, d \in Names :
        /\ Current(p, c) /\ Current(q, d)
        /\ FileOfEntry(p, c) = FileOfEntry(q, d)
        /\ <<p, c>> # <<q, d>>
        => \/ cache[p][c].count = cache[p][c].reserve
           \/ cache[q][d].count = cache[q][d].reserve

Advancing ==
    \A p \in Procs, c \in Names :
        pc[p] = "advance" /\ canon[p] = c => Current(p, c)

\* The working key p is about to sign with: its index is unused and stored.
Ready(p, c) ==
    /\ cache[p][c] # None
    /\ cache[p][c].count \in Index
    /\ cache[p][c].count < disk[FileOfEntry(p, c)]
    /\ UnusedFrom(FileOfEntry(p, c), cache[p][c].count)
    /\ \/ Current(p, c)
       \/ ~cache[p][c].usable /\ disk[FileOfEntry(p, c)] = Expired

Signing ==
    \A p \in Procs, c \in Names : pc[p] = "sign" /\ canon[p] = c => Ready(p, c)

Inv == /\ TypeOK /\ OneBusy /\ EntriesBehind /\ CurrentUnused /\ OneReservation
       /\ Advancing /\ Signing /\ StoredStateCoversSignatures /\ IndexUsedOnce

-----------------------------------------------------------------------------
\* Indices, stored indices and signature counts are numbers in range.
LEMMA Numbers ==
    ASSUME TypeOK
    PROVE  /\ \A f \in Files : disk[f] \in Nat /\ disk[f] <= Expired
           /\ \A i \in Index : i \in Nat /\ i < Expired
           /\ \A f \in Files, i \in Index : issued[f][i] \in Nat
  <1>1. MaxCount \in Nat /\ Expired \in Nat
    BY KeyStoreAssumption DEF Expired
  <1>2. \A f \in Files : disk[f] \in 0 .. Expired
    BY DEF TypeOK
  <1>3. \A i \in Index : i \in 0 .. MaxCount
    BY DEF Index
  <1>4. \A f \in Files, i \in Index : issued[f][i] \in Nat
    BY DEF TypeOK
  <1> QED BY <1>1, <1>2, <1>3, <1>4 DEF Expired

\* The fields of a cached key have their types, and its file is a key file.
LEMMA EntryType ==
    ASSUME TypeOK, NEW p \in Procs, NEW c \in Names, cache[p][c] # None
    PROVE  /\ cache[p][c] \in Entry
           /\ cache[p][c].name \in Names
           /\ cache[p][c].count \in 0 .. Expired
           /\ cache[p][c].reserve \in Index
           /\ cache[p][c].usable \in BOOLEAN
           /\ FileOfEntry(p, c) \in Files
  <1>1. cache[p][c] \in Entry
    BY DEF TypeOK
  <1> QED BY <1>1, KeyStoreAssumption DEF Entry, FileOfEntry

\* What hss_advance_count writes is beyond what is stored.
LEMMA AdvancedBeyond ==
    ASSUME Inv, NEW p \in Procs, pc[p] = "advance", MustWrite(Working(p))
    PROVE  /\ Working(p) # None
           /\ Working(p) = cache[p][canon[p]]
           /\ canon[p] \in Names
           /\ KeyFile(p) = FileOfEntry(p, canon[p])
           /\ KeyFile(p) \in Files
           /\ Advanced(Working(p)) \in 0 .. Expired
           /\ disk[KeyFile(p)] < Advanced(Working(p))
           /\ Working(p).count \in Index
           /\ Working(p).count < Advanced(Working(p))
           /\ LastSignature(Working(p)) => Advanced(Working(p)) = Expired
           /\ ~LastSignature(Working(p)) => Advanced(Working(p)) \in Index
  <1> DEFINE e == cache[p][canon[p]]
  <1>1. canon[p] \in Names /\ Current(p, canon[p]) /\ e # None
    BY DEF Inv, TypeOK, Advancing, Current
  <1>2. Working(p) = e /\ KeyFile(p) = FileOfEntry(p, canon[p])
    BY DEF Working, KeyFile, FileOfEntry
  <1>3. /\ e.count \in 0 .. Expired /\ e.reserve \in Index
        /\ FileOfEntry(p, canon[p]) \in Files
    BY <1>1, EntryType DEF Inv
  <1>4. e.count <= e.reserve /\ e.reserve = disk[FileOfEntry(p, canon[p])]
    BY <1>1 DEF Inv, EntriesBehind, Current
  <1>5. e.count \in Index /\ MaxCount \in Nat /\ autoreserve \in Nat
    BY <1>3, <1>4, KeyStoreAssumption DEF Inv, TypeOK, Index, Expired
  <1>6. CASE LastSignature(e)
    BY <1>1, <1>2, <1>3, <1>4, <1>5, <1>6 DEF Advanced, LastSignature, Expired, Index
  <1>7. CASE ~LastSignature(e)
    <2>1. e.count # MaxCount /\ e.count + 1 > e.reserve
      BY <1>2, <1>7 DEF LastSignature, MustWrite
    <2>2. Advanced(e) \in Index /\ e.count + 1 <= Advanced(e)
      BY <1>5, <1>7, <2>1 DEF Advanced, Index
    <2> QED BY <1>1, <1>2, <1>3, <1>4, <1>5, <1>7, <2>1, <2>2 DEF Expired, Index
  <1> QED BY <1>6, <1>7

\* The invariant holds before the first call of LmsSign.
LEMMA InitInv == Init => Inv
  <1> SUFFICES ASSUME Init PROVE Inv
    OBVIOUS
  <1>1. MaxCount \in Nat
    BY KeyStoreAssumption
  <1>2. TypeOK
    <2>1. disk \in [Files -> 0 .. Expired] /\ issued \in [Files -> [Index -> Nat]]
      BY <1>1 DEF Init, Expired
    <2>2. cache \in [Procs -> [Names -> Entry \cup {None}]]
      BY DEF Init, NoEntries
    <2>3. pc \in [Procs -> {"idle", "lookup", "advance", "sign", "dead"}]
      BY DEF Init
    <2>4. name \in [Procs -> Names] /\ canon \in [Procs -> Names] /\ faults \in BOOLEAN
         /\ autoreserve \in AutoReserves
      BY DEF Init
    <2> QED BY <2>1, <2>2, <2>3, <2>4 DEF TypeOK
  <1>3. \A p \in Procs, c \in Names : cache[p][c] = None
    BY DEF Init, NoEntries
  <1>4. \A p \in Procs : pc[p] = "idle"
    BY DEF Init
  <1>5. OneBusy /\ Advancing /\ Signing
    BY <1>4 DEF OneBusy, Busy, Advancing, Signing
  <1>6. EntriesBehind /\ CurrentUnused /\ OneReservation
    BY <1>3 DEF EntriesBehind, CurrentUnused, OneReservation, Current
  <1>7. StoredStateCoversSignatures /\ IndexUsedOnce
    BY DEF Init, StoredStateCoversSignatures, IndexUsedOnce
  <1> QED BY <1>2, <1>5, <1>6, <1>7 DEF Inv

\* A step that moves only pc, name and the key in use (Begin, ReuseKey,
\* AdvanceReserved, Restart) keeps everything that speaks of caches and files.
LEMMA PcStep ==
    ASSUME Inv, UNCHANGED <<disk, cache, issued>>
    PROVE  /\ EntriesBehind' /\ CurrentUnused' /\ OneReservation'
           /\ StoredStateCoversSignatures' /\ IndexUsedOnce'
           /\ \A p \in Procs, c \in Names : Current(p, c)' <=> Current(p, c)
           /\ \A p \in Procs, c \in Names : Ready(p, c)' <=> Ready(p, c)
  BY DEF Ready, Inv, EntriesBehind, CurrentUnused, OneReservation, Current, FileOfEntry,
         UnusedFrom, StoredStateCoversSignatures, IndexUsedOnce

\* Entering LmsSign changes no key: only the process becomes busy.
LEMMA BeginInv ==
    ASSUME Inv, NEW p \in Procs, NEW n \in Names, Begin(p, n)
    PROVE  Inv'
  <1>1. TypeOK'
    BY DEF Inv, TypeOK, Begin, Goto
  <1>2. \A q \in Procs : pc'[q] = IF q = p THEN "lookup" ELSE pc[q]
    BY DEF Inv, TypeOK, Begin, Goto
  <1>3. \A q \in Procs : pc[q] \in {"idle", "dead"}
    BY DEF Begin
  <1>4. OneBusy' /\ Advancing' /\ Signing'
    BY <1>2, <1>3 DEF OneBusy, Busy, Advancing, Signing
  <1> QED BY <1>1, <1>4, PcStep DEF Inv, Begin

\* A restarted process has an empty cache, so it starts as at the beginning.
LEMMA RestartInv ==
    ASSUME Inv, NEW p \in Procs, Restart(p)
    PROVE  Inv'
  <1>1. TypeOK'
    BY DEF Inv, TypeOK, Restart, Goto
  <1>2. \A q \in Procs : pc'[q] = IF q = p THEN "idle" ELSE pc[q]
    BY DEF Inv, TypeOK, Restart, Goto
  <1>3. OneBusy'
    BY <1>2 DEF Inv, OneBusy, Busy
  <1>4. UNCHANGED <<disk, cache, canon, issued>>
    BY DEF Restart
  <1>5. /\ \A q \in Procs, c \in Names : Current(q, c)' <=> Current(q, c)
        /\ \A q \in Procs, c \in Names : Ready(q, c)' <=> Ready(q, c)
    BY <1>4, PcStep
  <1>6. Advancing'
    BY <1>2, <1>4, <1>5 DEF Inv, Advancing
  <1>7. Signing'
    BY <1>2, <1>4, <1>5 DEF Inv, Signing
  <1> QED BY <1>1, <1>3, <1>4, <1>6, <1>7, PcStep DEF Inv

\* Reusing a cached key is safe because cached_key_matches_storage has just held:
\* the entry is current, hence its next index is unused.
LEMMA ReuseInv ==
    ASSUME Inv, NEW p \in Procs, NEW c \in Names, ReuseKey(p, c)
    PROVE  Inv'
  <1>1. TypeOK'
    BY DEF Inv, TypeOK, ReuseKey, Goto
  <1>2. \A q \in Procs : pc'[q] = IF q = p THEN "advance" ELSE pc[q]
    BY DEF Inv, TypeOK, ReuseKey, Goto
  <1>3. \A q \in Procs : canon'[q] = IF q = p THEN c ELSE canon[q]
    BY DEF Inv, TypeOK, ReuseKey
  <1>4. pc[p] = "lookup" /\ UNCHANGED <<disk, cache, issued>>
    BY DEF ReuseKey
  <1>5. OneBusy'
    BY <1>2, <1>4 DEF Inv, OneBusy, Busy
  <1>6. Current(p, c)
    BY DEF ReuseKey, Reusable, MatchesStorage, Current, FileOfEntry
  <1>7. \A q \in Procs, d \in Names : Current(q, d)' <=> Current(q, d)
    BY <1>4, PcStep
  <1>8. Advancing'
    BY <1>2, <1>3, <1>6, <1>7 DEF Inv, Advancing
  <1>9. Signing'
    BY <1>2, <1>4 DEF Inv, Signing, OneBusy, Busy
  <1> QED BY <1>1, <1>4, <1>5, <1>8, <1>9, PcStep DEF Inv

\* hss_advance_count without a write: the index lies below the stored one already.
LEMMA ReservedInv ==
    ASSUME Inv, NEW p \in Procs, AdvanceReserved(p)
    PROVE  Inv'
  <1> DEFINE e == cache[p][canon[p]]
  <1>1. TypeOK'
    BY DEF Inv, TypeOK, AdvanceReserved, Goto
  <1>2. \A q \in Procs : pc'[q] = IF q = p THEN "sign" ELSE pc[q]
    BY DEF Inv, TypeOK, AdvanceReserved, Goto
  <1>3. /\ pc[p] = "advance" /\ ~MustWrite(e)
        /\ UNCHANGED <<disk, cache, name, canon, issued>>
    BY DEF AdvanceReserved, Working
  <1>4. OneBusy'
    BY <1>2, <1>3 DEF Inv, OneBusy, Busy
  <1>5. Advancing'
    BY <1>2, <1>3 DEF Inv, OneBusy, Busy, Advancing
  <1>6. canon[p] \in Names /\ Current(p, canon[p]) /\ e # None
    BY <1>3 DEF Inv, TypeOK, Advancing, Current
  <1>7. e.count \in 0 .. Expired /\ e.reserve \in Index
    BY <1>6, EntryType DEF Inv
  <1>8. e.count + 1 <= e.reserve /\ e.count \in Index
    BY <1>3, <1>7, KeyStoreAssumption DEF MustWrite, Index
  <1>9. /\ e.count < disk[FileOfEntry(p, canon[p])]
        /\ UnusedFrom(FileOfEntry(p, canon[p]), e.count)
    BY <1>6, <1>7, <1>8 DEF Inv, CurrentUnused, Current, Index
  <1>10. Ready(p, canon[p])
    BY <1>6, <1>8, <1>9 DEF Ready
  <1>11. \A q \in Procs, c \in Names : Ready(q, c)' <=> Ready(q, c)
    BY <1>3, PcStep
  <1>12. Signing'
    <2> SUFFICES ASSUME NEW q \in Procs, NEW c \in Names,
                        pc'[q] = "sign", canon'[q] = c
                 PROVE  Ready(q, c)'
      BY DEF Signing
    <2>1. q = p
      BY <1>2, <1>3 DEF Inv, OneBusy, Busy
    <2> QED BY <1>3, <1>10, <1>11, <2>1
  <1> QED BY <1>1, <1>3, <1>4, <1>5, <1>12, PcStep DEF Inv

\* A key read from storage stands at the stored index, beyond every signature
\* that has left (StoredStateCoversSignatures).
LEMMA LoadInv ==
    ASSUME Inv, NEW p \in Procs, NEW c \in Names, LoadKey(p, c),
           NEW n \in Names, n = name[p], NEW f \in Files, f = FileOf[n],
           NEW e, e = Loaded(n)
    PROVE  Inv'
  <1>1. /\ pc[p] = "lookup" /\ UNCHANGED <<disk, name, issued>>
        /\ disk[f] \in Index
    BY KeyStoreAssumption DEF LoadKey, Inv, TypeOK, Index, Expired
  <1>2. /\ e \in Entry /\ e.name = n /\ e.usable = TRUE
        /\ e.count = disk[f] /\ e.reserve = disk[f]
    BY <1>1, KeyStoreAssumption DEF Loaded, Entry, Index, Expired
  <1>3. \A q \in Procs, d \in Names :
            cache'[q][d] = IF q = p /\ d = c THEN e ELSE cache[q][d]
    BY DEF LoadKey, Inv, TypeOK
  <1>4. \A q \in Procs : /\ pc'[q] = IF q = p THEN "advance" ELSE pc[q]
                         /\ canon'[q] = IF q = p THEN c ELSE canon[q]
    BY DEF LoadKey, Goto, Inv, TypeOK
  <1>5. TypeOK'
    BY <1>2 DEF Inv, TypeOK, LoadKey, Goto
  <1>6. OneBusy'
    BY <1>1, <1>4 DEF Inv, OneBusy, Busy
  <1>7. e # None
    BY <1>2, NoneAssumption
  <1>8. \A q \in Procs, d \in Names : ~(q = p /\ d = c) =>
            /\ FileOfEntry(q, d)' = FileOfEntry(q, d)
            /\ Current(q, d)' <=> Current(q, d)
    BY <1>1, <1>3 DEF Current, FileOfEntry
  <1>9. FileOfEntry(p, c)' = f /\ Current(p, c)'
    BY <1>1, <1>2, <1>3, <1>7 DEF Current, FileOfEntry
  <1>10. EntriesBehind'
    BY <1>1, <1>2, <1>3, <1>8, <1>9 DEF Inv, EntriesBehind, Index
  <1>11. CurrentUnused'
    <2>1. UnusedFrom(f, disk[f])
      <3> SUFFICES ASSUME NEW j \in Index, disk[f] <= j PROVE issued[f][j] = 0
        BY DEF UnusedFrom
      <3>1. issued[f][j] \in Nat /\ ~(issued[f][j] > 0)
        BY <1>1, KeyStoreAssumption
           DEF Inv, TypeOK, StoredStateCoversSignatures, Index
      <3> QED BY <3>1
    <2> QED BY <1>1, <1>2, <1>3, <1>8, <1>9, <2>1 DEF Inv, CurrentUnused, UnusedFrom
  <1>12. OneReservation'
    BY <1>2, <1>3, <1>8, <1>9 DEF Inv, OneReservation
  <1>13. Advancing'
    BY <1>1, <1>4, <1>8, <1>9 DEF Inv, Advancing
  <1>14. Signing'
    BY <1>1, <1>4 DEF Inv, Signing, OneBusy, Busy
  <1>15. StoredStateCoversSignatures' /\ IndexUsedOnce'
    BY <1>1 DEF Inv, StoredStateCoversSignatures, IndexUsedOnce
  <1> QED BY <1>5, <1>6, <1>10, <1>11, <1>12, <1>13, <1>14, <1>15 DEF Inv

\* update_private_key moves the stored index past the one about to sign, which
\* makes every other entry for that file stale.
LEMMA WriteInv ==
    ASSUME Inv, NEW p \in Procs, AdvanceWrite(p),
           NEW c \in Names, c = canon[p], NEW e \in Entry, e = cache[p][c],
           NEW f \in Files, f = FileOf[e.name],
           NEW a \in 0 .. Expired, a = Advanced(e),
           NEW b, b = AdvancedEntry(e)
    PROVE  Inv'
  <1>1. /\ pc[p] = "advance" /\ MustWrite(e)
        /\ UNCHANGED <<name, canon, issued, faults>>
    BY DEF AdvanceWrite, Working
  <1>2. /\ e # None /\ Working(p) = e /\ KeyFile(p) = f
        /\ f = FileOfEntry(p, c)
        /\ disk[f] < a
        /\ e.count \in Index /\ e.count < a
        /\ LastSignature(e) => a = Expired
        /\ ~LastSignature(e) => a \in Index
    BY <1>1, AdvancedBeyond, NoneAssumption DEF Working, FileOfEntry
  <1>3. Current(p, c) /\ UnusedFrom(f, e.count)
    BY <1>1, <1>2 DEF Inv, Advancing, CurrentUnused
  <1>num. /\ disk[f] \in Nat /\ a \in Nat /\ e.count \in Nat
          /\ e.reserve = disk[f] /\ e.reserve \in Nat
    BY <1>2, <1>3, KeyStoreAssumption DEF Inv, TypeOK, Current, Index, Expired
  <1>4. /\ b \in Entry /\ b.name = e.name
        /\ b.count = e.count
        /\ LastSignature(e) => ~b.usable
        /\ LastSignature(e) => b.reserve = e.reserve
        /\ ~LastSignature(e) => b.reserve = a
        /\ ~LastSignature(e) => b.usable = e.usable
    BY <1>2, <1>3 DEF AdvancedEntry, Entry
  <1>5. b # None
    BY <1>4, NoneAssumption
  <1>6. \A q \in Procs, d \in Names :
            cache'[q][d] = IF q = p /\ d = c THEN b ELSE cache[q][d]
    BY <1>2 DEF AdvanceWrite, Inv, TypeOK
  <1>7. \A g \in Files : disk'[g] = IF g = f THEN a ELSE disk[g]
    BY <1>2 DEF AdvanceWrite, Inv, TypeOK
  <1>8. \A q \in Procs : pc'[q] = IF q = p THEN "sign" ELSE pc[q]
    BY DEF AdvanceWrite, Goto, Inv, TypeOK
  <1>9. TypeOK'
    BY <1>2, <1>4 DEF Inv, TypeOK, AdvanceWrite, Goto
  <1>10. OneBusy'
    BY <1>1, <1>8 DEF Inv, OneBusy, Busy
  <1>11. FileOfEntry(p, c)' = f
    BY <1>2, <1>4, <1>6 DEF FileOfEntry
  <1>12. \A q \in Procs, d \in Names : ~(q = p /\ d = c) =>
            FileOfEntry(q, d)' = FileOfEntry(q, d)
    BY <1>6 DEF FileOfEntry
  <1>13. \A q \in Procs, d \in Names : ~(q = p /\ d = c) /\ Current(q, d)' =>
            Current(q, d) /\ FileOfEntry(q, d) # f
    <2> SUFFICES ASSUME NEW q \in Procs, NEW d \in Names,
                        ~(q = p /\ d = c), Current(q, d)'
                 PROVE  Current(q, d) /\ FileOfEntry(q, d) # f
      OBVIOUS
    <2>1. cache'[q][d] = cache[q][d] /\ cache[q][d] # None
      BY <1>6 DEF Current
    <2>2. FileOfEntry(q, d) \in Files /\ cache[q][d].reserve \in Index
      BY <2>1, EntryType DEF Inv
    <2>3. cache[q][d].reserve = disk'[FileOfEntry(q, d)]
      BY <1>12, <2>1 DEF Current
    <2>4. cache[q][d].reserve <= disk[FileOfEntry(q, d)]
      BY <2>1 DEF Inv, EntriesBehind
    <2>5. FileOfEntry(q, d) # f
      BY <1>2, <1>7, <2>2, <2>3, <2>4, KeyStoreAssumption
         DEF Inv, TypeOK, Index, Expired
    <2> QED BY <1>7, <2>1, <2>2, <2>3, <2>5 DEF Current
  <1>14. EntriesBehind'
    <2> SUFFICES ASSUME NEW q \in Procs, NEW d \in Names, cache'[q][d] # None
                 PROVE  /\ cache'[q][d].reserve <= disk'[FileOfEntry(q, d)']
                        /\ cache'[q][d].usable =>
                              cache'[q][d].count <= cache'[q][d].reserve
      BY DEF EntriesBehind
    <2>1. CASE q = p /\ d = c
      <3>1. cache'[q][d] = b /\ FileOfEntry(q, d)' = f /\ disk'[f] = a
        BY <1>6, <1>7, <1>11, <2>1
      <3> QED BY <1>2, <1>4, <1>num, <3>1
    <2>2. CASE ~(q = p /\ d = c)
      <3>1. /\ cache'[q][d] = cache[q][d]
            /\ FileOfEntry(q, d)' = FileOfEntry(q, d)
        BY <1>6, <1>12, <2>2
      <3>2. /\ FileOfEntry(q, d) \in Files /\ cache[q][d].reserve \in Index
            /\ cache[q][d].reserve <= disk[FileOfEntry(q, d)]
            /\ cache[q][d].usable => cache[q][d].count <= cache[q][d].reserve
        BY <3>1, EntryType DEF Inv, EntriesBehind
      <3>3. /\ disk[FileOfEntry(q, d)] \in Nat
            /\ disk[FileOfEntry(q, d)] <= disk'[FileOfEntry(q, d)]
            /\ disk'[FileOfEntry(q, d)] \in Nat
        BY <1>2, <1>7, <1>num, <3>2, Numbers DEF Inv
      <3>4. cache[q][d].reserve <= disk'[FileOfEntry(q, d)]
        BY <3>2, <3>3, KeyStoreAssumption DEF Index
      <3> QED BY <3>1, <3>2, <3>4
    <2> QED BY <2>1, <2>2
  <1>15. CurrentUnused'
    BY <1>1, <1>3, <1>4, <1>6, <1>11, <1>12, <1>13 DEF Inv, CurrentUnused, UnusedFrom
  <1>16. OneReservation'
    BY <1>6, <1>11, <1>12, <1>13 DEF Inv, OneReservation
  <1>17. Advancing'
    BY <1>1, <1>8 DEF Inv, OneBusy, Busy, Advancing
  <1>18. Ready(p, c)'
    <2>1. CASE LastSignature(e)
      BY <1>1, <1>2, <1>3, <1>4, <1>5, <1>6, <1>7, <1>11, <2>1
         DEF Ready, UnusedFrom
    <2>2. CASE ~LastSignature(e)
      <3>1. b.usable
        BY <1>3, <1>4, <2>2 DEF Current
      <3> QED BY <1>1, <1>2, <1>3, <1>4, <1>5, <1>6, <1>7, <1>11, <2>2, <3>1
              DEF Ready, UnusedFrom, Current
    <2> QED BY <2>1, <2>2
  <1>19. Signing'
    BY <1>1, <1>8, <1>18 DEF Inv, OneBusy, Busy, Signing
  <1>20. StoredStateCoversSignatures' /\ IndexUsedOnce'
    <2>1. IndexUsedOnce'
      BY <1>1 DEF Inv, IndexUsedOnce
    <2>2. SUFFICES ASSUME NEW g \in Files, NEW i \in Index, issued'[g][i] > 0
                   PROVE  i < disk'[g]
      BY <2>1 DEF StoredStateCoversSignatures
    <2>3. i < disk[g] /\ i \in Nat /\ disk[g] \in Nat
      <3>1. issued[g][i] > 0
        BY <1>1, <2>2
      <3>2. TypeOK /\ StoredStateCoversSignatures
        BY DEF Inv
      <3> QED BY <3>1, <3>2, Numbers DEF StoredStateCoversSignatures
    <2> QED BY <1>2, <1>7, <1>num, <2>3
  <1> QED BY <1>9, <1>10, <1>14, <1>15, <1>16, <1>17, <1>19, <1>20 DEF Inv

\* A process that ends, whatever it left on disk: the file it was working on
\* keeps its state or is further on.
LEMMA DieInv ==
    ASSUME Inv, NEW p \in Procs, Die(p),
           disk' \in [Files -> 0 .. Expired],
           \A f \in Files : disk'[f] >= disk[f],
           Busy(p) \/ UNCHANGED disk
    PROVE  Inv'
  <1>1. TypeOK'
    BY DEF Inv, TypeOK, Die, Goto, NoEntries
  <1>2. \A q \in Procs : pc'[q] = IF q = p THEN "dead" ELSE pc[q]
    BY DEF Die, Goto, Inv, TypeOK
  <1>3. \A q \in Procs, d \in Names :
            cache'[q][d] = IF q = p THEN None ELSE cache[q][d]
    BY DEF Die, NoEntries, Inv, TypeOK
  <1>4. UNCHANGED <<name, canon, issued>>
    BY DEF Die
  <1>5. OneBusy'
    BY <1>2 DEF Inv, OneBusy, Busy
  <1>6. \A q \in Procs, d \in Names : q # p =>
            FileOfEntry(q, d)' = FileOfEntry(q, d)
    BY <1>3 DEF FileOfEntry
  <1>7. \A f \in Files : /\ disk[f] \in Nat /\ disk'[f] \in Nat
                         /\ disk[f] <= disk'[f]
    BY Numbers, KeyStoreAssumption DEF Inv, Expired
  <1>8. \A q \in Procs, d \in Names : Current(q, d)' => q # p /\ Current(q, d)
    <2> SUFFICES ASSUME NEW q \in Procs, NEW d \in Names, Current(q, d)'
                 PROVE  q # p /\ Current(q, d)
      OBVIOUS
    <2>1. q # p /\ cache'[q][d] = cache[q][d] /\ cache[q][d] # None
      BY <1>3 DEF Current
    <2>2. /\ FileOfEntry(q, d) \in Files /\ cache[q][d].reserve \in Nat
          /\ cache[q][d].reserve <= disk[FileOfEntry(q, d)]
      BY <2>1, EntryType, Numbers DEF Inv, EntriesBehind
    <2>3. cache[q][d].reserve = disk'[FileOfEntry(q, d)]
      BY <1>6, <2>1 DEF Current
    <2> QED BY <1>7, <2>1, <2>2, <2>3 DEF Current
  <1>9. EntriesBehind'
    <2> SUFFICES ASSUME NEW q \in Procs, NEW d \in Names, cache'[q][d] # None
                 PROVE  /\ cache'[q][d].reserve <= disk'[FileOfEntry(q, d)']
                        /\ cache'[q][d].usable =>
                              cache'[q][d].count <= cache'[q][d].reserve
      BY DEF EntriesBehind
    <2>1. q # p /\ cache'[q][d] = cache[q][d]
      BY <1>3
    <2>2. /\ FileOfEntry(q, d) \in Files /\ cache[q][d].reserve \in Nat
          /\ cache[q][d].reserve <= disk[FileOfEntry(q, d)]
          /\ cache[q][d].usable => cache[q][d].count <= cache[q][d].reserve
      BY <2>1, EntryType, Numbers DEF Inv, EntriesBehind
    <2>3. cache[q][d].reserve <= disk'[FileOfEntry(q, d)]
      BY <1>7, <2>2
    <2> QED BY <1>6, <2>1, <2>2, <2>3
  <1>10. CurrentUnused'
    BY <1>3, <1>4, <1>6, <1>8 DEF Inv, CurrentUnused, UnusedFrom
  <1>11. OneReservation'
    BY <1>3, <1>6, <1>8 DEF Inv, OneReservation
  <1>12. \A q \in Procs : q # p /\ Busy(q) => UNCHANGED disk
    BY DEF Inv, OneBusy
  <1>13. Advancing'
    BY <1>2, <1>3, <1>4, <1>6, <1>12 DEF Inv, Advancing, Busy, Current
  <1>14. Signing'
    BY <1>2, <1>3, <1>4, <1>6, <1>12
       DEF Inv, Signing, Busy, Ready, Current, UnusedFrom
  <1>15. StoredStateCoversSignatures' /\ IndexUsedOnce'
    <2>1. IndexUsedOnce'
      BY <1>4 DEF Inv, IndexUsedOnce
    <2>2. SUFFICES ASSUME NEW g \in Files, NEW i \in Index, issued'[g][i] > 0
                   PROVE  i < disk'[g]
      BY <2>1 DEF StoredStateCoversSignatures
    <2>3. issued[g][i] > 0
      BY <1>4, <2>2
    <2>4. i < disk[g] /\ i \in Nat
      BY <2>3, Numbers DEF Inv, StoredStateCoversSignatures
    <2> QED BY <1>7, <2>4
  <1> QED BY <1>1, <1>5, <1>9, <1>10, <1>11, <1>13, <1>14, <1>15 DEF Inv

\* A failed write leaves the old or the new index in the file and no entry in use.
LEMMA AdvanceFailsInv ==
    ASSUME Inv, NEW p \in Procs, AdvanceFails(p)
    PROVE  Inv'
  <1>1. /\ pc[p] = "advance" /\ MustWrite(Working(p)) /\ Die(p)
        /\ \/ UNCHANGED disk
           \/ disk' = [disk EXCEPT ![KeyFile(p)] = Advanced(Working(p))]
    BY DEF AdvanceFails
  <1>2. /\ KeyFile(p) \in Files /\ Advanced(Working(p)) \in 0 .. Expired
        /\ disk[KeyFile(p)] < Advanced(Working(p))
    BY <1>1, AdvancedBeyond
  <1>3. disk \in [Files -> 0 .. Expired] /\ \A f \in Files : disk[f] \in Nat
    BY Numbers DEF Inv, TypeOK
  <1>4. disk' \in [Files -> 0 .. Expired]
    BY <1>1, <1>2, <1>3
  <1>5. \A f \in Files : disk'[f] >= disk[f]
    BY <1>1, <1>2, <1>3
  <1> QED BY <1>1, <1>4, <1>5, DieInv DEF Busy

\* Signing uses an index nobody else can still use: another current entry for
\* the same file stands at the stored index, which is beyond this one.
LEMMA OthersBeyond ==
    ASSUME Inv, NEW p \in Procs, NEW c \in Names, Ready(p, c),
           NEW q \in Procs, NEW d \in Names, <<p, c>> # <<q, d>>,
           Current(q, d), FileOfEntry(q, d) = FileOfEntry(p, c)
    PROVE  /\ cache[q][d].count = cache[q][d].reserve
           /\ cache[p][c].count < cache[q][d].count
  <1>1. /\ cache[p][c].count \in Nat /\ cache[q][d].count \in 0 .. Expired
        /\ cache[q][d].reserve \in Index /\ cache[q][d].reserve \in Nat
        /\ cache[q][d].reserve = disk[FileOfEntry(p, c)]
    BY EntryType, Numbers DEF Inv, Ready, Current
  <1>2. Current(p, c)
    BY <1>1, Numbers DEF Inv, Ready
  <1>3. /\ cache[p][c].reserve = disk[FileOfEntry(p, c)]
        /\ cache[p][c].count < disk[FileOfEntry(p, c)]
    BY <1>2 DEF Current, Ready
  <1>4. cache[p][c].count # cache[p][c].reserve
    BY <1>1, <1>3
  <1>5. cache[q][d].count = cache[q][d].reserve
    BY <1>2, <1>4 DEF Inv, OneReservation
  <1> QED BY <1>1, <1>3, <1>5

\* hss_generate_signature uses an index that is unused and already stored.
LEMMA SignInv ==
    ASSUME Inv, NEW p \in Procs, Sign(p),
           NEW c \in Names, c = canon[p], NEW e \in Entry, e = cache[p][c],
           NEW f \in Files, f = FileOf[e.name], NEW b, b = [e EXCEPT !.count = @ + 1]
    PROVE  Inv'
  <1>1. pc[p] = "sign" /\ UNCHANGED <<disk, name, canon, faults>>
    BY DEF Sign
  <1>2. /\ e # None /\ Working(p) = e /\ KeyFile(p) = f /\ f = FileOfEntry(p, c)
    BY NoneAssumption DEF Working, KeyFile, FileOfEntry
  <1>3. Ready(p, c)
    BY <1>1 DEF Inv, Signing
  <1>4. /\ e.count \in Index /\ e.count \in Nat /\ e.count < disk[f]
        /\ disk[f] \in Nat /\ disk[f] <= Expired /\ e.count + 1 \in 0 .. Expired
        /\ UnusedFrom(f, e.count)
    <2>1. /\ e.count \in Index /\ e.count < disk[f] /\ UnusedFrom(f, e.count)
      BY <1>2, <1>3 DEF Ready
    <2>2. /\ e.count \in Nat /\ disk[f] \in Nat /\ disk[f] <= Expired
          /\ Expired \in Nat
      BY <2>1, Numbers, KeyStoreAssumption DEF Inv, Expired
    <2> QED BY <2>1, <2>2
  <1>5. /\ b \in Entry /\ b # None /\ b.name = e.name /\ b.count = e.count + 1
        /\ b.reserve = e.reserve /\ b.usable = e.usable
    BY <1>4, NoneAssumption DEF Entry
  <1>6. \A q \in Procs, d \in Names :
            cache'[q][d] = IF q = p /\ d = c THEN b ELSE cache[q][d]
    BY DEF Sign, Inv, TypeOK
  <1>7. \A g \in Files, i \in Index :
            issued'[g][i] = IF g = f /\ i = e.count THEN issued[g][i] + 1
                            ELSE issued[g][i]
    BY <1>2, <1>4 DEF Sign, Inv, TypeOK
  <1>8. \A q \in Procs : pc'[q] = IF q = p THEN "idle" ELSE pc[q]
    BY DEF Sign, Goto, Inv, TypeOK
  <1>9. TypeOK'
    <2>1. cache' \in [Procs -> [Names -> Entry \cup {None}]]
      BY <1>5 DEF Sign, Inv, TypeOK
    <2>2. issued' \in [Files -> [Index -> Nat]]
      BY <1>2, <1>4 DEF Sign, Inv, TypeOK
    <2>3. pc' \in [Procs -> {"idle", "lookup", "advance", "sign", "dead"}]
      BY DEF Sign, Goto, Inv, TypeOK
    <2>4. autoreserve' \in AutoReserves
      BY DEF Sign, Inv, TypeOK
    <2> QED BY <1>1, <2>1, <2>2, <2>3, <2>4 DEF Inv, TypeOK
  <1>10. OneBusy'
    BY <1>8 DEF Inv, OneBusy, Busy
  <1>11. \A q \in Procs, d \in Names :
            /\ FileOfEntry(q, d)' = FileOfEntry(q, d)
            /\ Current(q, d)' <=> Current(q, d)
    <2> TAKE q \in Procs, d \in Names
    <2>1. /\ cache'[q][d] = None <=> cache[q][d] = None
          /\ cache'[q][d].name = cache[q][d].name
          /\ cache'[q][d].reserve = cache[q][d].reserve
          /\ cache'[q][d].usable = cache[q][d].usable
      BY <1>2, <1>5, <1>6
    <2> QED BY <1>1, <2>1 DEF Current, FileOfEntry
  <1>12. \A q \in Procs, d \in Names :
            /\ ~(q = p /\ d = c)
            /\ Current(q, d) /\ FileOfEntry(q, d) = f
            => /\ cache[q][d].count = cache[q][d].reserve
               /\ e.count < cache[q][d].count
    BY <1>2, <1>3, OthersBeyond
  <1>13. EntriesBehind'
    <2> SUFFICES ASSUME NEW q \in Procs, NEW d \in Names, cache'[q][d] # None
                 PROVE  /\ cache'[q][d].reserve <= disk[FileOfEntry(q, d)]
                        /\ cache'[q][d].usable =>
                              cache'[q][d].count <= cache'[q][d].reserve
      BY <1>1, <1>11 DEF EntriesBehind
    <2>1. CASE ~(q = p /\ d = c)
      BY <1>6, <2>1 DEF Inv, EntriesBehind
    <2>2. CASE q = p /\ d = c
      <3>1. cache'[q][d] = b /\ e.reserve <= disk[f]
        BY <1>2, <1>6, <2>2 DEF Inv, EntriesBehind
      <3>2. e.usable => e.reserve = disk[f]
        BY <1>2, <1>3 DEF Ready, Current
      <3> QED BY <1>2, <1>4, <1>5, <2>2, <3>1, <3>2
    <2> QED BY <2>1, <2>2
  <1>14. CurrentUnused'
    <2> SUFFICES ASSUME NEW q \in Procs, NEW d \in Names, Current(q, d),
                        NEW j \in Index, cache'[q][d].count <= j
                 PROVE  issued'[FileOfEntry(q, d)][j] = 0
      BY <1>11 DEF CurrentUnused, UnusedFrom
    <2>1. FileOfEntry(q, d) \in Files /\ cache[q][d].count \in Nat /\ j \in Nat
      BY EntryType, Numbers, KeyStoreAssumption DEF Inv, Current, Expired
    <2>2. CASE q = p /\ d = c
      <3>1. e.count + 1 <= j
        BY <1>5, <1>6, <2>2
      <3>2. e.count \in Nat /\ j \in Nat
        BY <1>4, <2>1
      <3>3. e.count <= j /\ j # e.count
        BY <3>1, <3>2
      <3>4. UnusedFrom(f, e.count)
        BY <1>4
      <3>5. issued[f][j] = 0
        BY <3>3, <3>4 DEF UnusedFrom
      <3> QED BY <1>2, <1>7, <2>2, <3>3, <3>5
    <2>3. CASE ~(q = p /\ d = c)
      <3>1. cache[q][d].count <= j
        BY <1>6, <2>3
      <3>2. issued[FileOfEntry(q, d)][j] = 0
        BY <3>1 DEF Inv, CurrentUnused, UnusedFrom
      <3>3. ~(FileOfEntry(q, d) = f /\ j = e.count)
        BY <1>4, <1>12, <2>1, <2>3, <3>1
      <3> QED BY <1>7, <2>1, <3>2, <3>3
    <2> QED BY <2>2, <2>3
  <1>15. OneReservation'
    <2> SUFFICES ASSUME NEW q \in Procs, NEW r \in Procs,
                        NEW d \in Names, NEW s \in Names,
                        Current(q, d), Current(r, s),
                        FileOfEntry(q, d) = FileOfEntry(r, s),
                        <<q, d>> # <<r, s>>
                 PROVE  \/ cache'[q][d].count = cache'[q][d].reserve
                        \/ cache'[r][s].count = cache'[r][s].reserve
      BY <1>11 DEF OneReservation
    <2>1. CASE q = p /\ d = c
      BY <1>2, <1>6, <1>12, <2>1
    <2>2. CASE r = p /\ s = c
      BY <1>2, <1>6, <1>12, <2>2
    <2>3. CASE ~(q = p /\ d = c) /\ ~(r = p /\ s = c)
      BY <1>6, <2>3 DEF Inv, OneReservation
    <2> QED BY <2>1, <2>2, <2>3
  <1>16. Advancing' /\ Signing'
    BY <1>1, <1>8 DEF Inv, OneBusy, Busy, Advancing, Signing
  <1>17. StoredStateCoversSignatures'
    BY <1>1, <1>4, <1>7 DEF Inv, StoredStateCoversSignatures
  <1>18. IndexUsedOnce'
    <2> SUFFICES ASSUME NEW g \in Files, NEW i \in Index
                 PROVE  issued'[g][i] <= 1
      BY DEF IndexUsedOnce
    <2>1. issued[f][e.count] = 0
      <3>1. e.count <= e.count
        BY <1>4
      <3> QED BY <1>4, <3>1, Zenon DEF UnusedFrom
    <2>2. issued[g][i] <= 1
      BY DEF Inv, IndexUsedOnce
    <2> QED BY <1>7, <2>1, <2>2
  <1> QED BY <1>9, <1>10, <1>13, <1>14, <1>15, <1>16, <1>17, <1>18 DEF Inv

-----------------------------------------------------------------------------
\* Every step of a process keeps the invariant.
LEMMA StepInv ==
    ASSUME Inv, NEW p \in Procs, Step(p)
    PROVE  Inv'
  <1>1. ASSUME NEW n \in Names, Begin(p, n) PROVE Inv'
    BY <1>1, BeginInv
  <1>2. ASSUME NEW c \in CanonicalNames(name[p]), ReuseKey(p, c) PROVE Inv'
    BY <1>2, ReuseInv, KeyStoreAssumption DEF Inv, TypeOK, CanonicalNames
  <1>3. ASSUME NEW c \in CanonicalNames(name[p]), LoadKey(p, c) PROVE Inv'
    <2>1. /\ name[p] \in Names /\ c \in Names /\ FileOf[name[p]] \in Files
      BY KeyStoreAssumption DEF Inv, TypeOK, CanonicalNames
    <2> QED BY <1>3, <2>1, LoadInv
  <1>4. ASSUME Die(p), UNCHANGED disk PROVE Inv'
    <2>1. /\ disk' \in [Files -> 0 .. Expired]
          /\ \A f \in Files : disk'[f] >= disk[f]
      BY <1>4, Numbers DEF Inv, TypeOK
    <2> QED BY <1>4, <2>1, DieInv
  <1>5. ASSUME NEW c, LoadExpired(p, c) PROVE Inv'
    BY <1>4, <1>5 DEF LoadExpired
  <1>6. CASE AdvanceReserved(p)
    BY <1>6, ReservedInv
  <1>7. CASE AdvanceWrite(p)
    <2>1. pc[p] = "advance" /\ MustWrite(Working(p))
      BY <1>7 DEF AdvanceWrite
    <2>2. /\ canon[p] \in Names /\ Working(p) = cache[p][canon[p]]
          /\ Working(p) # None /\ Advanced(Working(p)) \in 0 .. Expired
      BY <2>1, AdvancedBeyond
    <2>3. Working(p) \in Entry /\ FileOf[Working(p).name] \in Files
      BY <2>2, EntryType DEF Inv, FileOfEntry
    <2> QED BY <1>7, <2>2, <2>3, WriteInv
  <1>8. CASE AdvanceFails(p)
    BY <1>8, AdvanceFailsInv
  <1>9. CASE Sign(p)
    <2>1. canon[p] \in Names /\ Ready(p, canon[p])
      BY <1>9 DEF Sign, Inv, TypeOK, Signing
    <2>2. /\ cache[p][canon[p]] \in Entry
          /\ FileOf[cache[p][canon[p]].name] \in Files
      BY <2>1, EntryType DEF Inv, Ready, FileOfEntry
    <2> QED BY <1>9, <2>1, <2>2, SignInv
  <1>10. CASE SignFails(p) \/ Crash(p)
    BY <1>4, <1>10 DEF SignFails, Crash
  <1>11. CASE Restart(p)
    BY <1>11, RestartInv
  <1> QED BY <1>1, <1>2, <1>3, <1>5, <1>6, <1>7, <1>8, <1>9, <1>10, <1>11
          DEF Step, GetWorkingKey

\* So does a step of anything else.
LEMMA StutterInv == Inv /\ UNCHANGED vars => Inv'
  BY DEF vars, Inv, TypeOK, OneBusy, Busy, EntriesBehind, CurrentUnused,
         OneReservation, Advancing, Signing, Ready, Current, FileOfEntry,
         UnusedFrom, StoredStateCoversSignatures, IndexUsedOnce

\* The inductive invariant holds in every reachable state: entries never lead
\* their file, a current entry owns the indices from its count on, and two
\* current entries for one file never both have reserved indices left.
THEOREM Invariance == Spec => []Inv
  <1>1. Init => Inv
    BY InitInv
  <1>2. Inv /\ [Next]_vars => Inv'
    BY StepInv, StutterInv DEF Next
  <1> QED BY <1>1, <1>2, PTL DEF Spec

\* Type correctness of the key store: the stored index never passes the expired
\* mark, a cached key is none or an entry, and counters are numbers.
THEOREM TypeCorrect == Spec => []TypeOK
  <1>1. Inv => TypeOK
    BY DEF Inv
  <1> QED BY <1>1, Invariance, PTL

\* No one-time index of a key signs twice, and every index that has signed is
\* below the stored one (SP800-208: the state moves before the signature leaves),
\* across cached keys, aliases of a file, crashes and failed writes.
THEOREM OneTime == Spec => [](IndexUsedOnce /\ StoredStateCoversSignatures)
  <1>1. Inv => IndexUsedOnce /\ StoredStateCoversSignatures
    BY DEF Inv
  <1> QED BY <1>1, Invariance, PTL

\* A restart from the key file cannot hand out the index of a signature that has
\* left, by itself.
THEOREM SignaturesCovered == Spec => []StoredStateCoversSignatures
  BY OneTime, PTL

\* The only steps that touch a key file increase its index.
LEMMA DiskAdvances ==
    ASSUME Inv, [Next]_vars
    PROVE  [\A f \in Files : disk'[f] >= disk[f]]_vars
  <1> SUFFICES ASSUME NEW p \in Procs, Step(p)
               PROVE  \A f \in Files : disk'[f] >= disk[f]
    BY DEF Next
  <1>1. \A f \in Files : disk[f] \in Nat
    BY Numbers DEF Inv
  <1>2. CASE UNCHANGED disk
    BY <1>1, <1>2
  <1>3. CASE /\ pc[p] = "advance" /\ MustWrite(Working(p))
             /\ disk' = [disk EXCEPT ![KeyFile(p)] = Advanced(Working(p))]
    <2>1. /\ disk[KeyFile(p)] < Advanced(Working(p)) /\ KeyFile(p) \in Files
          /\ Advanced(Working(p)) \in Nat
      BY <1>3, AdvancedBeyond, KeyStoreAssumption DEF Expired
    <2> QED BY <1>1, <1>3, <2>1 DEF Inv, TypeOK
  <1> QED BY <1>2, <1>3
          DEF Step, Begin, GetWorkingKey, ReuseKey, LoadKey, LoadExpired,
              AdvanceReserved, AdvanceWrite, AdvanceFails, Sign, SignFails,
              Crash, Restart

\* LmsSign never writes an older state of a key over a newer one: the action
\* property that update_private_key relies on.
THEOREM NeverWrittenBack == Spec => StoredStateOnlyAdvances
  <1>1. Inv /\ [Next]_vars => [\A f \in Files : disk'[f] >= disk[f]]_vars
    BY DiskAdvances
  <1> QED BY <1>1, Invariance, PTL DEF Spec, StoredStateOnlyAdvances

\* A step hands out one signature with an unused index, or none.
LEMMA StepRefines ==
    ASSUME Inv, [Next]_vars
    PROVE  [Abstract!Next]_issued
  <1>1. CASE UNCHANGED issued
    BY <1>1
  <1>2. ASSUME NEW p \in Procs, Sign(p)
        PROVE  Abstract!Next
    <2> DEFINE f == KeyFile(p)
               i == Working(p).count
    <2>1. canon[p] \in Names /\ Ready(p, canon[p])
      BY <1>2 DEF Sign, Inv, TypeOK, Signing
    <2>2. f = FileOfEntry(p, canon[p]) /\ i = cache[p][canon[p]].count
      BY DEF KeyFile, Working, FileOfEntry
    <2>3. f \in Files /\ i \in Index /\ issued[f][i] = 0
      <3>1. i \in Nat
        BY <2>1, <2>2, Numbers DEF Inv, Ready
      <3> QED BY <2>1, <2>2, <3>1, EntryType DEF Inv, Ready, UnusedFrom
    <2>4. issued' = [issued EXCEPT ![f][i] = issued[f][i] + 1]
      BY <1>2 DEF Sign
    <2>5. issued' = [issued EXCEPT ![f][i] = 1]
      BY <2>3, <2>4
    <2> QED BY <2>3, <2>5 DEF Abstract!Next, Abstract!Issue, Index
  <1> QED BY <1>1, <1>2
          DEF vars, Next, Step, Begin, GetWorkingKey, ReuseKey, LoadKey,
              LoadExpired, Die, AdvanceReserved, AdvanceWrite, AdvanceFails,
              SignFails, Crash, Restart

\* The key store implements OneTimeIndices for any number of processes, files
\* and names: the cache of cached_key is invisible from outside.
THEOREM Refinement == Spec => ImplementsOneTimeIndices
  <1>1. Init => Abstract!Init
    BY DEF Init, Abstract!Init, Index
  <1>2. Inv /\ [Next]_vars => [Abstract!Next]_issued
    BY StepRefines
  <1> QED BY <1>1, <1>2, Invariance, PTL
          DEF Spec, ImplementsOneTimeIndices, Abstract!Spec

-----------------------------------------------------------------------------
(* Without faults no index is wasted.                                      *)

SigningWith(p, c) == pc[p] = "sign" /\ canon[p] = c

\* Without reservations a usable key has written just what it has signed; while
\* it signs it is one ahead.
Lockstep ==
    autoreserve = 0 =>
        \A p \in Procs, c \in Names : cache[p][c] # None /\ cache[p][c].usable =>
            cache[p][c].reserve = cache[p][c].count + (IF SigningWith(p, c) THEN 1 ELSE 0)

\* An index of key f that is stored as used and is about to sign.
InFlight(f, i) ==
    \E p \in Procs : \E c \in Names :
        /\ SigningWith(p, c) /\ cache[p][c] # None
        /\ FileOfEntry(p, c) = f /\ cache[p][c].count = i

NothingLost ==
    autoreserve = 0 /\ ~faults =>
        \A f \in Files, i \in Index : i < disk[f] => issued[f][i] = 1 \/ InFlight(f, i)

Accounted == Lockstep /\ NothingLost

\* Steps that change no key, and no process that is signing, keep the account.
LEMMA AccountKept ==
    ASSUME Accounted, UNCHANGED <<disk, cache, issued, faults, autoreserve>>,
           \A p \in Procs, c \in Names : SigningWith(p, c)' <=> SigningWith(p, c)
    PROVE  Accounted'
  <1>1. Lockstep'
    BY DEF Accounted, Lockstep
  <1>2. \A f, i : InFlight(f, i)' <=> InFlight(f, i)
    BY DEF InFlight, FileOfEntry
  <1>3. NothingLost'
    BY <1>2 DEF Accounted, NothingLost
  <1> QED BY <1>1, <1>3 DEF Accounted

\* A process that ends loses its entries, and is a fault.
LEMMA AccountDie ==
    ASSUME Inv, Accounted, NEW p \in Procs, Die(p)
    PROVE  Accounted'
  <1>1. /\ \A q \in Procs : pc'[q] = IF q = p THEN "dead" ELSE pc[q]
        /\ \A q \in Procs : cache'[q] = IF q = p THEN NoEntries ELSE cache[q]
        /\ faults' = TRUE /\ UNCHANGED <<canon, autoreserve>>
    BY DEF Die, Goto, Inv, TypeOK
  <1>2. Lockstep'
    BY <1>1 DEF Accounted, Lockstep, SigningWith, NoEntries
  <1>3. NothingLost'
    BY <1>1 DEF NothingLost
  <1> QED BY <1>2, <1>3 DEF Accounted

\* A key that is loaded stands where its file does.
LEMMA AccountLoad ==
    ASSUME Inv, Accounted, NEW p \in Procs, NEW c \in Names, LoadKey(p, c)
    PROVE  Accounted'
  <1> DEFINE e == Loaded(name[p])
  <1>1. /\ pc[p] = "lookup"
        /\ \A q \in Procs : pc'[q] = IF q = p THEN "advance" ELSE pc[q]
        /\ \A q \in Procs : canon'[q] = IF q = p THEN c ELSE canon[q]
        /\ \A q \in Procs, d \in Names :
              cache'[q][d] = IF q = p /\ d = c THEN e ELSE cache[q][d]
        /\ UNCHANGED <<disk, issued, faults, autoreserve>>
    BY DEF LoadKey, Goto, Inv, TypeOK
  <1>2. \A q \in Procs, d \in Names : SigningWith(q, d)' <=> SigningWith(q, d)
    BY <1>1 DEF SigningWith
  <1>3. Lockstep'
    <2> SUFFICES ASSUME autoreserve = 0, NEW q \in Procs, NEW d \in Names,
                        cache'[q][d] # None, cache'[q][d].usable
                 PROVE  cache'[q][d].reserve =
                            cache'[q][d].count + (IF SigningWith(q, d)' THEN 1 ELSE 0)
      BY <1>1 DEF Lockstep
    <2>1. CASE q = p /\ d = c
      <3>1. ~SigningWith(p, c)' /\ cache'[q][d] = e
        BY <1>1, <2>1 DEF SigningWith
      <3>2. e.count = disk[FileOf[name[p]]] /\ e.reserve = e.count
        BY DEF Loaded
      <3>3. e.count \in Nat
        <4>1. name[p] \in Names /\ FileOf[name[p]] \in Files
          BY KeyStoreAssumption DEF Inv, TypeOK
        <4> QED BY <3>2, <4>1, Numbers DEF Inv
      <3> HIDE DEF e
      <3> QED BY <2>1, <3>1, <3>2, <3>3
    <2>2. CASE ~(q = p /\ d = c)
      <3>1. cache'[q][d] = cache[q][d]
        BY <1>1, <2>2
      <3> QED BY <1>2, <3>1 DEF Accounted, Lockstep
    <2> QED BY <2>1, <2>2
  <1>4. \A f \in Files, i \in Index : InFlight(f, i) => InFlight(f, i)'
    <2> SUFFICES ASSUME NEW f \in Files, NEW i \in Index,
                        NEW q \in Procs, NEW d \in Names,
                        SigningWith(q, d), cache[q][d] # None,
                        FileOfEntry(q, d) = f, cache[q][d].count = i
                 PROVE  InFlight(f, i)'
      BY DEF InFlight
    <2>1. q # p
      BY <1>1 DEF SigningWith
    <2>2. cache'[q][d] = cache[q][d]
      BY <1>1, <2>1
    <2> QED BY <1>2, <2>2 DEF InFlight, FileOfEntry
  <1>5. NothingLost'
    BY <1>1, <1>4 DEF Accounted, NothingLost
  <1> QED BY <1>3, <1>5 DEF Accounted

\* Without reservations the state is written before every signature.
LEMMA AlwaysWrites ==
    ASSUME Inv, Accounted, autoreserve = 0, NEW p \in Procs, pc[p] = "advance"
    PROVE  /\ MustWrite(Working(p))
           /\ Working(p).count = disk[KeyFile(p)]
           /\ Advanced(Working(p)) = Working(p).count + 1
           /\ Working(p).reserve = Working(p).count
  <1> DEFINE c == canon[p]
  <1>1. c \in Names /\ Current(p, c) /\ Working(p) = cache[p][c]
    BY DEF Inv, TypeOK, Advancing, Working
  <1>2. /\ cache[p][c] # None /\ cache[p][c].usable
        /\ cache[p][c].reserve = disk[KeyFile(p)]
    BY <1>1 DEF Current, FileOfEntry, KeyFile
  <1>3. ~SigningWith(p, c)
    BY DEF SigningWith
  <1>4. cache[p][c].count \in Nat /\ cache[p][c].reserve \in Index
    BY <1>1, <1>2, EntryType, KeyStoreAssumption DEF Inv, Expired
  <1>5. cache[p][c].reserve = cache[p][c].count
    BY <1>1, <1>2, <1>3, <1>4 DEF Accounted, Lockstep
  <1>6. MustWrite(Working(p))
    BY <1>1, <1>4, <1>5 DEF MustWrite
  <1>7. Advanced(Working(p)) = Working(p).count + 1
    <2>1. MaxCount \in Nat /\ Working(p).count \in 0 .. MaxCount
      BY <1>1, <1>4, <1>5, KeyStoreAssumption DEF Index
    <2>2. CASE LastSignature(Working(p))
      BY <2>1, <2>2 DEF Advanced, LastSignature, Expired
    <2>3. CASE ~LastSignature(Working(p))
      BY <2>1, <2>3 DEF Advanced, LastSignature
    <2> QED BY <2>2, <2>3
  <1> QED BY <1>1, <1>2, <1>5, <1>6, <1>7

\* What is written is stored as used and about to sign.
LEMMA AccountWrite ==
    ASSUME Inv, Accounted, NEW p \in Procs, AdvanceWrite(p)
    PROVE  Accounted'
  <1> DEFINE c == canon[p]
             e == cache[p][c]
             f == KeyFile(p)
  <1>1. /\ pc[p] = "advance" /\ MustWrite(Working(p)) /\ Working(p) = e
        /\ \A q \in Procs : pc'[q] = IF q = p THEN "sign" ELSE pc[q]
        /\ UNCHANGED <<canon, issued, faults, autoreserve>>
    BY DEF AdvanceWrite, Goto, Inv, TypeOK, Working
  <1>2. /\ c \in Names /\ f = FileOfEntry(p, c) /\ f \in Files /\ e # None
    BY <1>1, AdvancedBeyond
  <1>3. \A q \in Procs, d \in Names :
            cache'[q][d] = IF q = p /\ d = c THEN AdvancedEntry(e) ELSE cache[q][d]
    BY <1>2 DEF AdvanceWrite, Inv, TypeOK
  <1>4. \A g \in Files : disk'[g] = IF g = f THEN Advanced(e) ELSE disk[g]
    BY <1>1, <1>2 DEF AdvanceWrite, Inv, TypeOK
  <1>5. e \in Entry
    BY <1>2, EntryType DEF Inv
  <1>6. /\ AdvancedEntry(e) # None
        /\ AdvancedEntry(e).name = e.name /\ AdvancedEntry(e).count = e.count
        /\ AdvancedEntry(e).usable =>
              ~LastSignature(e) /\ AdvancedEntry(e).reserve = Advanced(e)
    <2>1. e = [name |-> e.name, count |-> e.count, reserve |-> e.reserve, usable |-> e.usable]
      BY <1>5 DEF Entry
    <2>2. AdvancedEntry(e).name = e.name /\ AdvancedEntry(e).count = e.count
      BY <2>1 DEF AdvancedEntry
    <2>3. AdvancedEntry(e) # None
      <3>1. AdvancedEntry(e) \in Entry
        <4>1. CASE LastSignature(e)
          BY <1>5, <4>1 DEF AdvancedEntry, Entry
        <4>2. CASE ~LastSignature(e)
          <5>1. Advanced(e) \in Index
            BY <1>1, <4>2, AdvancedBeyond
          <5> QED BY <1>5, <4>2, <5>1 DEF AdvancedEntry, Entry
        <4> QED BY <4>1, <4>2
      <3> QED BY <3>1, NoneAssumption
    <2>4. AdvancedEntry(e).usable => ~LastSignature(e) /\ AdvancedEntry(e).reserve = Advanced(e)
      BY <1>5 DEF AdvancedEntry, Entry
    <2> QED BY <2>2, <2>3, <2>4
  <1>7. \A q \in Procs \ {p} : pc[q] # "sign"
    BY <1>1 DEF Inv, OneBusy, Busy
  <1>8. \A q \in Procs, d \in Names : SigningWith(q, d)' <=> q = p /\ d = c
    BY <1>1, <1>7 DEF SigningWith
  <1> HIDE DEF c, e, f
  <1>9. autoreserve = 0 => Advanced(e) = e.count + 1 /\ e.count = disk[f]
    BY <1>1, AlwaysWrites DEF c, e, f
  <1>10. Lockstep'
    <2> SUFFICES ASSUME autoreserve = 0, NEW q \in Procs, NEW d \in Names,
                        cache'[q][d] # None, cache'[q][d].usable
                 PROVE  cache'[q][d].reserve =
                            cache'[q][d].count + (IF SigningWith(q, d)' THEN 1 ELSE 0)
      BY <1>1 DEF Lockstep
    <2>1. CASE q = p /\ d = c
      <3>1. cache'[q][d] = AdvancedEntry(e)
        BY <1>3, <2>1
      <3>2. AdvancedEntry(e).reserve = AdvancedEntry(e).count + 1
        BY <1>6, <1>9, <3>1
      <3>3. SigningWith(q, d)'
        BY <1>8, <2>1
      <3> QED BY <3>1, <3>2, <3>3
    <2>2. CASE ~(q = p /\ d = c)
      <3>1. cache'[q][d] = cache[q][d] /\ ~SigningWith(q, d)' /\ ~SigningWith(q, d)
        BY <1>1, <1>3, <1>7, <1>8, <2>2 DEF SigningWith
      <3> QED BY <3>1 DEF Accounted, Lockstep
    <2> QED BY <2>1, <2>2
  <1>11. NothingLost'
    <2> SUFFICES ASSUME autoreserve = 0, ~faults, NEW g \in Files, NEW i \in Index,
                        i < disk'[g]
                 PROVE  issued[g][i] = 1 \/ InFlight(g, i)'
      BY <1>1 DEF NothingLost
    <2>1. ASSUME i < disk[g] PROVE issued[g][i] = 1
      BY <1>1, <1>7, <2>1 DEF Accounted, NothingLost, InFlight, SigningWith
    <2>2. CASE i < disk[g]
      BY <2>1, <2>2
    <2>3. CASE ~(i < disk[g])
      <3>1. g = f /\ i = e.count
        BY <1>2, <1>4, <1>9, <2>3, Numbers DEF Inv
      <3>2. cache'[p][c] = AdvancedEntry(e)
        BY <1>2, <1>3
      <3>3. FileOf[cache'[p][c].name] = g
        BY <1>2, <1>6, <3>1, <3>2 DEF FileOfEntry, e
      <3>4. PICK d \in Names : d = c
        BY <1>2
      <3>5. SigningWith(p, d)' /\ cache'[p][d] # None /\ cache'[p][d].count = i
        BY <1>6, <1>8, <3>1, <3>2, <3>4
      <3>6. FileOfEntry(p, d)' = g
        BY <3>3, <3>4 DEF FileOfEntry
      <3> QED BY <3>5, <3>6 DEF InFlight
    <2> QED BY <2>2, <2>3
  <1> QED BY <1>10, <1>11 DEF Accounted

\* The index in flight signs.
LEMMA AccountSign ==
    ASSUME Inv, Inv', Accounted, NEW p \in Procs, Sign(p)
    PROVE  Accounted'
  <1> DEFINE c == canon[p]
             e == cache[p][c]
             f == KeyFile(p)
  <1>1. /\ pc[p] = "sign"
        /\ \A q \in Procs : pc'[q] = IF q = p THEN "idle" ELSE pc[q]
        /\ UNCHANGED <<disk, canon, faults, autoreserve>>
    BY DEF Sign, Goto, Inv, TypeOK
  <1>2. /\ c \in Names /\ Ready(p, c) /\ e # None
        /\ f = FileOfEntry(p, c) /\ Working(p) = e
    BY <1>1 DEF Inv, TypeOK, Signing, Ready, KeyFile, Working, FileOfEntry
  <1>3. e \in Entry /\ f \in Files /\ e.count \in Index
    BY <1>2, EntryType DEF Inv, Ready
  <1>4. \A q \in Procs, d \in Names :
            cache'[q][d] = IF q = p /\ d = c THEN [e EXCEPT !.count = @ + 1] ELSE cache[q][d]
    BY <1>2 DEF Sign, Inv, TypeOK
  <1>5. /\ [e EXCEPT !.count = @ + 1].count = e.count + 1
        /\ [e EXCEPT !.count = @ + 1].reserve = e.reserve
        /\ [e EXCEPT !.count = @ + 1].usable = e.usable
    BY <1>3 DEF Entry
  <1>6. \A q \in Procs, d \in Names : SigningWith(q, d) <=> q = p /\ d = c
    BY <1>1 DEF SigningWith, Inv, OneBusy, Busy
  <1>7. \A q \in Procs, d \in Names : ~SigningWith(q, d)'
    BY <1>1, <1>6 DEF SigningWith
  <1>8. \A g \in Files, i \in Index :
            issued'[g][i] = IF g = f /\ i = e.count THEN issued[g][i] + 1 ELSE issued[g][i]
    BY <1>2, <1>3 DEF Sign, Inv, TypeOK
  <1> HIDE DEF c, e, f
  <1>9. Lockstep'
    <2> SUFFICES ASSUME autoreserve = 0, NEW q \in Procs, NEW d \in Names,
                        cache'[q][d] # None, cache'[q][d].usable
                 PROVE  cache'[q][d].reserve = cache'[q][d].count + 0
      BY <1>1, <1>7 DEF Lockstep
    <2>1. CASE q = p /\ d = c
      <3>1. e.reserve = e.count + 1
        BY <1>2, <1>4, <1>5, <1>6, <2>1 DEF Accounted, Lockstep, e
      <3>2. e.count \in Nat
        BY <1>3, KeyStoreAssumption DEF Index
      <3>3. cache'[q][d].reserve = e.reserve /\ cache'[q][d].count = e.count + 1
        BY <1>4, <1>5, <2>1
      <3> QED BY <3>1, <3>2, <3>3
    <2>2. CASE ~(q = p /\ d = c)
      <3>1. cache'[q][d] = cache[q][d] /\ ~SigningWith(q, d)
        BY <1>4, <1>6, <2>2
      <3> QED BY <3>1 DEF Accounted, Lockstep
    <2> QED BY <2>1, <2>2
  <1>10. NothingLost'
    <2> SUFFICES ASSUME autoreserve = 0, ~faults, NEW g \in Files, NEW i \in Index,
                        i < disk[g]
                 PROVE  issued'[g][i] = 1
      BY <1>1 DEF NothingLost
    <2>1. issued[g][i] \in Nat /\ issued'[g][i] <= 1
      BY Numbers DEF Inv, IndexUsedOnce
    <2>2. CASE g = f /\ i = e.count
      BY <1>8, <2>1, <2>2
    <2>3. CASE ~(g = f /\ i = e.count)
      <3>1. ~InFlight(g, i)
        BY <1>2, <1>6, <2>3 DEF InFlight, e
      <3> QED BY <1>8, <2>3, <3>1 DEF Accounted, NothingLost
    <2> QED BY <2>2, <2>3
  <1> QED BY <1>9, <1>10 DEF Accounted

\* Every step keeps the account of the indices.
LEMMA AccountStep ==
    ASSUME Inv, Inv', Accounted, NEW p \in Procs, Step(p)
    PROVE  Accounted'
  <1>1. ASSUME NEW n \in Names, Begin(p, n) PROVE Accounted'
    BY <1>1, AccountKept DEF Begin, Goto, SigningWith, Inv, TypeOK
  <1>2. ASSUME NEW c \in CanonicalNames(name[p]), ReuseKey(p, c) PROVE Accounted'
    BY <1>2, AccountKept DEF ReuseKey, Goto, SigningWith, Inv, TypeOK
  <1>3. ASSUME NEW c \in CanonicalNames(name[p]), LoadKey(p, c) PROVE Accounted'
    <2>1. c \in Names
      BY KeyStoreAssumption DEF Inv, TypeOK, CanonicalNames
    <2> QED BY <1>3, <2>1, AccountLoad
  <1>4. CASE Die(p)
    BY <1>4, AccountDie
  <1>5. ASSUME NEW c, LoadExpired(p, c) PROVE Die(p)
    BY <1>5 DEF LoadExpired
  <1>6. CASE AdvanceReserved(p)
    <2>1. autoreserve # 0 /\ autoreserve' = autoreserve
      BY <1>6, AlwaysWrites DEF AdvanceReserved
    <2> QED BY <2>1 DEF Accounted, Lockstep, NothingLost
  <1>7. CASE AdvanceWrite(p)
    BY <1>7, AccountWrite
  <1>8. CASE AdvanceFails(p) \/ SignFails(p) \/ Crash(p)
    BY <1>4, <1>8 DEF AdvanceFails, SignFails, Crash
  <1>9. CASE Sign(p)
    BY <1>9, AccountSign
  <1>10. CASE Restart(p)
    BY <1>10, AccountKept DEF Restart, Goto, SigningWith, Inv, TypeOK
  <1> QED BY <1>1, <1>2, <1>3, <1>4, <1>5, <1>6, <1>7, <1>8, <1>9, <1>10
          DEF Step, GetWorkingKey

\* A key file is written once per signature: as long as no process fails, every
\* index below the stored one has signed, however the processes, the names of the
\* key and its cached copies take turns.
THEOREM NoneWasted == Spec => []NoIndexWasted
  <1>1. Init => Accounted
    BY Numbers, InitInv DEF Init, Accounted, Lockstep, NothingLost, NoEntries, Inv
  <1>2. Inv /\ Inv' /\ Accounted /\ [Next]_vars => Accounted'
    <2>1. ASSUME Accounted, UNCHANGED vars PROVE Accounted'
      BY <2>1, AccountKept DEF vars, SigningWith
    <2> QED BY <2>1, AccountStep DEF Next
  <1>3. Accounted => NoIndexWasted
    BY DEF Accounted, NothingLost, NoIndexWasted, InFlight, SigningWith
  <1> QED BY <1>1, <1>2, <1>3, Invariance, PTL DEF Spec
=============================================================================
