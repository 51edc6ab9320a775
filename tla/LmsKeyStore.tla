----------------------------- MODULE LmsKeyStore -----------------------------
(***************************************************************************)
(* LmsSign: signing with a stateful LMS/HSS private key.  A bootgen        *)
(* process keeps the keys it has loaded in a cache (cached_keys), one      *)
(* working key per canonical path; the state of a key, the next one-time   *)
(* index, is in its file and must move on disk before a signature leaves.  *)
(* Processes come and go (LOG_ERROR ends one on every failure), may crash  *)
(* between any two steps, and name one file in several ways.               *)
(*                                                                         *)
(* Nothing in the code locks a key file.  The model lets processes take    *)
(* turns, one LmsSign at a time: a signature begins only when no other     *)
(* process is inside one.                                                  *)
(***************************************************************************)
EXTENDS Integers

CONSTANTS
    Procs,         \* bootgen processes
    Files,         \* private key files
    Names,         \* the ways of naming them, canonical paths included
    FileOf,        \* the file a name denotes (external: the file system)
    CanonicalOf,   \* realpath() of a name
    MaxCount,      \* hss_working_key::max_count, the last index of a key
    AutoReserves,  \* values of hss_working_key::autoreserve explored
    None           \* no cache entry

ASSUME KeyStoreAssumption ==
    /\ MaxCount \in Nat
    /\ AutoReserves \subseteq Nat
    /\ FileOf \in [Names -> Files]
    /\ CanonicalOf \in [Names -> Names]
    /\ \A n \in Names : FileOf[CanonicalOf[n]] = FileOf[n]

Index == 0 .. MaxCount

\* The index field of a trashed key (PARM_SET_END in every byte).
Expired == MaxCount + 1

\* A cached_key and its working key: the name it was loaded by, the index the
\* Merkle trees stand at, the index it last wrote (reserve_count and the copy
\* of the private key agree), and whether status is still hss_error_none.
Entry == [name : Names, count : 0 .. Expired, reserve : Index, usable : BOOLEAN]

ASSUME NoneAssumption == None \notin Entry

VARIABLES
    disk,      \* disk[f]: index field of the stored private key
    cache,     \* cache[p][c]: entry of process p for canonical name c
    pc,        \* "idle", "lookup", "advance", "sign" or "dead"
    name,      \* the key name LmsSign was called with
    canon,     \* canonical name of the working key in use
    issued,    \* issued[f][i]: signatures handed out with index i of f
    faults,    \* history: a crash or a failure has happened
    autoreserve  \* hss_working_key::autoreserve: 0 unless hss_set_autoreserve is
                 \* called, which bootgen does not do

vars == <<disk, cache, pc, name, canon, issued, faults, autoreserve>>

NoEntries == [c \in Names |-> None]

Init ==
    /\ disk = [f \in Files |-> 0]
    /\ cache = [p \in Procs |-> NoEntries]
    /\ pc = [p \in Procs |-> "idle"]
    /\ name \in [Procs -> Names]
    /\ canon = name
    /\ issued = [f \in Files |-> [i \in Index |-> 0]]
    /\ faults = FALSE
    /\ autoreserve \in AutoReserves

Goto(p, label) == pc' = [pc EXCEPT ![p] = label]

\* The process ends: LOG_ERROR, or a crash.  Its working keys are gone.
Die(p) ==
    /\ Goto(p, "dead")
    /\ cache' = [cache EXCEPT ![p] = NoEntries]
    /\ faults' = TRUE
    /\ UNCHANGED <<name, canon, issued, autoreserve>>

-----------------------------------------------------------------------------
Working(p) == cache[p][canon[p]]
KeyFile(p) == FileOf[Working(p).name]

Begin(p, n) ==
    /\ \A q \in Procs : pc[q] \in {"idle", "dead"}
    /\ pc[p] = "idle"
    /\ Goto(p, "lookup")
    /\ name' = [name EXCEPT ![p] = n]
    /\ UNCHANGED <<disk, cache, canon, issued, faults, autoreserve>>

\* realpath may fail; the name as given is the fallback.
CanonicalNames(n) == {CanonicalOf[n], n}

\* Mutant: the stored index is not compared.
MatchesAlways(e) == TRUE

\* cached_key_matches_storage
MatchesStorage(e) == disk[FileOf[e.name]] = e.reserve

Reusable(e) == e # None /\ e.usable /\ MatchesStorage(e)

\* Mutant: the stored index is taken for the last one used.
LoadedAtLastUsed(n) ==
    LET d == disk[FileOf[n]]
    IN  [name |-> n, count |-> IF d = 0 THEN 0 ELSE d - 1, reserve |-> d,
         usable |-> TRUE]

Loaded(n) == [name |-> n, count |-> disk[FileOf[n]],
              reserve |-> disk[FileOf[n]], usable |-> TRUE]

ReuseKey(p, c) ==
    /\ pc[p] = "lookup"
    /\ Reusable(cache[p][c])
    /\ canon' = [canon EXCEPT ![p] = c]
    /\ Goto(p, "advance")
    /\ UNCHANGED <<disk, cache, name, issued, faults, autoreserve>>

\* No entry, an expired one, or one whose stored state has moved: drop it and
\* load the key from storage.
LoadKey(p, c) ==
    /\ pc[p] = "lookup"
    /\ ~Reusable(cache[p][c])
    /\ disk[FileOf[name[p]]] <= MaxCount
    /\ cache' = [cache EXCEPT ![p][c] = Loaded(name[p])]
    /\ canon' = [canon EXCEPT ![p] = c]
    /\ Goto(p, "advance")
    /\ UNCHANGED <<disk, name, issued, faults, autoreserve>>

\* hss_error_private_key_expired
LoadExpired(p, c) ==
    /\ pc[p] = "lookup"
    /\ ~Reusable(cache[p][c])
    /\ disk[FileOf[name[p]]] > MaxCount
    /\ Die(p)
    /\ UNCHANGED disk

GetWorkingKey(p) ==
    \E c \in CanonicalNames(name[p]) :
        ReuseKey(p, c) \/ LoadKey(p, c) \/ LoadExpired(p, c)

-----------------------------------------------------------------------------
\* hss_advance_count: what the stored index becomes before index count signs.
LastSignature(e) == e.count = MaxCount

\* Mutant: the state is saved one signature too late.
MustWriteLate(e) == LastSignature(e) \/ e.count > e.reserve

MustWrite(e) == LastSignature(e) \/ e.count + 1 > e.reserve

\* Mutant: one index too many is reserved.
AdvancedTooFar(e) ==
    IF LastSignature(e) THEN Expired
    ELSE IF MaxCount - (e.count + 1) > autoreserve
         THEN e.count + 2 + autoreserve
         ELSE MaxCount

Advanced(e) ==
    IF LastSignature(e) THEN Expired
    ELSE IF MaxCount - (e.count + 1) > autoreserve
         THEN e.count + 1 + autoreserve
         ELSE MaxCount

AdvancedEntry(e) ==
    IF LastSignature(e) THEN [e EXCEPT !.usable = FALSE]
    ELSE [e EXCEPT !.reserve = Advanced(e)]

\* The index is already reserved: nothing is written.
AdvanceReserved(p) ==
    /\ pc[p] = "advance"
    /\ ~MustWrite(Working(p))
    /\ Goto(p, "sign")
    /\ UNCHANGED <<disk, cache, name, canon, issued, faults, autoreserve>>

AdvanceWrite(p) ==
    /\ pc[p] = "advance"
    /\ MustWrite(Working(p))
    /\ disk' = [disk EXCEPT ![KeyFile(p)] = Advanced(Working(p))]
    /\ cache' = [cache EXCEPT ![p][canon[p]] = AdvancedEntry(@)]
    /\ Goto(p, "sign")
    /\ UNCHANGED <<name, canon, issued, faults, autoreserve>>

\* update_private_key fails to open, write or close: the file holds the old
\* index or the new one, and LmsSign fails.
AdvanceFails(p) ==
    /\ pc[p] = "advance"
    /\ MustWrite(Working(p))
    /\ \/ UNCHANGED disk
       \/ disk' = [disk EXCEPT ![KeyFile(p)] = Advanced(Working(p))]
    /\ Die(p)

-----------------------------------------------------------------------------
\* hss_generate_signature signs with the index the trees stand at and steps
\* them.
Sign(p) ==
    /\ pc[p] = "sign"
    /\ issued' = [issued EXCEPT ![KeyFile(p)][Working(p).count] = @ + 1]
    /\ cache' = [cache EXCEPT ![p][canon[p]].count = @ + 1]
    /\ Goto(p, "idle")
    /\ UNCHANGED <<disk, name, canon, faults, autoreserve>>

\* An internal error after the state has moved: the signature is zeroed.
SignFails(p) ==
    /\ pc[p] = "sign"
    /\ Die(p)
    /\ UNCHANGED disk

Crash(p) ==
    /\ pc[p] # "dead"
    /\ Die(p)
    /\ UNCHANGED disk

Restart(p) ==
    /\ pc[p] = "dead"
    /\ Goto(p, "idle")
    /\ UNCHANGED <<disk, cache, name, canon, issued, faults, autoreserve>>

Step(p) ==
    \/ \E n \in Names : Begin(p, n)
    \/ GetWorkingKey(p)
    \/ AdvanceReserved(p) \/ AdvanceWrite(p) \/ AdvanceFails(p)
    \/ Sign(p) \/ SignFails(p)
    \/ Crash(p) \/ Restart(p)

Next == \E p \in Procs : Step(p)

Spec == Init /\ [][Next]_vars

-----------------------------------------------------------------------------
TypeOK ==
    /\ disk \in [Files -> 0 .. Expired]
    /\ cache \in [Procs -> [Names -> Entry \cup {None}]]
    /\ pc \in [Procs -> {"idle", "lookup", "advance", "sign", "dead"}]
    /\ name \in [Procs -> Names]
    /\ canon \in [Procs -> Names]
    /\ issued \in [Files -> [Index -> Nat]]
    /\ faults \in BOOLEAN
    /\ autoreserve \in AutoReserves

\* No index of a key signs twice, whatever the names, caches, crashes, failed
\* writes and processes it went through.
IndexUsedOnce == \A f \in Files, i \in Index : issued[f][i] <= 1

\* A signature that has left is always covered by the stored state: a restart
\* from the file can not hand its index out again.
StoredStateCoversSignatures ==
    \A f \in Files, i \in Index : issued[f][i] > 0 => i < disk[f]

\* A cached key never writes back an older state over a newer one.
StoredStateOnlyAdvances == [][\A f \in Files : disk'[f] >= disk[f]]_vars

\* Without faults no index is wasted: however the key is named and however the
\* processes take turns, every index below the stored one has signed.
NoIndexWasted ==
    autoreserve = 0 /\ ~faults /\ (\A p \in Procs : pc[p] = "idle") =>
        \A f \in Files, i \in Index : i < disk[f] => issued[f][i] = 1

Abstract == INSTANCE OneTimeIndices

\* The signing code implements OneTimeIndices.
ImplementsOneTimeIndices == Abstract!Spec
=============================================================================
