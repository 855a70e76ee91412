------------------------------ MODULE StateStore ------------------------------
(***************************************************************************)
(* The persistent map of the bridge (state_store.py, StateStore): for each *)
(* loadpoint title a DeviceInstance and the saved part of its energy       *)
(* counter, held in memory by the process that opened the file and         *)
(* rewritten as a whole on every change.                                   *)
(*                                                                         *)
(* The file is atomic (tmp, fsync, os.replace): a write happens or raises. *)
(* A v1 file is the same state with no counters saved; it is read the same *)
(* way, so the format is not modelled.                                     *)
(*                                                                         *)
(* The actions are the store's methods, called by whoever opened it: the   *)
(* bridge (module LoadpointSync) or the one-shot tools that seed it.       *)
(***************************************************************************)
EXTENDS EnergyCounter

CONSTANTS
    Titles,        \* loadpoint titles, the identity of a loadpoint
    DIs,           \* every DeviceInstance a config or a seed may name
    Ranges,        \* the di_range pairs <<lo, hi>> the openers use
    InitialFiles,  \* contents of state.json before the first opening
    IoFaults       \* which I/O may fail: subset of {"read", "write"}

ASSUME DIsAssumption == DIs \subseteq Nat
ASSUME RangesAssumption ==
    \A r \in Ranges : /\ r \in Int \X Int
                      /\ r[1] <= r[2]
                      /\ r[1] .. r[2] \subseteq DIs
ASSUME IoFaultsAssumption == IoFaults \subseteq {"read", "write"}

VARIABLES
    opened,  \* a process holds a StateStore
    range,   \* its di_range
    map,     \* _map:     title -> DeviceInstance, None if absent
    recs,    \* _records: title -> record, None if absent
    disk     \* what state.json holds, in the same form

memoryVars == <<opened, range, map, recs>>
storeVars  == <<opened, range, map, recs, disk>>

Record == [di     : DIs,
           offset : Int,
           source : Int \cup {None},
           adopt  : Int \cup {None}]

ASSUME NoRecordAssumption == None \notin Record

Maps  == [Titles -> DIs \cup {None}]
Files == [Titles -> Record \cup {None}]

NoMap  == [t \in Titles |-> None]
NoFile == [t \in Titles |-> None]

\* A record whose energy_* keys are absent.
FreshRecord(di) == [di |-> di, offset |-> 0, source |-> None, adopt |-> None]

\* The title -> DeviceInstance part of a file.
Instances(f) == [t \in Titles |-> IF f[t] = None THEN None ELSE f[t].di]

\* No instance twice, whatever the range.
Distinct(m) == \A t, u \in Titles : t # u /\ m[t] # None => m[t] # m[u]

\* _validate_map: in range, and no instance twice.
Valid(m, r) ==
    /\ \A t \in Titles : m[t] # None => m[t] \in r[1] .. r[2]
    /\ Distinct(m)

ASSUME InitialFilesAssumption ==
    \A f \in InitialFiles : f \in Files /\ Distinct(Instances(f))

-------------------------------------------------------------------------------
\* _flush, from the callers' side: the staged dictionaries are written, or
\* the write raises and the caller puts the previous ones back.

AfterFailedFlush(previous, staged) == previous

Flush(newMap, newRecs, ok) ==
    /\ UNCHANGED <<opened, range>>
    /\ \/ /\ ok
          /\ map' = newMap
          /\ recs' = newRecs
          /\ disk' = newRecs
       \/ /\ ~ok
          /\ "write" \in IoFaults
          /\ map' = AfterFailedFlush(map, newMap)
          /\ recs' = AfterFailedFlush(recs, newRecs)
          /\ UNCHANGED disk

-------------------------------------------------------------------------------
\* __init__: load and validate.  A file that cannot be read or parsed counts
\* as an empty one; one that is invalid for the range raises, and nobody
\* holds the store.

Hold(f, r) ==
    /\ Valid(Instances(f), r)
    /\ opened' = TRUE
    /\ range' = r
    /\ map' = Instances(f)
    /\ recs' = f
    /\ UNCHANGED disk

Open(r) == ~opened /\ Hold(disk, r)

OpenUnreadable(r) == ~opened /\ "read" \in IoFaults /\ Hold(NoFile, r)

\* The process that held the store ends: a tool returns, the bridge crashes.
Close ==
    /\ opened' = FALSE
    /\ map' = NoMap
    /\ recs' = NoFile
    /\ UNCHANGED <<range, disk>>

-------------------------------------------------------------------------------
\* get_or_allocate

Used == {map[t] : t \in Titles} \ {None}
\* Mutant: allocation forgets what is taken.
FreeUnchecked == range[1] .. range[2]

\* Mutant: the end of the range is off by one.
FreePastTheEnd == (range[1] .. range[2] + 1) \ Used

Free == (range[1] .. range[2]) \ Used

\* Mutant: the instances are given out from the top.
IsHighestFree(di) == di \in Free /\ \A other \in Free : other <= di

IsLowestFree(di) == di \in Free /\ \A other \in Free : di <= other

\* Mutant: the allocation is left to the next write.
AllocateInMemory(t, ok) ==
    /\ opened
    /\ map[t] = None
    /\ \E di \in DIs :
          /\ IsLowestFree(di)
          /\ map' = [map EXCEPT ![t] = di]
          /\ recs' = [recs EXCEPT ![t] = FreshRecord(di)]
    /\ UNCHANGED <<opened, range, disk>>

Allocate(t, ok) ==
    /\ opened
    /\ map[t] = None
    /\ \E di \in DIs :
          /\ IsLowestFree(di)
          /\ Flush([map EXCEPT ![t] = di],
                   [recs EXCEPT ![t] = FreshRecord(di)], ok)

-------------------------------------------------------------------------------
\* seed: pairs is a function on the titles, None where nothing is proposed.
\* Present titles keep their instance; an invalid result raises before any
\* change, and the tool that called it ends.

\* Mutant: a seed overwrites what is there.
ProposedFirst(pairs) ==
    [t \in Titles |-> IF pairs[t] # None THEN pairs[t] ELSE map[t]]

Proposed(pairs) ==
    [t \in Titles |-> IF map[t] # None THEN map[t] ELSE pairs[t]]

\* Mutant: a record for every title that was named, with an instance or not.
RecordForEach(f, m) ==
    [t \in Titles |-> IF f[t] = None THEN FreshRecord(m[t]) ELSE f[t]]

\* Mutant: new titles get no record.
RecordForNone(f, m) == f

WithInstances(f, m) ==
    [t \in Titles |->
        IF m[t] = None THEN f[t]
        ELSE IF f[t] = None THEN FreshRecord(m[t])
        ELSE [f[t] EXCEPT !.di = m[t]]]

Seed(pairs, ok) ==
    /\ opened
    /\ Valid(Proposed(pairs), range)
    /\ Flush(Proposed(pairs), WithInstances(recs, Proposed(pairs)), ok)

SeedRejected(pairs) ==
    /\ opened
    /\ ~Valid(Proposed(pairs), range)
    /\ Close

\* seed_energy: values is a function on the titles, None where nothing is
\* recorded.  An unknown title raises; the half-staged records of that call
\* die with the tool.

KnownTitles(values) ==
    \A t \in Titles : values[t] # None => recs[t] # None

WithAdopted(f, values) ==
    [t \in Titles |->
        IF values[t] = None THEN f[t] ELSE [f[t] EXCEPT !.adopt = values[t]]]

SeedEnergy(values, ok) ==
    /\ opened
    /\ KnownTitles(values)
    /\ Flush(map, WithAdopted(recs, values), ok)

SeedEnergyRejected(values) ==
    /\ opened
    /\ ~KnownTitles(values)
    /\ Close

-------------------------------------------------------------------------------
\* energy_counter and save_energy

EnergyCounterOf(t) ==
    FromDict(IF recs[t] = None THEN FreshRecord(None) ELSE recs[t])

\* Mutant: energy_adopt is not popped.
WithCounterAdopting(rec, c) ==
    [rec EXCEPT !.offset = AsDict(c).offset,
                !.source = AsDict(c).source]

WithCounter(rec, c) ==
    [rec EXCEPT !.offset = AsDict(c).offset,
                !.source = AsDict(c).source,
                !.adopt  = AsDict(c).adopt]

Saveable(t, c) == opened /\ c.dirty /\ recs[t] # None

SaveEnergy(t, c, ok) ==
    /\ Saveable(t, c)
    /\ Flush(map, [recs EXCEPT ![t] = WithCounter(@, c)], ok)

-------------------------------------------------------------------------------
StoreTypeOK ==
    /\ opened \in BOOLEAN
    /\ range \in Ranges
    /\ map \in Maps
    /\ recs \in Files
    /\ disk \in Files

StoreInit ==
    /\ opened = FALSE
    /\ range \in Ranges
    /\ map = NoMap
    /\ recs = NoFile
    /\ disk \in InitialFiles

(***************************************************************************)
(* The map always belongs to the records, and once the file was read both  *)
(* are what the file holds: a write that failed leaves no allocation, seed *)
(* or counter behind in memory (the rollbacks of seed, seed_energy,        *)
(* save_energy and get_or_allocate), so no later write can publish it.     *)
(***************************************************************************)
MapOfRecords == map = Instances(recs)

MemoryMirrorsDisk == opened /\ "read" \notin IoFaults => recs = disk

(***************************************************************************)
(* While a process holds the store every instance it will hand out is in   *)
(* its configured range and belongs to one title (_validate_map, the used  *)
(* set of get_or_allocate).                                                *)
(***************************************************************************)
MemoryValid == opened => Valid(map, range)

(***************************************************************************)
(* The promise of the store: what is on disk is a registry that only       *)
(* grows, across every opening, tool, failed write and crash.              *)
(***************************************************************************)
Registry == INSTANCE DeviceRegistry WITH assigned <- Instances(disk)
RegistrySpec == Registry!Spec
=============================================================================
