--------------------------- MODULE StateStoreProofs ---------------------------
(***************************************************************************)
(* What the methods of the store do to its invariants and to the registry  *)
(* on disk, one lemma per method, and what a reading does to a counter.    *)
(* The theorems about whole runs are in StoreCallersProofs,                *)
(* LoadpointSyncProofs and LoadpointEnergyProofs, which cite these lemmas. *)
(***************************************************************************)
EXTENDS StateStore, TLAPS

-------------------------------------------------------------------------------
\* One reading (EnergyCounter.value), for every counter and every reading.

USE NoneAssumption, ThresholdAssumption

\* The shape of every rebased counter.
LEMMA PatchedType ==
    ASSUME NEW c \in Counter, NEW o \in Int, NEW a \in Int \cup {None},
           NEW d \in BOOLEAN, NEW l \in 0 .. Confirmations - 1
    PROVE  /\ [c EXCEPT !.offset = o, !.adopt = a, !.dirty = d, !.low = l]
                 \in Counter
           /\ [c EXCEPT !.offset = o, !.adopt = a, !.dirty = d, !.low = l]
                 .published = c.published
BY DEF Counter

\* A new offset leaves a counter, and what was published.
LEMMA RebasedType ==
    ASSUME NEW c \in Counter, NEW r \in Int
    PROVE  /\ Rebased(c, r) \in Counter
           /\ Rebased(c, r).published = c.published
<1> DEFINE Patched(o, a, d, l) ==
               [c EXCEPT !.offset = o, !.adopt = a, !.dirty = d, !.low = l]
<1>0. /\ c.offset \in Int /\ c.adopt \in Int \cup {None} /\ c.dirty \in BOOLEAN
      /\ c.low \in 0 .. Confirmations - 1 /\ 0 \in 0 .. Confirmations - 1
      /\ TRUE \in BOOLEAN /\ None \in Int \cup {None} /\ 0 \in Int
      /\ c.source \in Int \cup {None} /\ c.published \in Int \cup {None}
  BY DEF Counter
<1>5. \A o \in Int, a \in Int \cup {None}, d \in BOOLEAN,
         l \in 0 .. Confirmations - 1 :
         Patched(o, a, d, l) \in Counter
         /\ Patched(o, a, d, l).published = c.published
  BY PatchedType
<1>1. CASE c.adopt # None
  <2>1. Rebased(c, r) = Patched(c.adopt - r, None, TRUE, c.low)
    BY <1>1 DEF Rebased, Counter
  <2>2. c.adopt - r \in Int
    BY <1>0, <1>1
  <2> HIDE DEF Patched
  <2>3. /\ Patched(c.adopt - r, None, TRUE, c.low) \in Counter
        /\ Patched(c.adopt - r, None, TRUE, c.low).published = c.published
    BY <2>2, <1>0, <1>5
  <2> QED BY <2>1, <2>3
<1>2. CASE c.adopt = None /\ c.source = None
  <2>1. Rebased(c, r) = Patched(0, c.adopt, TRUE, c.low)
    BY <1>2 DEF Rebased, Counter
  <2> HIDE DEF Patched
  <2>3. /\ Patched(0, c.adopt, TRUE, c.low) \in Counter
        /\ Patched(0, c.adopt, TRUE, c.low).published = c.published
    BY <1>0, <1>5, ZenonT(60)
  <2> QED BY <2>1, <2>3
<1>3. CASE c.adopt = None /\ c.source # None /\ Fallen(c, r)
  <2>1. Rebased(c, r) = Patched(ResetBase(c) - r, c.adopt, TRUE, 0)
    BY <1>3 DEF Rebased, Counter
  <2>2. ResetBase(c) - r \in Int
    BY <1>0, <1>3 DEF ResetBase
  <2> HIDE DEF Patched
  <2>3. /\ Patched(ResetBase(c) - r, c.adopt, TRUE, 0) \in Counter
        /\ Patched(ResetBase(c) - r, c.adopt, TRUE, 0).published = c.published
    BY <2>2, <1>0, <1>5
  <2> QED BY <2>1, <2>3
<1>4. CASE c.adopt = None /\ c.source # None /\ ~Fallen(c, r)
  <2>1. Rebased(c, r) = Patched(c.offset, c.adopt, c.dirty, 0)
    BY <1>4 DEF Rebased, Counter
  <2> HIDE DEF Patched
  <2>3. /\ Patched(c.offset, c.adopt, c.dirty, 0) \in Counter
        /\ Patched(c.offset, c.adopt, c.dirty, 0).published = c.published
    BY <1>0, <1>5, ZenonT(60)
  <2> QED BY <2>1, <2>3
<1> QED BY <1>1, <1>2, <1>3, <1>4

\* An accepted reading is published, never below the last one.
LEMMA AcceptType ==
    ASSUME NEW c \in Counter, NEW r \in Int
    PROVE  /\ Accept(c, r) \in Counter
           /\ Accept(c, r).published \in Int
           /\ c.published # None => Accept(c, r).published >= c.published
<1> DEFINE total == r + c.offset
           d == c.dirty \/ Moved(c, r)
           p == IF c.published # None /\ total < c.published
                THEN c.published ELSE total
<1>1. d \in BOOLEAN
  BY DEF Counter, Moved
<1>2. p \in Int /\ (c.published # None => p >= c.published)
  BY DEF Counter
<1>3. Accept(c, r) = [c EXCEPT !.source = r, !.dirty = d, !.published = p]
  BY DEF Accept
<1> HIDE DEF d, p
<1> QED BY <1>1, <1>2, <1>3 DEF Counter

(***************************************************************************)
(* A reading leaves a counter behind, and what was published stays or      *)
(* grows.                                                                  *)
(***************************************************************************)
LEMMA AfterReadingType ==
    ASSUME NEW c \in Counter, NEW r \in Int
    PROVE  /\ AfterReading(c, r) \in Counter
           /\ c.published # None =>
                 /\ AfterReading(c, r).published # None
                 /\ AfterReading(c, r).published >= c.published
<1>1. CASE NoData(r)
  <2>1. AfterReading(c, r) = c
    BY <1>1 DEF AfterReading
  <2> QED BY <2>1 DEF Counter
<1>2. CASE ~NoData(r) /\ Glitch(c, r)
  <2>1. AfterReading(c, r) = [c EXCEPT !.low = c.low + 1]
    BY <1>2 DEF AfterReading
  <2>2. c.low + 1 \in 0 .. Confirmations - 1
    BY <1>2 DEF Counter, Glitch
  <2> QED BY <2>1, <2>2 DEF Counter
<1>3. CASE ~NoData(r) /\ ~Glitch(c, r)
  <2>1. AfterReading(c, r) = Accept(Rebased(c, r), r)
    BY <1>3 DEF AfterReading
  <2>2. Rebased(c, r) \in Counter /\ Rebased(c, r).published = c.published
    BY RebasedType
  <2>3. /\ Accept(Rebased(c, r), r) \in Counter
        /\ Accept(Rebased(c, r), r).published \in Int
        /\ Rebased(c, r).published # None
           => Accept(Rebased(c, r), r).published >= Rebased(c, r).published
    BY <2>2, AcceptType
  <2> QED BY <2>1, <2>2, <2>3
<1> QED BY <1>1, <1>2, <1>3

\* What value() answers is a number.
LEMMA HeldType ==
    ASSUME NEW c \in Counter
    PROVE  Held(c) \in Int
BY DEF Held, Counter

\* What was saved makes a counter.
LEMMA DictTypes ==
    ASSUME NEW d, d.offset \in Int, d.source \in Int \cup {None},
           d.adopt \in Int \cup {None}
    PROVE  FromDict(d) \in Counter
BY DEF FromDict, Counter

-------------------------------------------------------------------------------
\* The inductive invariant: the checked invariants, and that the file is a
\* registry even while nobody holds the store.
DiskDistinct == Distinct(Instances(disk))

StoreInv ==
    /\ StoreTypeOK
    /\ MapOfRecords
    /\ MemoryMirrorsDisk
    /\ MemoryValid
    /\ DiskDistinct

\* What every operation hands to Flush: a typed pair of dictionaries that
\* belong together, are valid, and keep every instance already given.
Staged(newMap, newRecs) ==
    /\ newMap \in Maps
    /\ newRecs \in Files
    /\ newMap = Instances(newRecs)
    /\ Valid(newMap, range)
    /\ \A t \in Titles : map[t] # None => newMap[t] = map[t]

\* One step of the registry on disk, or none.
KeepsRegistry == Registry!Assign \/ Instances(disk)' = Instances(disk)

USE NoRecordAssumption, DIsAssumption

-------------------------------------------------------------------------------
(***************************************************************************)
(* The instances of a file, and a file with one record replaced.           *)
(***************************************************************************)
LEMMA InstancesType ==
    ASSUME NEW f \in Files
    PROVE  Instances(f) \in Maps
BY DEF Instances, Maps, Files, Record

\* An empty file names no instance.
LEMMA InstancesOfEmpty == Instances(NoFile) = NoMap
BY DEF Instances, NoFile, NoMap

\* One record changes one instance.
LEMMA InstancesExcept ==
    ASSUME NEW f \in Files, NEW t \in Titles, NEW rec \in Record
    PROVE  /\ [f EXCEPT ![t] = rec] \in Files
           /\ Instances([f EXCEPT ![t] = rec])
                = [Instances(f) EXCEPT ![t] = rec.di]
BY DEF Instances, Files, Record

-------------------------------------------------------------------------------
(***************************************************************************)
(* A flush of a staged pair preserves the invariant and the registry,      *)
(* whether the write happens or raises.                                    *)
(***************************************************************************)
LEMMA FlushKeeps ==
    ASSUME StoreInv, opened,
           NEW m, NEW r, NEW ok \in BOOLEAN,
           Staged(m, r), Flush(m, r, ok)
    PROVE  StoreInv' /\ ("read" \notin IoFaults => KeepsRegistry)
<1>1. CASE ok
  <2>1. map' = m /\ recs' = r /\ disk' = r /\ UNCHANGED <<opened, range>>
    BY <1>1 DEF Flush
  <2>2. StoreInv'
    BY <2>1 DEF StoreInv, StoreTypeOK, Staged, MapOfRecords, Valid,
           MemoryMirrorsDisk, MemoryValid, DiskDistinct
  <2>3. ASSUME "read" \notin IoFaults PROVE KeepsRegistry
    <3>1. Instances(disk)' = m /\ Instances(disk) = map
      BY <2>1, <2>3 DEF StoreInv, Staged, MapOfRecords, MemoryMirrorsDisk
    <3>2. Registry!Exclusive(m)
      BY DEF Staged, Valid, Distinct, Registry!Exclusive
    <3>3. m \in Registry!Assignments
      BY <3>2 DEF Staged, Maps, Registry!Assignments
    <3>4. Registry!Extends(map, m)
      BY DEF Staged, Registry!Extends
    <3> QED BY <3>1, <3>3, <3>4 DEF KeepsRegistry, Registry!Assign
  <2> QED BY <2>2, <2>3
<1>2. CASE ~ok
  <2>1. UNCHANGED storeVars
    BY <1>2 DEF Flush, AfterFailedFlush, storeVars
  <2>2. StoreInv'
    BY <2>1 DEF storeVars, StoreInv, StoreTypeOK, MapOfRecords,
           MemoryMirrorsDisk, MemoryValid, DiskDistinct
  <2>3. Instances(disk)' = Instances(disk)
    BY <2>1 DEF storeVars
  <2> QED BY <2>2, <2>3 DEF KeepsRegistry
<1> QED BY <1>1, <1>2

(***************************************************************************)
(* Opening and closing change the memory only.                             *)
(***************************************************************************)
LEMMA HoldKeeps ==
    ASSUME StoreInv, NEW f \in Files, NEW r \in Ranges, Hold(f, r),
           "read" \notin IoFaults => f = disk
    PROVE  StoreInv' /\ KeepsRegistry
<1>1. Instances(f) \in Maps
  BY InstancesType
<1>2. StoreInv'
  BY <1>1 DEF Hold, StoreInv, StoreTypeOK, MapOfRecords, MemoryMirrorsDisk,
         MemoryValid, DiskDistinct
<1>3. Instances(disk)' = Instances(disk)
  BY DEF Hold
<1> QED BY <1>2, <1>3 DEF KeepsRegistry

\* Closing forgets the memory, not the file.
LEMMA CloseKeeps ==
    ASSUME StoreInv, Close
    PROVE  StoreInv' /\ KeepsRegistry
<1>1. NoMap \in Maps /\ NoFile \in Files
  BY DEF NoMap, NoFile, Maps, Files
<1>2. StoreInv'
  BY <1>1, InstancesOfEmpty
     DEF Close, StoreInv, StoreTypeOK, MapOfRecords, MemoryMirrorsDisk,
         MemoryValid, DiskDistinct
<1>3. Instances(disk)' = Instances(disk)
  BY DEF Close
<1> QED BY <1>2, <1>3 DEF KeepsRegistry

\* A new title with an instance that nobody has, in a map and its records.
LEMMA OneMoreTitle ==
    ASSUME NEW f \in Files, NEW r, Valid(Instances(f), r),
           NEW t \in Titles, Instances(f)[t] = None,
           NEW di \in DIs, di \in r[1] .. r[2],
           \A u \in Titles : Instances(f)[u] # di
    PROVE  /\ [f EXCEPT ![t] = FreshRecord(di)] \in Files
           /\ Instances([f EXCEPT ![t] = FreshRecord(di)])
                = [Instances(f) EXCEPT ![t] = di]
           /\ [Instances(f) EXCEPT ![t] = di] \in Maps
           /\ Valid([Instances(f) EXCEPT ![t] = di], r)
           /\ \A u \in Titles : Instances(f)[u] # None =>
                 [Instances(f) EXCEPT ![t] = di][u] = Instances(f)[u]
<1> DEFINE old == Instances(f)
           m == [old EXCEPT ![t] = di]
<1>1. old \in Maps
  BY InstancesType
<1>2. FreshRecord(di) \in Record /\ FreshRecord(di).di = di
  BY DEF FreshRecord, Record
<1>3. /\ [f EXCEPT ![t] = FreshRecord(di)] \in Files
      /\ Instances([f EXCEPT ![t] = FreshRecord(di)]) = m
  BY <1>2, InstancesExcept
<1>4. /\ Valid(old, r) /\ old[t] = None
      /\ \A u \in Titles : old[u] # di
  OBVIOUS
<1> HIDE DEF old
<1>5. m \in Maps
  BY <1>1 DEF Maps
<1>6. \A u \in Titles : m[u] = IF u = t THEN di ELSE old[u]
  BY <1>1 DEF Maps
<1>7. Valid(m, r)
  BY <1>4, <1>6 DEF Valid, Distinct
<1>8. \A u \in Titles : old[u] # None => m[u] = old[u]
  BY <1>4, <1>6
<1> QED BY <1>3, <1>5, <1>7, <1>8 DEF old

\* Records for the titles of a map, whatever was in the file.
LEMMA WithInstancesType ==
    ASSUME NEW f \in Files, NEW m \in Maps
    PROVE  WithInstances(f, m) \in Files
<1>1. ASSUME NEW t \in Titles
      PROVE  WithInstances(f, m)[t] \in Record \cup {None}
  <2>1. f[t] \in Record \cup {None} /\ m[t] \in DIs \cup {None}
    BY DEF Files, Maps
  <2>2. CASE m[t] = None
    BY <2>1, <2>2 DEF WithInstances
  <2>3. CASE m[t] # None /\ f[t] = None
    BY <2>1, <2>3 DEF WithInstances, FreshRecord, Record
  <2>4. CASE m[t] # None /\ f[t] # None
    <3>1. WithInstances(f, m)[t] = [f[t] EXCEPT !.di = m[t]]
      BY <2>4 DEF WithInstances
    <3> QED BY <2>1, <2>4, <3>1 DEF Record
  <2> QED BY <2>2, <2>3, <2>4
<1> QED BY <1>1 DEF Files, WithInstances

-------------------------------------------------------------------------------
(***************************************************************************)
(* Each operation stages what FlushKeeps asks for.                         *)
(***************************************************************************)
LEMMA AllocateStages ==
    ASSUME StoreInv, opened, NEW t \in Titles, map[t] = None,
           NEW di \in DIs, IsLowestFree(di)
    PROVE  Staged([map EXCEPT ![t] = di], [recs EXCEPT ![t] = FreshRecord(di)])
<1>1. recs \in Files /\ map = Instances(recs)
  BY DEF StoreInv, StoreTypeOK, MapOfRecords
<1>2. di \in range[1] .. range[2] /\ \A u \in Titles : map[u] # di
  BY DEF IsLowestFree, Free, Used
<1>3. Valid(map, range)
  BY DEF StoreInv, MemoryValid
<1> QED BY <1>1, <1>2, <1>3, OneMoreTitle DEF Staged

\* A seed keeps whoever has an instance.
LEMMA SeedStages ==
    ASSUME StoreInv, opened, NEW pairs \in Maps, Valid(Proposed(pairs), range)
    PROVE  Staged(Proposed(pairs), WithInstances(recs, Proposed(pairs)))
<1> DEFINE m == Proposed(pairs)
           r == WithInstances(recs, m)
<1>1. map \in Maps /\ recs \in Files /\ map = Instances(recs)
  BY DEF StoreInv, StoreTypeOK, MapOfRecords
<1>2. m \in Maps
  BY <1>1 DEF Maps, Proposed
<1>3. \A t \in Titles : map[t] # None => m[t] = map[t]
  BY DEF Proposed
<1>4. ASSUME NEW t \in Titles
      PROVE  /\ r[t] \in Record \cup {None}
             /\ (IF r[t] = None THEN None ELSE r[t].di) = m[t]
  <2>1. recs[t] \in Record \cup {None} /\ m[t] \in DIs \cup {None}
    BY <1>1, <1>2 DEF Files, Maps
  <2>2. map[t] = IF recs[t] = None THEN None ELSE recs[t].di
    BY <1>1 DEF Instances
  <2>3. CASE m[t] = None
    <3>1. r[t] = recs[t]
      BY <2>3 DEF WithInstances
    <3>2. map[t] = None
      BY <2>3, <1>3
    <3>3. recs[t] = None
      <4>1. ASSUME recs[t] \in Record PROVE recs[t].di \in Nat
        BY <4>1 DEF Record
      <4>2. ASSUME recs[t] # None PROVE recs[t].di = None
        BY <4>2, <3>2, <2>2
      <4> QED BY <4>1, <4>2, <2>1
    <3> QED BY <3>1, <3>3, <2>3
  <2>4. CASE m[t] # None /\ recs[t] = None
    <3>1. r[t] = FreshRecord(m[t])
      BY <2>4 DEF WithInstances
    <3>2. r[t] \in Record /\ r[t].di = m[t]
      BY <3>1, <2>1, <2>4 DEF FreshRecord, Record
    <3> QED BY <3>2
  <2>5. CASE m[t] # None /\ recs[t] # None
    <3>1. r[t] = [recs[t] EXCEPT !.di = m[t]]
      BY <2>5 DEF WithInstances
    <3>2. r[t] \in Record /\ r[t].di = m[t]
      BY <3>1, <2>1, <2>5 DEF Record
    <3> QED BY <3>2
  <2> QED BY <2>3, <2>4, <2>5
<1>5. r \in Files
  BY <1>4 DEF Files, WithInstances
<1>6. Instances(r) = m
  <2>1. Instances(r) = [t \in Titles |-> m[t]]
    BY <1>4 DEF Instances
  <2> QED BY <2>1, <1>2 DEF Maps
<1> QED BY <1>2, <1>3, <1>5, <1>6 DEF Staged

\* Seeded counters change no instance.
LEMMA SeedEnergyStages ==
    ASSUME StoreInv, opened, NEW values \in [Titles -> Int \cup {None}],
           KnownTitles(values)
    PROVE  Staged(map, WithAdopted(recs, values))
<1> DEFINE r == WithAdopted(recs, values)
<1>1. map \in Maps /\ recs \in Files /\ map = Instances(recs)
  BY DEF StoreInv, StoreTypeOK, MapOfRecords
<1>2. ASSUME NEW t \in Titles
      PROVE  /\ r[t] \in Record \cup {None}
             /\ (r[t] = None) <=> (recs[t] = None)
             /\ recs[t] # None => r[t].di = recs[t].di
  <2>1. recs[t] \in Record \cup {None}
    BY <1>1 DEF Files
  <2>2. CASE values[t] = None
    BY <2>1, <2>2 DEF WithAdopted
  <2>3. CASE values[t] # None
    <3>1. recs[t] \in Record /\ values[t] \in Int
      BY <2>1, <2>3 DEF KnownTitles
    <3>2. r[t] = [recs[t] EXCEPT !.adopt = values[t]]
      BY <2>3 DEF WithAdopted
    <3>3. r[t] \in Record /\ r[t].di = recs[t].di
      BY <3>1, <3>2 DEF Record
    <3> QED BY <3>1, <3>3
  <2> QED BY <2>2, <2>3
<1>3. r \in Files
  BY <1>2 DEF Files, WithAdopted
<1>4. Instances(r) = Instances(recs)
  BY <1>2 DEF Instances
<1>5. Valid(map, range)
  BY DEF StoreInv, MemoryValid
<1> QED BY <1>1, <1>3, <1>4, <1>5 DEF Staged

\* Neither does a saved counter.
LEMMA SaveEnergyStages ==
    ASSUME StoreInv, NEW t \in Titles, NEW c \in Counter, Saveable(t, c)
    PROVE  Staged(map, [recs EXCEPT ![t] = WithCounter(@, c)])
<1> DEFINE rec == WithCounter(recs[t], c)
<1>1. map \in Maps /\ recs \in Files /\ map = Instances(recs)
  BY DEF StoreInv, StoreTypeOK, MapOfRecords
<1>2. recs[t] \in Record
  BY <1>1 DEF Files, Saveable
<1>3. rec \in Record /\ rec.di = recs[t].di
  BY <1>2 DEF WithCounter, AsDict, Counter, Record
<1>4. [recs EXCEPT ![t] = rec] \in Files
      /\ Instances([recs EXCEPT ![t] = rec]) = [map EXCEPT ![t] = rec.di]
  BY <1>1, <1>3, InstancesExcept
<1>5. map[t] = rec.di
  BY <1>1, <1>2, <1>3 DEF Instances
<1>6. [map EXCEPT ![t] = rec.di] = map
  BY <1>1, <1>5 DEF Maps
<1>7. Valid(map, range)
  BY DEF StoreInv, MemoryValid, Saveable
<1> QED BY <1>1, <1>4, <1>6, <1>7 DEF Staged
=============================================================================
