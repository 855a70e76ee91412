-------------------------- MODULE StoreCallersProofs --------------------------
(***************************************************************************)
(* The store's invariants and its promise, for every set of titles, every  *)
(* ranges and files: under every sequence of calls (StoreCallers), and     *)
(* with two holders over one file (Migration).                             *)
(***************************************************************************)
EXTENDS StoreCallers, Migration, StateStoreProofs, WellFoundedInduction

(***************************************************************************)
(* Every step of any caller keeps the invariant and, when the file could   *)
(* be read at each opening, the registry on disk.                          *)
(***************************************************************************)
LEMMA StepKeeps ==
    ASSUME StoreInv, [StoreNext]_storeVars
    PROVE  StoreInv' /\ ("read" \notin IoFaults => KeepsRegistry)
<1> USE CallersAssumption
<1>1. CASE OpenSome
  <2>1. PICK r \in Ranges : Hold(disk, r)
    BY <1>1 DEF OpenSome, Open
  <2>2. disk \in Files
    BY DEF StoreInv, StoreTypeOK
  <2> QED BY <2>1, <2>2, HoldKeeps
<1>2. CASE OpenBlind
  <2>1. PICK r \in Ranges : Hold(NoFile, r)
    BY <1>2 DEF OpenBlind, OpenUnreadable
  <2>2. "read" \in IoFaults
    BY <1>2 DEF OpenBlind, OpenUnreadable
  <2>3. NoFile \in Files
    BY DEF NoFile, Files
  <2> QED BY <2>1, <2>2, <2>3, HoldKeeps
<1>3. CASE AllocateSome
  <2>1. PICK t \in Titles, ok \in BOOLEAN : Allocate(t, ok)
    BY <1>3 DEF AllocateSome
  <2>2. PICK di \in DIs :
          /\ IsLowestFree(di)
          /\ Flush([map EXCEPT ![t] = di],
                   [recs EXCEPT ![t] = FreshRecord(di)], ok)
    BY <2>1 DEF Allocate
  <2>3. opened /\ map[t] = None
    BY <2>1 DEF Allocate
  <2> QED BY <2>2, <2>3, AllocateStages, FlushKeeps
<1>4. CASE SeedSome
  <2>1. PICK m \in SeedMaps, ok \in BOOLEAN : Seed(m, ok)
    BY <1>4 DEF SeedSome
  <2>2. /\ opened /\ Valid(Proposed(m), range)
        /\ Flush(Proposed(m), WithInstances(recs, Proposed(m)), ok)
    BY <2>1 DEF Seed
  <2> QED BY <2>2, SeedStages, FlushKeeps
<1>5. CASE AdoptSome
  <2>1. PICK v \in AdoptValues, ok \in BOOLEAN : SeedEnergy(v, ok)
    BY <1>5 DEF AdoptSome
  <2>2. /\ opened /\ KnownTitles(v)
        /\ Flush(map, WithAdopted(recs, v), ok)
    BY <2>1 DEF SeedEnergy
  <2> QED BY <2>2, SeedEnergyStages, FlushKeeps
<1>6. CASE SaveSome
  <2>1. PICK t \in Titles, c \in Counters, ok \in BOOLEAN : SaveEnergy(t, c, ok)
    BY <1>6 DEF SaveSome
  <2>2. /\ Saveable(t, c) /\ opened
        /\ Flush(map, [recs EXCEPT ![t] = WithCounter(@, c)], ok)
    BY <2>1 DEF SaveEnergy, Saveable
  <2> QED BY <2>2, SaveEnergyStages, FlushKeeps
<1>7. CASE SeedRefused \/ AdoptRefused \/ End
  <2>1. Close
    BY <1>7 DEF SeedRefused, AdoptRefused, SeedRejected, SeedEnergyRejected, End
  <2> QED BY <2>1, CloseKeeps
<1>8. CASE UNCHANGED storeVars
  BY <1>8 DEF storeVars, StoreInv, StoreTypeOK, MapOfRecords,
         MemoryMirrorsDisk, MemoryValid, DiskDistinct, KeepsRegistry
<1> QED BY <1>1, <1>2, <1>3, <1>4, <1>5, <1>6, <1>7, <1>8 DEF StoreNext

(***************************************************************************)
(* The invariant holds of every caller's run: memory typed and valid, the  *)
(* two dictionaries in step, memory equal to the file, instances distinct. *)
(***************************************************************************)
THEOREM StoreInvariant == StoreSpec => []StoreInv
<1>1. StoreInit => StoreInv
  <2> SUFFICES ASSUME StoreInit PROVE StoreInv
    OBVIOUS
  <2>1. NoMap \in Maps /\ NoFile \in Files
    BY DEF NoMap, NoFile, Maps, Files
  <2> QED
    BY <2>1, InstancesOfEmpty, InitialFilesAssumption
       DEF StoreInit, StoreInv, StoreTypeOK, MapOfRecords, MemoryMirrorsDisk,
           MemoryValid, DiskDistinct
<1>2. StoreInv /\ [StoreNext]_storeVars => StoreInv'
  BY StepKeeps
<1> QED BY <1>1, <1>2, PTL DEF StoreSpec

(***************************************************************************)
(* Type correctness of the store.                                          *)
(***************************************************************************)
THEOREM StoreTyped == StoreSpec => []StoreTypeOK
<1>1. StoreInv => StoreTypeOK
  BY DEF StoreInv
<1> QED BY <1>1, StoreInvariant, PTL

(***************************************************************************)
(* A failed write leaves nothing behind in memory.                         *)
(***************************************************************************)
THEOREM FailedWritesRollBack == StoreSpec => []MemoryMirrorsDisk
<1>1. StoreInv => MemoryMirrorsDisk
  BY DEF StoreInv
<1> QED BY <1>1, StoreInvariant, PTL

(***************************************************************************)
(* Memory holds instances of the range only, each for one title.           *)
(***************************************************************************)
THEOREM InstancesValid == StoreSpec => [](MapOfRecords /\ MemoryValid)
<1>1. StoreInv => MapOfRecords /\ MemoryValid
  BY DEF StoreInv
<1> QED BY <1>1, StoreInvariant, PTL

(***************************************************************************)
(* The map is never out of step with the records it stands for.            *)
(***************************************************************************)
THEOREM MapFollowsRecords == StoreSpec => []MapOfRecords
<1>1. StoreInv => MapOfRecords
  BY DEF StoreInv
<1> QED BY <1>1, StoreInvariant, PTL

(***************************************************************************)
(* The store implements the registry when its file can be read: no title   *)
(* ever loses or changes its instance, and no instance is given twice.     *)
(***************************************************************************)
THEOREM StoreImplementsRegistry ==
    ASSUME "read" \notin IoFaults
    PROVE  StoreSpec => RegistrySpec
<1>1. StoreInit => Registry!Init
  <2> SUFFICES ASSUME StoreInit PROVE Registry!Init
    OBVIOUS
  <2>1. disk \in Files /\ Distinct(Instances(disk))
    BY InitialFilesAssumption DEF StoreInit
  <2>2. Instances(disk) \in [Titles -> DIs \cup {None}]
    BY <2>1, InstancesType DEF Maps
  <2> QED BY <2>1, <2>2
          DEF Registry!Init, Registry!Assignments, Registry!Exclusive, Distinct
<1>2. StoreInv /\ [StoreNext]_storeVars
      => [Registry!Assign]_(Instances(disk))
  BY StepKeeps DEF KeepsRegistry
<1> QED BY <1>1, <1>2, StoreInvariant, PTL
        DEF StoreSpec, RegistrySpec, Registry!Spec

-------------------------------------------------------------------------------
(***************************************************************************)
(* The migrator and the bridge over one file (module Migration).  First    *)
(* what the tool decides, whatever the two do to each other's file.        *)
(***************************************************************************)

\* What the operator's answers, or --auto, may have chosen.
DecisionInv ==
    /\ MigrationTypeOK
    /\ \A i \in DOMAIN legacy : choice[i] # None => legacy[i].di # None
    /\ step # "idle" /\ mode.auto =>
          \A i \in DOMAIN legacy : choice[i] \in {None, ProposedTitle(i)}

\* The installs are those of one setup.
LEMMA LegacyTypes ==
    ASSUME MigrationTypeOK
    PROVE  /\ legacy \in Seq(Install) /\ Len(legacy) \in Nat
           /\ DOMAIN legacy = 1 .. Len(legacy)
           /\ \A i \in DOMAIN legacy : /\ legacy[i] \in Install
                                       /\ legacy[i].di \in DIs \cup {None}
                                       /\ legacy[i].index \in Int \cup {None}
<1>1. legacy \in Seq(Install)
  BY MigrationAssumption DEF MigrationTypeOK
<1>2. /\ Len(legacy) \in Nat /\ DOMAIN legacy = 1 .. Len(legacy)
      /\ \A i \in DOMAIN legacy : legacy[i] \in Install
  BY <1>1
<1>3. \A install \in Install : /\ install.di \in DIs \cup {None}
                              /\ install.index \in Int \cup {None}
  BY DEF Install
<1> QED BY <1>1, <1>2, <1>3

\* What EVCC answered is a list of titles.
LEMMA TitlesTypes ==
    ASSUME MigrationTypeOK
    PROVE  /\ titles \in Seq(Titles)
           /\ \A n \in DOMAIN titles : titles[n] \in Titles /\ titles[n] # None
           /\ DOMAIN titles \subseteq Int
<1>1. titles \in Seq(Titles)
  <2>1. <<>> \in Seq(Titles)
    OBVIOUS
  <2>2. titles \in EvccLists \/ titles = <<>>
    BY DEF MigrationTypeOK
  <2>3. EvccLists \subseteq Seq(Titles)
    BY MigrationAssumption
  <2> QED BY <2>1, <2>2, <2>3, Zenon
<1> QED BY <1>1, MigrationAssumption

\* A name that one slot has is proposed as that slot's title.
LEMMA NameProposed ==
    ASSUME MigrationTypeOK, NEW name
    PROVE  /\ ByName(name) \in Titles \cup {None}
           /\ ByName(name) # None => \E n \in DOMAIN titles :
                 /\ titles[n] = ByName(name) /\ Lower[titles[n]] = name
                 /\ Slots(name) = {n}
<1>1. CASE name # None /\ UniqueSlot(name)
  <2> DEFINE n == CHOOSE k \in DOMAIN titles : Slots(name) = {k}
  <2>1. n \in DOMAIN titles /\ Slots(name) = {n}
    BY <1>1 DEF UniqueSlot
  <2>2. ByName(name) = titles[n]
    BY <1>1 DEF ByName
  <2>3. Lower[titles[n]] = name
    BY <2>1 DEF Slots
  <2> QED BY <2>1, <2>2, <2>3, TitlesTypes
<1>2. CASE ~(name # None /\ UniqueSlot(name))
  BY <1>2 DEF ByName
<1> QED BY <1>1, <1>2

\* An index is proposed as the title of its slot, if no other slot is called so.
LEMMA IndexProposed ==
    ASSUME MigrationTypeOK, NEW index \in Int
    PROVE  /\ ByIndex(index) \in Titles \cup {None}
           /\ ByIndex(index) # None => \E n \in DOMAIN titles :
                 /\ titles[n] = ByIndex(index) /\ index = n - 1
                 /\ Slots(Lower[titles[n]]) = {n}
<1>1. CASE index + 1 \in DOMAIN titles /\ UniqueSlot(Lower[titles[index + 1]])
  <2> DEFINE n == index + 1
  <2>1. ByIndex(index) = titles[n] /\ n \in DOMAIN titles
    BY <1>1 DEF ByIndex
  <2>2. PICK k \in DOMAIN titles : Slots(Lower[titles[n]]) = {k}
    BY <1>1 DEF UniqueSlot
  <2>3. n \in Slots(Lower[titles[n]])
    BY <2>1 DEF Slots
  <2>4. Slots(Lower[titles[n]]) = {n}
    BY <2>2, <2>3
  <2>5. index = n - 1
    OBVIOUS
  <2> QED BY <2>1, <2>4, <2>5, TitlesTypes
<1>2. CASE ~(index + 1 \in DOMAIN titles /\ UniqueSlot(Lower[titles[index + 1]]))
  BY <1>2 DEF ByIndex
<1> QED BY <1>1, <1>2

\* What is proposed for an install stands in one slot, and not by chance.
LEMMA ProposalIsSound ==
    ASSUME MigrationTypeOK, NEW i \in DOMAIN legacy
    PROVE  /\ ProposedTitle(i) \in Titles \cup {None}
           /\ ProposedTitle(i) # None => \E n \in DOMAIN titles :
                 /\ titles[n] = ProposedTitle(i)
                 /\ \A m \in DOMAIN titles : Lower[titles[m]] = Lower[titles[n]] => m = n
                 /\ legacy[i].index # None => legacy[i].index = n - 1
                 /\ legacy[i].index = None => legacy[i].name = Lower[titles[n]]
<1>1. CASE legacy[i].index # None
  <2>1. legacy[i].index \in Int
    BY <1>1, LegacyTypes
  <2>2. ProposedTitle(i) = ByIndex(legacy[i].index)
    BY <1>1 DEF ProposedTitle
  <2> QED BY <1>1, <2>1, <2>2, IndexProposed DEF Slots
<1>2. CASE legacy[i].index = None
  <2>1. ProposedTitle(i) = ByName(legacy[i].name)
    BY <1>2 DEF ProposedTitle
  <2> QED BY <1>2, <2>1, NameProposed DEF Slots
<1> QED BY <1>1, <1>2

\* The least of some installs is one of them.
LEMMA FirstIsOne ==
    ASSUME NEW S \in SUBSET Nat, S # {}
    PROVE  First(S) \in S
<1> DEFINE R == OpToRel(<, Nat)
<1>1. IsWellFoundedOn(R, Nat)
  BY NatLessThanWellFounded
<1>2. \A x, y \in Nat : x < y => <<x, y>> \in R
  BY DEF OpToRel
<1> HIDE DEF R
<1>3. PICK x \in S : \A y \in S : <<y, x>> \notin R
  BY <1>1, WFMin
<1>4. ASSUME NEW y \in S PROVE x <= y
  <2>1. x \in Nat /\ y \in Nat
    OBVIOUS
  <2>2. ~(y < x)
    BY <1>2, <1>3, <2>1
  <2> QED BY <2>1, <2>2
<1> QED BY <1>3, <1>4 DEF First

\* What is seeded is an instance of one of the installs, for every title that
\* was chosen.
LEMMA MappingTypes ==
    ASSUME DecisionInv
    PROVE  /\ Mapping \in Maps
           /\ \A i \in Chosen : choice[i] \in Titles /\ Mapping[choice[i]] # None
<1>1. MigrationTypeOK
  BY DEF DecisionInv
<1>2. ASSUME NEW t \in Titles, ChosenFor(t) # {}
      PROVE  /\ First(ChosenFor(t)) \in DOMAIN legacy
             /\ legacy[First(ChosenFor(t))].di \in DIs
  <2>1. ChosenFor(t) \subseteq Nat
    BY <1>1, LegacyTypes DEF ChosenFor, Chosen
  <2>2. First(ChosenFor(t)) \in ChosenFor(t)
    BY <1>2, <2>1, FirstIsOne
  <2>3. /\ First(ChosenFor(t)) \in DOMAIN legacy
        /\ choice[First(ChosenFor(t))] # None
    BY <2>2 DEF ChosenFor, Chosen
  <2>4. legacy[First(ChosenFor(t))].di # None
    BY <2>3 DEF DecisionInv
  <2> QED BY <1>1, <2>3, <2>4, LegacyTypes
<1>3. ASSUME NEW t \in Titles
      PROVE  /\ Mapping[t] \in DIs \cup {None}
             /\ ChosenFor(t) # {} => Mapping[t] \in DIs
  BY <1>2 DEF Mapping
<1>4. Mapping \in Maps
  BY <1>3 DEF Maps, Mapping
<1>5. ASSUME NEW i \in Chosen
      PROVE  choice[i] \in Titles /\ Mapping[choice[i]] # None
  <2>1. choice[i] \in Titles
    BY <1>1 DEF Chosen, MigrationTypeOK
  <2>2. i \in ChosenFor(choice[i])
    BY DEF ChosenFor
  <2>3. Mapping[choice[i]] \in DIs
    BY <1>3, <2>1, <2>2
  <2> QED BY <2>1, <2>3, NoneAssumption, DIsAssumption
<1> QED BY <1>4, <1>5

\* The two stores over the one file, as types.
BothTyped == /\ StoreTypeOK
             /\ bOpened \in BOOLEAN /\ bRange \in Ranges
             /\ bMap \in Maps /\ bRecs \in Files

\* Either store is typed after what its methods do, whoever wrote the file.
LEMMA StoresStayTyped ==
    ASSUME DecisionInv, MigrationNext
    PROVE  BothTyped'
<1>1. /\ MigrationTypeOK /\ opened \in BOOLEAN /\ range \in Ranges
      /\ map \in Maps /\ recs \in Files /\ disk \in Files
      /\ bOpened \in BOOLEAN /\ bRange \in Ranges /\ bMap \in Maps /\ bRecs \in Files
  BY DEF DecisionInv, MigrationTypeOK, StoreTypeOK
<1>2. /\ NoMap \in Maps /\ NoFile \in Files /\ Instances(disk) \in Maps
      /\ NoMap = Bridge!NoMap /\ NoFile = Bridge!NoFile
      /\ Bridge!Instances(disk) = Instances(disk)
  BY <1>1, InstancesType
     DEF NoMap, NoFile, Maps, Files, Bridge!NoMap, Bridge!NoFile, Instances,
         Bridge!Instances
<1>3. mode.range \in Ranges /\ BridgeRange \in Ranges
  BY <1>1, MigrationAssumption DEF MigrationTypeOK, Mode
<1>4. ASSUME UNCHANGED <<storeVars, bridgeVars>> PROVE BothTyped'
  BY <1>1, <1>4 DEF storeVars, bridgeVars, BothTyped, StoreTypeOK
<1>5. ASSUME Return, UNCHANGED bridgeVars PROVE BothTyped'
  BY <1>1, <1>2, <1>5 DEF Return, Close, bridgeVars, BothTyped, StoreTypeOK
<1>6. CASE OpenStore
  BY <1>1, <1>2, <1>3, <1>6
     DEF OpenStore, Open, OpenUnreadable, Hold, Instances, NoFile, Files, Maps,
         bridgeVars, BothTyped, StoreTypeOK
<1>7. CASE SeedStore
  <2>1. PICK ok \in BOOLEAN : Seed(Mapping, ok) /\ UNCHANGED bridgeVars
    BY <1>7 DEF SeedStore
  <2> DEFINE m == Proposed(Mapping)
             r == WithInstances(recs, m)
  <2>2. Mapping \in Maps
    BY MappingTypes
  <2>3. m \in Maps
    BY <1>1, <2>2 DEF Proposed, Maps
  <2>4. r \in Files
    BY <1>1, <2>3, WithInstancesType
  <2>5. Flush(m, r, ok)
    BY <2>1 DEF Seed
  <2> HIDE DEF m, r
  <2> QED BY <1>1, <2>1, <2>3, <2>4, <2>5
          DEF Flush, AfterFailedFlush, bridgeVars, BothTyped, StoreTypeOK
<1>8. CASE BridgeStart
  BY <1>1, <1>2, <1>3, <1>8
     DEF BridgeStart, Bridge!Open, Bridge!OpenUnreadable, Bridge!Hold,
         Bridge!Instances, Bridge!NoFile, NoFile, Files, Maps, memoryVars, BothTyped,
         StoreTypeOK
<1>9. CASE BridgeAllocate
  <2>1. PICK t \in Titles, ok \in BOOLEAN : Bridge!Allocate(t, ok)
    BY <1>9 DEF BridgeAllocate
  <2>2. PICK di \in DIs :
           Bridge!Flush([bMap EXCEPT ![t] = di],
                        [bRecs EXCEPT ![t] = Bridge!FreshRecord(di)], ok)
    BY <2>1 DEF Bridge!Allocate
  <2> DEFINE m == [bMap EXCEPT ![t] = di]
             r == [bRecs EXCEPT ![t] = Bridge!FreshRecord(di)]
  <2>3. m \in Maps /\ r \in Files
    BY <1>1 DEF Maps, Files, Record, Bridge!FreshRecord
  <2>4. Bridge!Flush(m, r, ok)
    BY <2>2
  <2>5. UNCHANGED memoryVars
    BY <1>9 DEF BridgeAllocate
  <2> HIDE DEF m, r
  <2> QED BY <1>1, <2>3, <2>4, <2>5
          DEF Bridge!Flush, Bridge!AfterFailedFlush, memoryVars, BothTyped, StoreTypeOK
<1>10. CASE BridgeStop
  BY <1>1, <1>2, <1>10
     DEF BridgeStop, Bridge!Close, memoryVars, BothTyped, StoreTypeOK
<1>11. ASSUME \/ Begin \/ SkipUnusable \/ AcceptProposal \/ Decline \/ Override
              \/ Uninstall \/ NoUninstall \/ Activate \/ Deactivate
       PROVE  UNCHANGED <<storeVars, bridgeVars>>
  BY <1>11 DEF Begin, SkipUnusable, AcceptProposal, Decline, Override, Decided,
     Uninstall, NoUninstall, Activate, Deactivate
<1>12. ASSUME NothingToWrite \/ Abort \/ OpenRefused \/ SeedStoreRejected \/ Finish \/ Kill
       PROVE  Return /\ UNCHANGED bridgeVars
  BY <1>12 DEF NothingToWrite, Abort, OpenRefused, SeedStoreRejected, Finish, Kill
<1> QED BY <1>4, <1>5, <1>6, <1>7, <1>8, <1>9, <1>10, <1>11, <1>12
        DEF MigrationNext, Tool, Service

\* What is proposed depends on the installs and EVCC's answer only.
LEMMA ProposalStands ==
    ASSUME UNCHANGED <<titles, legacy>>
    PROVE  \A i : ProposedTitle(i)' = ProposedTitle(i)
BY DEF ProposedTitle, ByIndex, ByName, UniqueSlot, Slots

\* A decision for the install the loop is at.
LEMMA DecidedKeeps ==
    ASSUME DecisionInv, Deciding, NEW title \in Titles \cup {None}, NEW typed \in BOOLEAN,
           title # None => pos \in Proposals,
           mode.auto => title \in {None, ProposedTitle(pos)},
           Decided(title, typed)
    PROVE  DecisionInv'
<1>1. MigrationTypeOK /\ pos \in DOMAIN legacy
  BY DEF DecisionInv, Deciding
<1>2. /\ choice' = [choice EXCEPT ![pos] = title] /\ pos' = pos + 1
      /\ overridden' = (overridden \/ typed)
      /\ UNCHANGED <<step, mode, titles, storeVars, bridgeVars, worldVars>>
  BY DEF Decided
<1>3. choice \in [DOMAIN legacy -> Titles \cup {None}]
  BY <1>1 DEF MigrationTypeOK
<1>4. /\ choice' \in [DOMAIN legacy -> Titles \cup {None}]
      /\ \A i \in DOMAIN legacy : choice'[i] = IF i = pos THEN title ELSE choice[i]
  BY <1>1, <1>2, <1>3
<1>5. pos' \in 1 .. Len(legacy) + 1
  BY <1>1, <1>2, LegacyTypes
<1>6. MigrationTypeOK'
  BY <1>1, <1>2, <1>4, <1>5 DEF MigrationTypeOK, StoreTypeOK, storeVars, bridgeVars,
     worldVars
<1>7. \A i \in DOMAIN legacy : choice'[i] # None => legacy[i].di # None
  BY <1>1, <1>4 DEF DecisionInv, Proposals
<1>8. /\ \A i : ProposedTitle(i)' = ProposedTitle(i)
      /\ UNCHANGED <<step, mode, legacy>>
  BY <1>2, ProposalStands DEF worldVars
<1>9. ASSUME mode.auto, NEW i \in DOMAIN legacy
      PROVE  choice'[i] \in {None, ProposedTitle(i)}
  BY <1>1, <1>4, <1>9 DEF DecisionInv, Deciding
<1> QED BY <1>6, <1>7, <1>8, <1>9 DEF DecisionInv

\* Every step of the tool and of the bridge.
LEMMA DecisionKept ==
    ASSUME DecisionInv, [MigrationNext]_migrationVars
    PROVE  DecisionInv'
<1>1. /\ MigrationTypeOK
      /\ legacy \in LegacySetups /\ removed \subseteq DOMAIN legacy
      /\ step \in {"idle", "decide", "seed", "uninstall", "failed"}
      /\ mode \in Modes /\ titles \in EvccLists \cup {<<>>}
      /\ pos \in 1 .. Len(legacy) + 1
      /\ choice \in [DOMAIN legacy -> Titles \cup {None}]
      /\ overridden \in BOOLEAN /\ marker \in BOOLEAN
      /\ successor \in [DOMAIN legacy -> Titles \cup {None}]
  BY DEF DecisionInv, MigrationTypeOK
<1>2. Len(legacy) \in Nat /\ DOMAIN legacy = 1 .. Len(legacy)
  BY <1>1, LegacyTypes
\* Steps after which the choices are what they were.
<1>3. ASSUME BothTyped', UNCHANGED <<choice, mode, titles, legacy, overridden>>,
             step' \in {"idle", "decide", "seed", "uninstall", "failed"},
             step' # "idle" => step # "idle",
             pos' \in 1 .. Len(legacy) + 1, marker' \in BOOLEAN,
             removed' \subseteq DOMAIN legacy,
             successor' \in [DOMAIN legacy -> Titles \cup {None}]
      PROVE  DecisionInv'
  <2>1. \A i : ProposedTitle(i)' = ProposedTitle(i)
    BY <1>3, ProposalStands
  <2>2. MigrationTypeOK'
    BY <1>1, <1>3 DEF BothTyped, MigrationTypeOK
  <2>3. /\ \A i \in DOMAIN legacy : choice[i] # None => legacy[i].di # None
        /\ step # "idle" /\ mode.auto =>
              \A i \in DOMAIN legacy : choice[i] \in {None, ProposedTitle(i)}
    BY DEF DecisionInv
  <2> QED BY <1>3, <2>1, <2>2, <2>3 DEF DecisionInv
<1>4. CASE Begin
  <2>1. BothTyped'
    BY <1>4, StoresStayTyped DEF MigrationNext, Tool
  <2>2. /\ mode' \in Modes /\ titles' \in EvccLists /\ pos' = 1 /\ step' = "decide"
        /\ choice' = NothingChosen /\ overridden' = FALSE
        /\ UNCHANGED <<marker, legacy, removed, successor>>
    BY <1>4 DEF Begin, worldVars
  <2>3. /\ choice' \in [DOMAIN legacy -> Titles \cup {None}]
        /\ \A i \in DOMAIN legacy : choice'[i] = None
    BY <2>2 DEF NothingChosen
  <2>4. pos' \in 1 .. Len(legacy) + 1
    BY <1>2, <2>2
  <2>5. MigrationTypeOK'
    BY <1>1, <2>1, <2>2, <2>3, <2>4 DEF BothTyped, MigrationTypeOK
  <2> QED BY <2>2, <2>3, <2>5 DEF DecisionInv
<1>5. CASE SkipUnusable
  BY <1>5, DecidedKeeps DEF SkipUnusable
<1>6. CASE AcceptProposal
  BY <1>1, <1>6, DecidedKeeps, ProposalIsSound DEF AcceptProposal, Deciding
<1>7. CASE Decline
  BY <1>7, DecidedKeeps DEF Decline
<1>8. CASE Override
  BY <1>8, DecidedKeeps DEF Override
<1>9. ASSUME \/ NothingToWrite \/ Abort \/ OpenStore \/ OpenRefused \/ SeedStore
             \/ SeedStoreRejected \/ Finish \/ Kill
             \/ BridgeStart \/ BridgeAllocate \/ BridgeStop \/ Activate \/ Deactivate
      PROVE  DecisionInv'
  <2>1. BothTyped'
    BY <1>9, StoresStayTyped DEF MigrationNext, Tool, Service
  <2>2. /\ UNCHANGED <<choice, mode, titles, legacy, overridden>>
        /\ step' \in {"idle", "decide", "seed", "uninstall", "failed"}
        /\ step' # "idle" => step # "idle"
        /\ pos' \in {1, pos} /\ marker' \in BOOLEAN
        /\ UNCHANGED <<removed, successor>>
    BY <1>1, <1>9
       DEF NothingToWrite, Abort, OpenStore, OpenRefused, SeedStore, SeedStoreRejected,
           Finish, Kill, Return, BridgeStart, BridgeAllocate, BridgeStop, Activate,
           Deactivate, toolVars, worldVars, Decision, StepAfterSeed
  <2> QED BY <1>1, <1>2, <1>3, <2>1, <2>2
<1>10. CASE Uninstall \/ NoUninstall
  <2>1. BothTyped'
    BY <1>10, StoresStayTyped DEF MigrationNext, Tool
  <2>2. /\ UNCHANGED <<choice, mode, titles, legacy, overridden, step, marker>>
        /\ pos' = pos + 1 /\ pos \in DOMAIN legacy
    BY <1>10 DEF Uninstall, NoUninstall, Uninstalling, worldVars
  <2>3. /\ removed' \subseteq DOMAIN legacy
        /\ successor' \in [DOMAIN legacy -> Titles \cup {None}]
    BY <1>1, <1>10, <2>2 DEF Uninstall, NoUninstall, worldVars
  <2>4. pos' \in 1 .. Len(legacy) + 1
    BY <1>2, <2>2
  <2> QED BY <1>1, <1>3, <2>1, <2>2, <2>3, <2>4
<1>11. CASE UNCHANGED migrationVars
  <2>1. BothTyped'
    BY <1>1, <1>11 DEF BothTyped, MigrationTypeOK, StoreTypeOK, migrationVars,
       storeVars, bridgeVars
  <2> QED BY <1>1, <1>3, <1>11, <2>1 DEF migrationVars, toolVars, worldVars
<1> QED BY <1>4, <1>5, <1>6, <1>7, <1>8, <1>9, <1>10, <1>11
        DEF MigrationNext, Tool, Service

\* At first nothing is chosen.
LEMMA DecisionInit == MigrationInit => DecisionInv
<1> SUFFICES ASSUME MigrationInit PROVE DecisionInv
  OBVIOUS
<1>1. /\ legacy \in LegacySetups /\ legacy \in Seq(Install) /\ step = "idle"
      /\ choice = NothingChosen /\ successor = NothingChosen
  BY MigrationAssumption DEF MigrationInit
<1>2. /\ NothingChosen \in [DOMAIN legacy -> Titles \cup {None}]
      /\ \A i \in DOMAIN legacy : NothingChosen[i] = None
  BY DEF NothingChosen
<1>3. 1 \in 1 .. Len(legacy) + 1
  BY <1>1
<1>4. NoMap \in Maps /\ NoFile \in Files
  BY DEF NoMap, NoFile, Maps, Files
<1>5. StoreTypeOK
  BY <1>4, InitialFilesAssumption DEF MigrationInit, StoreInit, StoreTypeOK
<1>6. MigrationTypeOK
  BY <1>1, <1>2, <1>3, <1>4, <1>5, MigrationAssumption
     DEF MigrationInit, MigrationTypeOK
<1> QED BY <1>1, <1>2, <1>6 DEF DecisionInv

\* It holds of every run, with or without the check for a running service.
LEMMA DecisionInvariant == MigrationSpec => []DecisionInv
<1>1. DecisionInv /\ [MigrationNext]_migrationVars => DecisionInv'
  BY DecisionKept
<1> QED BY <1>1, DecisionInit, PTL DEF MigrationSpec

(***************************************************************************)
(* Type correctness of the handover.                                       *)
(***************************************************************************)
THEOREM MigrationTyped == MigrationSpec => []MigrationTypeOK
<1>1. DecisionInv => MigrationTypeOK
  BY DEF DecisionInv
<1> QED BY <1>1, DecisionInvariant, PTL

(***************************************************************************)
(* --auto never guesses: a title it seeds stands in one slot of EVCC, and  *)
(* that slot is the one the install names.                                 *)
(***************************************************************************)
THEOREM AutoNeverGuesses == MigrationSpec => []AutoIsUnambiguous
<1>1. DecisionInv => AutoIsUnambiguous
  <2> SUFFICES ASSUME DecisionInv, step # "idle", mode.auto, NEW i \in Chosen
               PROVE  \E n \in DOMAIN titles :
                  /\ titles[n] = choice[i]
                  /\ \A m \in DOMAIN titles : Lower[titles[m]] = Lower[titles[n]] => m = n
                  /\ legacy[i].index # None => legacy[i].index = n - 1
                  /\ legacy[i].index = None => legacy[i].name = Lower[titles[n]]
    BY DEF AutoIsUnambiguous
  <2>1. i \in DOMAIN legacy /\ choice[i] # None /\ choice[i] = ProposedTitle(i)
    BY DEF Chosen, DecisionInv
  <2> QED BY <2>1, ProposalIsSound DEF DecisionInv
<1> QED BY <1>1, DecisionInvariant, PTL

-------------------------------------------------------------------------------
(***************************************************************************)
(* What the two do to the file, when nobody overrides or circumvents the   *)
(* tool's check for a running service: one process at a time holds the     *)
(* file, and, if the file could be read when it was opened, knows what is  *)
(* in it.                                                                  *)
(***************************************************************************)
ServiceCheckHonoured ==
    OperatorSlips = {} /\ \A m \in Modes : ~m.ignoreRunning

FileReadable == "read" \notin IoFaults

\* The bridge's store, while it is held, is the file.
BridgeInv ==
    /\ bMap = Instances(bRecs)
    /\ bOpened => bRecs = disk /\ Valid(bMap, bRange) /\ ~marker

\* The tool's is, while it works, and then the bridge does not run.
ToolInv ==
    /\ opened => recs = disk /\ step # "idle"
    /\ step # "idle" => marker

\* What was applied is on disk before the first service is removed.
AppliedOnDisk ==
    step = "uninstall" =>
        \A i \in DOMAIN legacy : choice[i] # None => disk[choice[i]] # None

HandoverInv ==
    /\ StoreInv
    /\ BridgeInv
    /\ ToolInv
    /\ AppliedOnDisk
    /\ RemovedHasSuccessor

\* Titles on disk stay there: what relies on them goes on to.
DiskGrows == \A t \in Titles : disk[t] # None => disk'[t] # None

\* A title that got an instance has a record.
LEMMA RecordThere ==
    ASSUME NEW f \in Files, NEW t \in Titles
    PROVE  f[t] # None <=> Instances(f)[t] # None
<1>1. f[t] \in Record \cup {None} /\ Instances(f)[t] = IF f[t] = None THEN None ELSE f[t].di
  BY DEF Files, Instances
<1>2. ASSUME f[t] \in Record PROVE f[t].di # None
  <2>1. f[t].di \in DIs
    BY <1>2 DEF Record
  <2>2. \A d \in DIs : d # None
    BY NoneAssumption, DIsAssumption
  <2> QED BY <2>1, <2>2
<1> QED BY <1>1, <1>2, NoRecordAssumption

\* A step of the registry loses no title.
LEMMA RegistryGrows ==
    ASSUME disk \in Files, disk' \in Files, KeepsRegistry
    PROVE  DiskGrows
<1> SUFFICES ASSUME NEW t \in Titles, Instances(disk)[t] # None
             PROVE  Instances(disk)'[t] # None
  BY RecordThere DEF DiskGrows
<1> QED BY DEF KeepsRegistry, Registry!Assign, Registry!Extends

\* The steps that neither touch the file nor open or close a store.
LEMMA ElsewhereSafe ==
    ASSUME HandoverInv, UNCHANGED <<storeVars, bridgeVars>>
    PROVE  StoreInv' /\ KeepsRegistry /\ DiskGrows
BY DEF HandoverInv, StoreInv, StoreTypeOK, MapOfRecords, MemoryMirrorsDisk,
   MemoryValid, DiskDistinct, KeepsRegistry, DiskGrows, storeVars

\* The bridge allocates from what is on disk: nobody else writes meanwhile.
LEMMA BridgeAllocateSafe ==
    ASSUME HandoverInv, DecisionInv, BridgeAllocate
    PROVE  StoreInv' /\ BridgeInv' /\ KeepsRegistry
<1>1. PICK t \in Titles, ok \in BOOLEAN : Bridge!Allocate(t, ok)
  BY DEF BridgeAllocate
<1>2. PICK di \in DIs :
         /\ Bridge!IsLowestFree(di)
         /\ Bridge!Flush([bMap EXCEPT ![t] = di],
                         [bRecs EXCEPT ![t] = Bridge!FreshRecord(di)], ok)
  BY <1>1 DEF Bridge!Allocate
<1> DEFINE m == [bMap EXCEPT ![t] = di]
           r == [bRecs EXCEPT ![t] = FreshRecord(di)]
<1>3. /\ bOpened /\ bMap[t] = None /\ bRecs = disk /\ bMap = Instances(bRecs)
      /\ Valid(bMap, bRange) /\ ~marker /\ bRecs \in Files
  BY <1>1 DEF Bridge!Allocate, HandoverInv, BridgeInv, DecisionInv, MigrationTypeOK
<1>4. di \in bRange[1] .. bRange[2] /\ \A u \in Titles : bMap[u] # di
  BY <1>2, NoneAssumption, DIsAssumption
     DEF Bridge!IsLowestFree, Bridge!Free, Bridge!Used
<1>5. /\ r \in Files /\ Instances(r) = m /\ m \in Maps /\ Valid(m, bRange)
      /\ \A u \in Titles : bMap[u] # None => m[u] = bMap[u]
  BY <1>3, <1>4, OneMoreTitle
<1>6. /\ UNCHANGED <<bOpened, bRange, marker>>
      /\ \/ bMap' = m /\ bRecs' = r /\ disk' = r
         \/ UNCHANGED <<bMap, bRecs, disk>>
  BY <1>2 DEF Bridge!Flush, Bridge!AfterFailedFlush, Bridge!FreshRecord, FreshRecord,
     BridgeAllocate, worldVars
<1>7. UNCHANGED memoryVars
  BY DEF BridgeAllocate
<1>8. ~opened
  BY <1>3 DEF HandoverInv, ToolInv
<1> HIDE DEF m, r
<1>9. BridgeInv'
  BY <1>3, <1>5, <1>6 DEF BridgeInv
<1>10. StoreInv'
  BY <1>5, <1>6, <1>7, <1>8
     DEF HandoverInv, StoreInv, StoreTypeOK, MapOfRecords, MemoryMirrorsDisk,
         MemoryValid, DiskDistinct, Valid, memoryVars
<1>11. KeepsRegistry
  <2>1. CASE disk' = r
    <3>1. Instances(disk)' = m /\ Instances(disk) = bMap
      BY <1>3, <1>5, <2>1
    <3>2. m \in Registry!Assignments
      BY <1>5 DEF Registry!Assignments, Registry!Exclusive, Valid, Distinct, Maps
    <3>3. Registry!Extends(bMap, m)
      BY <1>5 DEF Registry!Extends
    <3> QED BY <3>1, <3>2, <3>3 DEF KeepsRegistry, Registry!Assign
  <2>2. CASE disk' = disk
    BY <2>2 DEF KeepsRegistry
  <2> QED BY <1>6, <2>1, <2>2
<1> QED BY <1>9, <1>10, <1>11

\* The tool seeds into what is on disk.
LEMMA SeedSafe ==
    ASSUME HandoverInv, DecisionInv, SeedStore
    PROVE  /\ StoreInv' /\ KeepsRegistry
           /\ recs' = disk' /\ opened' /\ AppliedOnDisk'
<1>1. PICK ok \in BOOLEAN : Seed(Mapping, ok) /\ step' = StepAfterSeed(ok)
  BY DEF SeedStore
<1> DEFINE m == Proposed(Mapping)
           r == WithInstances(recs, m)
<1>2. /\ Mapping \in Maps
      /\ \A i \in Chosen : choice[i] \in Titles /\ Mapping[choice[i]] # None
  BY MappingTypes
<1>3. opened /\ Valid(m, range) /\ Flush(m, r, ok) /\ StoreInv
  BY <1>1 DEF Seed, HandoverInv
<1>4. Staged(m, r)
  BY <1>2, <1>3, SeedStages
<1>5. recs = disk /\ disk \in Files /\ map = Instances(disk) /\ map \in Maps
  BY <1>3 DEF HandoverInv, ToolInv, StoreInv, StoreTypeOK, MapOfRecords
<1>6. /\ opened' = opened /\ range' = range
      /\ \/ ok /\ map' = m /\ recs' = r /\ disk' = r
         \/ ~ok /\ UNCHANGED <<map, recs, disk>>
  BY <1>3 DEF Flush, AfterFailedFlush
<1>7. r \in Files /\ Instances(r) = m /\ m \in Maps
  BY <1>4 DEF Staged
<1>8. \A i \in Chosen : choice[i] \in Titles /\ m[choice[i]] # None
  BY <1>2 DEF Proposed
<1>9. \A t \in Titles : map[t] # None => m[t] = map[t]
  BY <1>4 DEF Staged
<1>10. StoreInv'
  BY <1>3, <1>4, FlushKeeps
<1>11. \A i \in Chosen : r[choice[i]] # None
  BY <1>7, <1>8, RecordThere
<1>12. UNCHANGED <<choice, legacy>>
  BY DEF SeedStore, worldVars
<1>13. Valid(m, range)
  BY <1>3
<1> HIDE DEF m, r
<1>14. recs' = disk' /\ opened'
  BY <1>3, <1>5, <1>6
<1>15. AppliedOnDisk'
  <2>1. CASE ok
    BY <1>6, <1>11, <1>12, <2>1 DEF AppliedOnDisk, Chosen
  <2>2. CASE ~ok
    BY <1>1, <2>2 DEF AppliedOnDisk, StepAfterSeed
  <2> QED BY <2>1, <2>2
<1>16. KeepsRegistry
  <2>1. CASE disk' = r
    <3>1. Instances(disk)' = m /\ Instances(disk) = map
      BY <1>5, <1>7, <2>1
    <3>2. m \in Registry!Assignments
      BY <1>7, <1>13 DEF Registry!Assignments, Registry!Exclusive, Valid, Distinct, Maps
    <3>3. Registry!Extends(map, m)
      BY <1>9 DEF Registry!Extends
    <3> QED BY <3>1, <3>2, <3>3 DEF KeepsRegistry, Registry!Assign
  <2>2. CASE disk' = disk
    BY <2>2 DEF KeepsRegistry
  <2> QED BY <1>6, <2>1, <2>2
<1> QED BY <1>10, <1>14, <1>15, <1>16

\* A service is removed for a title that is on disk by then.
LEMMA UninstallSafe ==
    ASSUME HandoverInv, DecisionInv, Uninstall
    PROVE  RemovedHasSuccessor' /\ AppliedOnDisk'
<1>1. /\ step = "uninstall" /\ pos \in Applied /\ pos \in DOMAIN legacy
      /\ UNCHANGED <<choice, legacy, disk, step>>
  BY DEF Uninstall, Uninstalling, storeVars
<1>2. choice[pos] # None /\ disk[choice[pos]] # None
  BY <1>1 DEF Applied, Chosen, HandoverInv, AppliedOnDisk
<1>3. successor \in [DOMAIN legacy -> Titles \cup {None}]
  BY DEF DecisionInv, MigrationTypeOK
<1>4. \/ /\ removed' = removed \cup {pos}
         /\ successor' = [successor EXCEPT ![pos] =
                             IF pos \in removed THEN @ ELSE choice[pos]]
      \/ UNCHANGED <<removed, successor>>
  BY DEF Uninstall
<1>5. RemovedHasSuccessor
  BY DEF HandoverInv
<1>6. RemovedHasSuccessor'
  <2>1. CASE UNCHANGED <<removed, successor>>
    BY <1>1, <1>5, <2>1 DEF RemovedHasSuccessor
  <2>2. CASE /\ removed' = removed \cup {pos}
             /\ successor' = [successor EXCEPT ![pos] =
                                 IF pos \in removed THEN @ ELSE choice[pos]]
    <3> SUFFICES ASSUME NEW i \in removed'
                 PROVE  successor'[i] # None /\ disk'[successor'[i]] # None
      BY DEF RemovedHasSuccessor
    <3>1. CASE i \in removed
      <4>1. successor'[i] = successor[i]
        BY <1>3, <2>2, <3>1
      <4> QED BY <1>1, <1>5, <3>1, <4>1 DEF RemovedHasSuccessor
    <3>2. CASE i \notin removed
      <4>1. i = pos /\ successor'[i] = choice[pos]
        BY <1>1, <1>3, <2>2, <3>2
      <4> QED BY <1>1, <1>2, <4>1
    <3> QED BY <3>1, <3>2
  <2> QED BY <1>4, <2>1, <2>2
<1>7. AppliedOnDisk'
  BY <1>1 DEF HandoverInv, AppliedOnDisk
<1> QED BY <1>6, <1>7

\* What relies on titles that are on disk goes on to do so.
LEMMA CarriedOn ==
    ASSUME HandoverInv, DecisionInv, DiskGrows,
           UNCHANGED <<legacy, removed, successor>>
    PROVE  /\ RemovedHasSuccessor'
           /\ UNCHANGED choice /\ (step' = "uninstall" => step = "uninstall")
                 => AppliedOnDisk'
<1>1. /\ \A i \in removed : successor[i] # None /\ disk[successor[i]] # None
      /\ \A i \in removed : successor[i] \in Titles \cup {None}
  BY DEF HandoverInv, RemovedHasSuccessor, DecisionInv, MigrationTypeOK
<1>2. RemovedHasSuccessor'
  BY <1>1 DEF RemovedHasSuccessor, DiskGrows
<1>3. \A i \in DOMAIN legacy : choice[i] \in Titles \cup {None}
  BY DEF DecisionInv, MigrationTypeOK
<1>4. ASSUME UNCHANGED choice, step' = "uninstall" => step = "uninstall"
      PROVE  AppliedOnDisk'
  BY <1>3, <1>4 DEF HandoverInv, AppliedOnDisk, DiskGrows
<1> QED BY <1>2, <1>4

\* Every step of the two keeps the handover safe, and is a step of the registry.
LEMMA HandoverKept ==
    ASSUME ServiceCheckHonoured, FileReadable, HandoverInv, DecisionInv, BothTyped',
           [MigrationNext]_migrationVars
    PROVE  HandoverInv' /\ KeepsRegistry
<1>1. /\ StoreInv /\ BridgeInv /\ ToolInv /\ AppliedOnDisk
      /\ disk \in Files /\ disk' \in Files
  BY DEF HandoverInv, BothTyped, StoreTypeOK, StoreInv
<1>2. KeepsRegistry => DiskGrows
  BY <1>1, RegistryGrows
\* Steps that leave the file and both stores alone.
<1>3. ASSUME UNCHANGED <<storeVars, bridgeVars, marker, legacy, removed, successor>>,
             step' # "idle" => marker,
             step' = "idle" => step = "idle",
             step' # "uninstall" \/ (UNCHANGED choice /\ step = "uninstall")
      PROVE  HandoverInv' /\ KeepsRegistry
  <2>1. StoreInv' /\ KeepsRegistry /\ DiskGrows
    BY <1>3, ElsewhereSafe
  <2>2. BridgeInv' /\ ToolInv'
    BY <1>1, <1>3 DEF BridgeInv, ToolInv, Valid, storeVars, bridgeVars
  <2>3. RemovedHasSuccessor' /\ AppliedOnDisk'
    BY <1>3, <2>1, CarriedOn DEF AppliedOnDisk
  <2> QED BY <2>1, <2>2, <2>3 DEF HandoverInv
\* The tool returns.
<1>4. ASSUME Return, UNCHANGED <<bridgeVars, worldVars>>
      PROVE  HandoverInv' /\ KeepsRegistry
  <2>1. StoreInv' /\ KeepsRegistry
    BY <1>1, <1>4, CloseKeeps DEF Return
  <2>2. /\ opened' = FALSE /\ step' = "idle" /\ UNCHANGED <<disk, choice>>
        /\ UNCHANGED <<marker, legacy, removed, successor>>
    BY <1>4 DEF Return, Close, worldVars
  <2>3. BridgeInv' /\ ToolInv'
    BY <1>1, <1>4, <2>2 DEF BridgeInv, ToolInv, Valid, bridgeVars
  <2>4. RemovedHasSuccessor' /\ AppliedOnDisk'
    BY <1>2, <2>1, <2>2, CarriedOn
  <2> QED BY <2>1, <2>3, <2>4 DEF HandoverInv
<1>5. CASE Begin
  <2>1. step = "idle" /\ step' = "decide" /\ marker
    BY <1>5 DEF Begin, ServiceCheckHonoured, MultiServiceRunning
  <2> QED BY <1>3, <1>5, <2>1 DEF Begin, worldVars
<1>6. ASSUME SkipUnusable \/ AcceptProposal \/ Decline \/ Override
      PROVE  HandoverInv' /\ KeepsRegistry
  <2>1. /\ step = "decide" /\ step' = step
        /\ UNCHANGED <<storeVars, bridgeVars, worldVars>>
    BY <1>6 DEF SkipUnusable, AcceptProposal, Decline, Override, Deciding, Decided
  <2> QED BY <1>1, <1>3, <2>1 DEF ToolInv, worldVars
<1>7. ASSUME NothingToWrite \/ Abort \/ OpenRefused \/ SeedStoreRejected \/ Finish \/ Kill
      PROVE  HandoverInv' /\ KeepsRegistry
  BY <1>4, <1>7 DEF NothingToWrite, Abort, OpenRefused, SeedStoreRejected, Finish, Kill
<1>8. CASE OpenStore
  <2>1. /\ Hold(disk, mode.range) /\ step = "decide" /\ step' = "seed"
        /\ UNCHANGED <<choice, bridgeVars, marker, legacy, removed, successor>>
    BY <1>8 DEF OpenStore, Open, OpenUnreadable, FileReadable, Decision, worldVars
  <2>2. mode.range \in Ranges
    BY MigrationAssumption DEF DecisionInv, MigrationTypeOK, Mode
  <2>3. StoreInv' /\ KeepsRegistry
    BY <1>1, <2>1, <2>2, HoldKeeps
  <2>4. recs' = disk' /\ disk' = disk
    BY <2>1 DEF Hold
  <2>5. BridgeInv' /\ ToolInv'
    BY <1>1, <2>1, <2>4 DEF BridgeInv, ToolInv, Valid, bridgeVars
  <2>6. RemovedHasSuccessor' /\ AppliedOnDisk'
    BY <1>2, <2>1, <2>3, CarriedOn DEF AppliedOnDisk
  <2> QED BY <2>3, <2>5, <2>6 DEF HandoverInv
<1>9. CASE SeedStore
  <2>1. StoreInv' /\ KeepsRegistry /\ recs' = disk' /\ opened' /\ AppliedOnDisk'
    BY <1>9, SeedSafe
  <2>2. /\ step = "seed" /\ step' # "idle"
        /\ UNCHANGED <<bridgeVars, marker, legacy, removed, successor>>
    BY <1>9 DEF SeedStore, StepAfterSeed, worldVars
  <2>3. ~bOpened
    BY <1>1, <2>2 DEF BridgeInv, ToolInv
  <2>4. BridgeInv' /\ ToolInv'
    BY <1>1, <2>1, <2>2, <2>3 DEF BridgeInv, ToolInv, bridgeVars
  <2>5. RemovedHasSuccessor'
    BY <1>2, <2>1, <2>2, CarriedOn
  <2> QED BY <2>1, <2>4, <2>5 DEF HandoverInv
<1>10. CASE Uninstall
  <2>1. /\ UNCHANGED <<storeVars, bridgeVars, step, marker>>
    BY <1>10 DEF Uninstall
  <2>2. StoreInv' /\ KeepsRegistry
    BY <2>1, ElsewhereSafe
  <2>3. BridgeInv' /\ ToolInv'
    BY <1>1, <2>1 DEF BridgeInv, ToolInv, Valid, storeVars, bridgeVars
  <2>4. RemovedHasSuccessor' /\ AppliedOnDisk'
    BY <1>10, UninstallSafe
  <2> QED BY <2>2, <2>3, <2>4 DEF HandoverInv
<1>11. CASE NoUninstall
  <2>1. UNCHANGED <<storeVars, bridgeVars, step, choice, worldVars>>
    BY <1>11 DEF NoUninstall
  <2> QED BY <1>1, <1>3, <2>1 DEF ToolInv, worldVars
<1>12. CASE BridgeStart
  <2>1. /\ ~marker /\ Bridge!Valid(Bridge!Instances(disk), BridgeRange)
        /\ bRange' = BridgeRange /\ bMap' = Bridge!Instances(disk) /\ bRecs' = disk
        /\ UNCHANGED <<storeVars, step, choice, marker, legacy, removed, successor>>
    BY <1>12 DEF BridgeStart, Bridge!Open, Bridge!OpenUnreadable, Bridge!Hold,
       ServiceCheckHonoured, FileReadable, memoryVars, storeVars, toolVars, worldVars
  <2>2. /\ Bridge!Instances(disk) = Instances(disk)
        /\ Valid(Instances(disk), BridgeRange)
    BY <2>1 DEF Bridge!Instances, Instances, Bridge!Valid, Valid, Bridge!Distinct, Distinct
  <2>3. BridgeInv' /\ ToolInv'
    <3>1. bRecs' = disk' /\ bMap' = Instances(disk) /\ Instances(bRecs') = Instances(disk)
      BY <2>1, <2>2 DEF storeVars
    <3> QED BY <1>1, <2>1, <2>2, <3>1 DEF BridgeInv, ToolInv, Valid, storeVars
  <2>4. StoreInv' /\ KeepsRegistry /\ DiskGrows
    BY <1>1, <2>1 DEF StoreInv, StoreTypeOK, MapOfRecords, MemoryMirrorsDisk,
       MemoryValid, DiskDistinct, KeepsRegistry, DiskGrows, storeVars
  <2>5. RemovedHasSuccessor' /\ AppliedOnDisk'
    BY <2>1, <2>4, CarriedOn
  <2> QED BY <2>3, <2>4, <2>5 DEF HandoverInv
<1>13. CASE BridgeAllocate
  <2>1. StoreInv' /\ BridgeInv' /\ KeepsRegistry
    BY <1>13, BridgeAllocateSafe
  <2>2. UNCHANGED <<opened, recs, step, choice, marker, legacy, removed, successor>>
    BY <1>13 DEF BridgeAllocate, memoryVars, toolVars, worldVars
  <2>3. bOpened
    BY <1>13 DEF BridgeAllocate, Bridge!Allocate
  <2>4. ToolInv'
    BY <1>1, <2>2, <2>3 DEF BridgeInv, ToolInv
  <2>5. RemovedHasSuccessor' /\ AppliedOnDisk'
    BY <1>2, <2>1, <2>2, CarriedOn
  <2> QED BY <2>1, <2>4, <2>5 DEF HandoverInv
<1>14. CASE BridgeStop
  <2>1. /\ bOpened' = FALSE /\ bMap' = Bridge!NoMap /\ bRecs' = Bridge!NoFile
        /\ UNCHANGED <<storeVars, step, choice, marker, legacy, removed, successor>>
    BY <1>14 DEF BridgeStop, Bridge!Close, memoryVars, storeVars, toolVars, worldVars
  <2>2. Bridge!NoMap = NoMap /\ Bridge!NoFile = NoFile
    BY DEF Bridge!NoMap, NoMap, Bridge!NoFile, NoFile
  <2>3. BridgeInv' /\ ToolInv'
    <3>1. Instances(bRecs') = bMap'
      BY <2>1, <2>2, InstancesOfEmpty
    <3> QED BY <1>1, <2>1, <3>1 DEF BridgeInv, ToolInv, storeVars
  <2>4. StoreInv' /\ KeepsRegistry /\ DiskGrows
    BY <1>1, <2>1 DEF StoreInv, StoreTypeOK, MapOfRecords, MemoryMirrorsDisk,
       MemoryValid, DiskDistinct, KeepsRegistry, DiskGrows, storeVars
  <2>5. RemovedHasSuccessor' /\ AppliedOnDisk'
    BY <2>1, <2>4, CarriedOn
  <2> QED BY <2>3, <2>4, <2>5 DEF HandoverInv
<1>15. CASE Activate \/ Deactivate
  <2>1. /\ step = "idle" /\ step' = "idle" /\ UNCHANGED <<choice, legacy, removed, successor>>
        /\ UNCHANGED <<storeVars, bridgeVars>>
        /\ ~marker' \/ ~bOpened
    BY <1>15 DEF Activate, Deactivate, Unattended, ServiceCheckHonoured, toolVars
  <2>2. StoreInv' /\ KeepsRegistry /\ DiskGrows
    BY <2>1, ElsewhereSafe
  <2>3. BridgeInv' /\ ToolInv'
    BY <1>1, <2>1 DEF BridgeInv, ToolInv, Valid, storeVars, bridgeVars
  <2>4. RemovedHasSuccessor' /\ AppliedOnDisk'
    BY <2>1, <2>2, CarriedOn
  <2> QED BY <2>2, <2>3, <2>4 DEF HandoverInv
<1>16. CASE UNCHANGED migrationVars
  <2>1. UNCHANGED <<storeVars, bridgeVars, step, choice, marker, legacy, removed, successor>>
    BY <1>16 DEF migrationVars, toolVars, worldVars
  <2> QED BY <1>1, <1>3, <2>1 DEF ToolInv, AppliedOnDisk
<1> QED BY <1>5, <1>6, <1>7, <1>8, <1>9, <1>10, <1>11, <1>12, <1>13, <1>14, <1>15,
        <1>16 DEF MigrationNext, Tool, Service

\* Before either has run the file is a registry and nothing is removed.
LEMMA HandoverInit == MigrationInit => HandoverInv
<1> SUFFICES ASSUME MigrationInit PROVE HandoverInv
  OBVIOUS
<1>1. NoMap \in Maps /\ NoFile \in Files
  BY DEF NoMap, NoFile, Maps, Files
<1>2. StoreInv
  BY <1>1, InstancesOfEmpty, InitialFilesAssumption
     DEF MigrationInit, StoreInit, StoreInv, StoreTypeOK, MapOfRecords,
         MemoryMirrorsDisk, MemoryValid, DiskDistinct
<1>3. BridgeInv /\ ToolInv /\ AppliedOnDisk /\ RemovedHasSuccessor
  BY InstancesOfEmpty DEF MigrationInit, StoreInit, BridgeInv, ToolInv, AppliedOnDisk,
     RemovedHasSuccessor
<1> QED BY <1>2, <1>3 DEF HandoverInv

\* So it is in every run in which the check is honoured.
LEMMA HandoverInvariant ==
    ASSUME ServiceCheckHonoured, FileReadable
    PROVE  MigrationSpec => []HandoverInv
<1>1. /\ HandoverInv /\ DecisionInv /\ DecisionInv' /\ [MigrationNext]_migrationVars
      => HandoverInv'
  BY HandoverKept DEF DecisionInv, MigrationTypeOK, BothTyped
<1> QED BY <1>1, HandoverInit, DecisionInvariant, PTL DEF MigrationSpec

(***************************************************************************)
(* Where state.json can be read whenever it is opened, and the check is    *)
(* honoured, a legacy bridge is uninstalled only for a title that has its  *)
(* place on disk, and that title keeps it.                                 *)
(***************************************************************************)
THEOREM SeededBeforeRemoved ==
    ASSUME ServiceCheckHonoured, FileReadable
    PROVE  MigrationSpec => []RemovedHasSuccessor
<1>1. HandoverInv => RemovedHasSuccessor
  BY DEF HandoverInv
<1> QED BY <1>1, HandoverInvariant, PTL

(***************************************************************************)
(* The tool never works on a file that somebody changed meanwhile (what    *)
(* MemoryMirrorsDisk says is void of a file that could not be read).       *)
(***************************************************************************)
THEOREM ToolMirrorsDisk ==
    ASSUME ServiceCheckHonoured, FileReadable
    PROVE  MigrationSpec => []MemoryMirrorsDisk
<1>1. HandoverInv => MemoryMirrorsDisk
  BY DEF HandoverInv, StoreInv
<1> QED BY <1>1, HandoverInvariant, PTL

(***************************************************************************)
(* The tool and the bridge together implement the registry: neither takes  *)
(* back, moves or gives twice what the other one gave.  As for the store   *)
(* alone the file has to be readable: a holder that took it for an empty   *)
(* one writes its own titles back over it.                                 *)
(***************************************************************************)
THEOREM HandoverImplementsRegistry ==
    ASSUME ServiceCheckHonoured, FileReadable
    PROVE  MigrationSpec => RegistrySpec
<1>1. MigrationInit => Registry!Init
  <2> SUFFICES ASSUME MigrationInit PROVE Registry!Init
    OBVIOUS
  <2>1. disk \in Files /\ Distinct(Instances(disk))
    BY InitialFilesAssumption DEF MigrationInit, StoreInit
  <2>2. Instances(disk) \in [Titles -> DIs \cup {None}]
    BY <2>1, InstancesType DEF Maps
  <2> QED BY <2>1, <2>2
          DEF Registry!Init, Registry!Assignments, Registry!Exclusive, Distinct
<1>2. /\ HandoverInv /\ DecisionInv /\ DecisionInv' /\ [MigrationNext]_migrationVars
      => [Registry!Assign]_(Instances(disk))
  BY HandoverKept DEF KeepsRegistry, DecisionInv, MigrationTypeOK, BothTyped
<1> QED BY <1>1, <1>2, HandoverInvariant, DecisionInvariant, PTL
        DEF MigrationSpec, RegistrySpec, Registry!Spec
=============================================================================
