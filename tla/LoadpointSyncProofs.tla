-------------------------- MODULE LoadpointSyncProofs --------------------------
(***************************************************************************)
(* The identity of the bridge's services, for every list of titles, every  *)
(* range and every fault.  What relates them to the file supposes that it  *)
(* could be read at each start.                                            *)
(***************************************************************************)
EXTENDS LoadpointSync, StateStoreProofs, SequenceTheorems

\* The services on the bus agree with the store.
BusOfStore ==
    \A t \in Titles : Present(t) =>
        /\ map[t] # None
        /\ services[t].di = map[t]

\* What each step of tick() may rely on.
Control ==
    /\ opened <=> loop # "off"
    /\ loop = "off" => services = NoServices /\ pc = "idle"
    /\ pc # "idle" => loop \in {"first", "armed"}
    /\ pc \in {"ensure", "register", "update", "save"} => pos \in DOMAIN poll
    /\ pc = "register" => map[Title] # None
    /\ pc \in {"update", "save"} => Present(Title)

ReadsWork == "read" \notin IoFaults

\* Where the file could be read, so do the history and the file.
Identified ==
    ReadsWork => /\ IdentityOnDisk
                 /\ \A t \in Titles : Present(t) => identity[t] = map[t]

SyncInv ==
    /\ SyncTypeOK
    /\ StoreInv
    /\ Control
    /\ BusOfStore
    /\ Identified

USE SyncAssumption, NoServiceAssumption, ThresholdAssumption

-------------------------------------------------------------------------------
(***************************************************************************)
(* The title the loop is at is a title.                                    *)
(***************************************************************************)
LEMMA PollIsList == SyncInv => poll \in Seq(Titles) /\ evcc \in Seq(Titles)
<1>1. <<>> \in Seq(Titles)
  OBVIOUS
<1> QED BY <1>1 DEF SyncInv, SyncTypeOK

\* Inside the walk the place is one of the list.
LEMMA TitleType ==
    ASSUME SyncInv, pc \in {"ensure", "register", "update", "save"}
    PROVE  Title \in Titles /\ pos \in 1 .. Len(poll) /\ poll \in Seq(Titles)
<1>1. poll \in Seq(Titles) /\ pos \in DOMAIN poll
  BY PollIsList DEF SyncInv, Control
<1> QED BY <1>1 DEF Title

(***************************************************************************)
(* What a step that leaves the store alone keeps of it.                    *)
(***************************************************************************)
LEMMA StoreKept ==
    ASSUME StoreInv, UNCHANGED storeVars
    PROVE  StoreInv' /\ KeepsRegistry
BY DEF storeVars, StoreInv, StoreTypeOK, MapOfRecords, MemoryMirrorsDisk,
       MemoryValid, DiskDistinct, KeepsRegistry

(***************************************************************************)
(* A write keeps every identity on disk and every instance of the map.     *)
(***************************************************************************)
LEMMA FlushKeepsIdentity ==
    ASSUME SyncInv, opened, NEW m, NEW r, NEW ok \in BOOLEAN,
           Staged(m, r), Flush(m, r, ok), UNCHANGED identity
    PROVE  /\ StoreInv'
           /\ ReadsWork => IdentityOnDisk'
           /\ \A t \in Titles : map[t] # None => map'[t] = map[t]
           /\ UNCHANGED <<opened, range>>
<1>1. StoreInv' /\ UNCHANGED <<opened, range>>
  BY FlushKeeps DEF SyncInv, Flush
<1>2. ReadsWork => map = Instances(disk) /\ disk \in Files /\ IdentityOnDisk
  BY DEF SyncInv, StoreInv, StoreTypeOK, MapOfRecords, MemoryMirrorsDisk,
         ReadsWork, Identified
<1>3. CASE ok
  <2>1. map' = m /\ disk' = r
    BY <1>3 DEF Flush
  <2>2. \A t \in Titles : map[t] # None => map'[t] = map[t]
    BY <2>1 DEF Staged
  <2>3. m = Instances(r) /\ r \in Files
    BY DEF Staged
  <2>4. ASSUME ReadsWork, NEW t \in Titles, identity[t] # None
        PROVE  r[t] # None /\ r[t].di = identity[t]
    <3>1. disk[t] # None /\ disk[t].di = identity[t]
      BY <1>2, <2>4 DEF IdentityOnDisk
    <3>2. map[t] = identity[t]
      BY <3>1, <1>2, <2>4 DEF Instances
    <3>3. m[t] = identity[t]
      BY <3>2, <2>4, <2>1, <2>2
    <3> QED BY <3>3, <2>3, <2>4 DEF Instances
  <2>5. ReadsWork => IdentityOnDisk'
    BY <2>1, <2>4 DEF IdentityOnDisk
  <2> QED BY <1>1, <2>2, <2>5
<1>4. CASE ~ok
  <2>1. map' = map /\ disk' = disk
    BY <1>4 DEF Flush, AfterFailedFlush
  <2> QED BY <1>1, <1>2, <2>1 DEF IdentityOnDisk
<1> QED BY <1>3, <1>4

\* Services that were there before stay who they are.
LEMMA IdentifiedKept ==
    ASSUME SyncInv, UNCHANGED identity,
           UNCHANGED disk \/ (ReadsWork => IdentityOnDisk'),
           \A t \in Titles : services'[t] # None =>
               services[t] # None /\ (map[t] # None => map'[t] = map[t])
    PROVE  Identified'
<1>1. ReadsWork => IdentityOnDisk'
  BY DEF SyncInv, Identified, IdentityOnDisk
<1>2. ASSUME ReadsWork, NEW t \in Titles, services'[t] # None
      PROVE  identity'[t] = map'[t]
  <2>1. services[t] # None /\ map[t] # None /\ identity[t] = map[t]
    BY <1>2 DEF SyncInv, BusOfStore, Identified, Present
  <2> QED BY <1>2, <2>1
<1> QED BY <1>1, <1>2 DEF Identified, Present, ReadsWork

-------------------------------------------------------------------------------
(***************************************************************************)
(* The environment: EVCC and the other processes on the bus.               *)
(***************************************************************************)
LEMMA EnvironmentKeeps ==
    ASSUME SyncInv, Environment
    PROVE  SyncInv'
<1>1. /\ UNCHANGED storeVars
      /\ UNCHANGED <<loop, pc, poll, report, pos, services, offline>>
      /\ UNCHANGED <<identity, polled, credit>>
  BY DEF Environment, Charge, MeterReset, LegacyPublishes, Reconfigure,
         NameTaken, NameReleased, tickVars, serviceVars, historyVars
<1>2. /\ evcc' \in EvccConfigs
      /\ meter' \in [Titles -> Nat]
      /\ delivered' \in [Titles -> 0 .. MaxDelivered]
      /\ glitches' = glitches
      /\ names' \subseteq ForeignDIs
      /\ shown' \in [Titles -> Int \cup {None}]
  <2>0. /\ evcc \in EvccConfigs /\ names \subseteq ForeignDIs
        /\ meter \in [Titles -> Nat]
        /\ delivered \in [Titles -> 0 .. MaxDelivered]
        /\ shown \in [Titles -> Int \cup {None}]
    BY DEF SyncInv, SyncTypeOK
  <2>1. ASSUME NEW t \in Titles, Charge(t) \/ LegacyPublishes(t)
        PROVE  <1>2!:
    <3>0. delivered[t] < MaxDelivered /\ MaxDelivered \in Nat
      BY <2>1 DEF Charge, LegacyPublishes
    <3>1. delivered[t] + 1 \in 0 .. MaxDelivered /\ meter[t] + 1 \in Nat
      BY <3>0, <2>0
    <3>2. /\ delivered' = [delivered EXCEPT ![t] = delivered[t] + 1]
          /\ meter' = [meter EXCEPT ![t] = meter[t] + 1]
          /\ UNCHANGED <<evcc, glitches, names>>
      BY <2>1 DEF Charge, LegacyPublishes
    <3>3. delivered' \in [Titles -> 0 .. MaxDelivered]
      BY <2>0, <3>1, <3>2
    <3>4. meter' \in [Titles -> Nat]
      BY <2>0, <3>1, <3>2
    <3>5. shown' \in [Titles -> Int \cup {None}]
      <4>1. CASE Charge(t)
        BY <4>1, <2>0 DEF Charge, historyVars
      <4>2. CASE LegacyPublishes(t)
        <5>1. shown[t] + 1 \in Int
          BY <4>2, <2>0 DEF LegacyPublishes
        <5>2. shown' = [shown EXCEPT ![t] = shown[t] + 1]
          BY <4>2 DEF LegacyPublishes
        <5> QED BY <2>0, <5>1, <5>2
      <4> QED BY <2>1, <4>1, <4>2
    <3> QED BY <2>0, <3>2, <3>3, <3>4, <3>5
  <2>2. ASSUME NEW t \in Titles, MeterReset(t) PROVE <1>2!:
    <3>1. ZeroKwh + 1 \in Nat
      OBVIOUS
    <3>2. /\ meter' = [meter EXCEPT ![t] = ZeroKwh + 1]
          /\ UNCHANGED <<evcc, delivered, glitches, names, shown>>
      BY <2>2 DEF MeterReset, historyVars
    <3>3. meter' \in [Titles -> Nat]
      BY <2>0, <3>1, <3>2
    <3> QED BY <2>0, <3>2, <3>3
  <2>3. ASSUME NEW list \in EvccConfigs, Reconfigure(list) PROVE <1>2!:
    BY <2>0, <2>3 DEF Reconfigure, historyVars
  <2>4. ASSUME NEW di \in ForeignDIs, NameTaken(di) \/ NameReleased(di)
        PROVE  <1>2!:
    BY <2>0, <2>4 DEF NameTaken, NameReleased, evccVars, historyVars
  <2> QED BY <2>1, <2>2, <2>3, <2>4 DEF Environment
<1>3. StoreInv'
  BY <1>1, StoreKept DEF SyncInv
<1>4. SyncTypeOK'
  BY <1>1, <1>2, <1>3 DEF SyncInv, SyncTypeOK, StoreInv
<1>5. Control' /\ BusOfStore'
  BY <1>1 DEF SyncInv, Control, BusOfStore, storeVars, Present, Title
<1>6. Identified'
  BY <1>1, IdentifiedKept DEF storeVars
<1> QED BY <1>3, <1>4, <1>5, <1>6 DEF SyncInv

-------------------------------------------------------------------------------
(***************************************************************************)
(* main(): the start, and the ways the process ends.                       *)
(***************************************************************************)
LEMMA StartKeeps ==
    ASSUME SyncInv, Start
    PROVE  SyncInv'
<1>0. PICK f \in {disk, NoFile} :
         Hold(f, BridgeRange) /\ ("read" \notin IoFaults => f = disk)
  BY DEF Start, Open, OpenUnreadable
<1>1. /\ Hold(f, BridgeRange) /\ loop = "off" /\ loop' = "first"
      /\ UNCHANGED <<evcc, meter, delivered, glitches, names>>
      /\ UNCHANGED <<pc, poll, report, pos, services, offline>>
      /\ UNCHANGED <<identity, shown, polled, credit>>
  BY <1>0 DEF Start, evccVars, tickVars, serviceVars, historyVars
<1>2. StoreInv'
  <2>1. f \in Files
    BY DEF SyncInv, StoreInv, StoreTypeOK, NoFile, Files
  <2>2. BridgeRange \in Ranges
    OBVIOUS
  <2> QED BY <1>0, <2>1, <2>2, HoldKeeps DEF SyncInv
<1>3. SyncTypeOK'
  BY <1>1, <1>2 DEF SyncInv, SyncTypeOK, StoreInv
<1>4. pc = "idle" /\ services = NoServices
  BY <1>1 DEF SyncInv, Control
<1>5. Control'
  BY <1>1, <1>4 DEF Control, Hold
<1>6. BusOfStore'
  BY <1>1, <1>4 DEF BusOfStore, Present, NoServices
<1>7. Identified'
  BY <1>1, <1>4, IdentifiedKept DEF NoServices, Hold
<1> QED BY <1>2, <1>3, <1>5, <1>6, <1>7 DEF SyncInv

\* The kinds of reports, and what they say of the meter.
LEMMA ReportTypes ==
    /\ \A v \in Nat : /\ OfMeter(v) \in Report /\ OfMeter(v).import = v
                     /\ OfSession(v) \in Report /\ OfSession(v).import = 0
    /\ NullReport \in Report /\ NullReport.import = 0
    /\ NoReports \in [Titles -> Report]
<1>1. ASSUME NEW v \in Nat
      PROVE  OfMeter(v) \in Report /\ OfMeter(v).import = v
  BY DEF OfMeter, Report
<1>2. ASSUME NEW v \in Nat
      PROVE  OfSession(v) \in Report /\ OfSession(v).import = 0
  BY DEF OfSession, Report
<1>3. NullReport \in Report /\ NullReport.import = 0
  BY <1>1 DEF NullReport
<1> QED BY <1>1, <1>2, <1>3 DEF NoReports

\* The end of the process: nothing is shown, the file is as it was.
LEMMA DieKeeps ==
    ASSUME SyncInv, Die
    PROVE  SyncInv'
<1>1. /\ Close /\ loop' = "off" /\ pc' = "idle" /\ poll' = <<>>
      /\ report' = NoReports /\ pos' = 0
      /\ services' = NoServices /\ offline' = {}
      /\ UNCHANGED <<evcc, meter, delivered, glitches, names>>
      /\ UNCHANGED <<identity, shown, polled, credit>>
  BY DEF Die, evccVars, historyVars
<1>2. StoreInv'
  BY <1>1, CloseKeeps DEF SyncInv
<1>3. NoServices \in [Titles -> Service \cup {None}]
  BY DEF NoServices
<1>4. pos' \in 0 .. Len(poll') + 1 /\ poll' \in EvccConfigs \cup {<<>>}
  <2>1. Len(<<>>) = 0
    OBVIOUS
  <2> QED BY <2>1, <1>1
<1>5. SyncTypeOK'
  <2>1. StoreTypeOK' /\ NoReports \in [Titles -> Report]
    BY <1>2, ReportTypes DEF StoreInv
  <2> QED BY <1>1, <1>3, <1>4, <2>1 DEF SyncInv, SyncTypeOK
<1>6. Control'
  BY <1>1 DEF Control, Close
<1>7. BusOfStore'
  BY <1>1 DEF BusOfStore, Present, NoServices
<1>8. Identified'
  BY <1>1, IdentifiedKept DEF NoServices, Close
<1> QED BY <1>2, <1>5, <1>6, <1>7, <1>8 DEF SyncInv

\* An exception ends the process, or only its timer.
LEMMA TickRaisesKeeps ==
    ASSUME SyncInv, TickRaises
    PROVE  SyncInv'
<1>1. CASE Die
  BY <1>1, DieKeeps
<1>2. CASE ~Die
  <2>1. /\ loop = "armed" /\ loop' = "stopped" /\ pc' = "idle"
        /\ report' = NoReports
        /\ UNCHANGED storeVars
        /\ UNCHANGED <<evcc, meter, delivered, glitches, names>>
        /\ UNCHANGED <<poll, pos, services, offline>>
        /\ UNCHANGED <<identity, shown, polled, credit>>
    BY <1>2 DEF TickRaises, evccVars, serviceVars, historyVars
  <2>2. StoreInv'
    BY <2>1, StoreKept DEF SyncInv
  <2>3. SyncTypeOK'
    BY <2>1, <2>2, ReportTypes DEF SyncInv, SyncTypeOK, StoreInv
  <2>4. Control' /\ BusOfStore'
    BY <2>1 DEF SyncInv, Control, BusOfStore, storeVars, Present
  <2>5. Identified'
    BY <2>1, IdentifiedKept DEF storeVars
  <2> QED BY <2>2, <2>3, <2>4, <2>5 DEF SyncInv
<1> QED BY <1>1, <1>2

-------------------------------------------------------------------------------
(***************************************************************************)
(* The poll.                                                               *)
(***************************************************************************)
LEMMA ReportsTyped ==
    ASSUME SyncInv, NEW t \in Titles
    PROVE  /\ Reports(t) \subseteq Report
           /\ \A rep \in Reports(t) :
                 rep.import # 0 /\ rep.import < meter[t]
                 => glitches[t] + 1 < Confirmations
<1>0. /\ meter[t] \in Nat /\ delivered[t] \in Nat /\ glitches[t] \in Nat
      /\ ZeroKwh \in Nat
  BY DEF SyncInv, SyncTypeOK
<1>1. SoundReport(t) \in Report /\ SoundReport(t).import = meter[t]
  BY <1>0, ReportTypes DEF SoundReport
<1>2. \A rep \in NullReports(t) : rep \in Report /\ rep.import = 0
  BY ReportTypes DEF NullReports
<1>3. \A rep \in SessionReports(t) : rep \in Report /\ rep.import = 0
  BY <1>0, ReportTypes DEF SessionReports
<1>4. \A rep \in GlitchReports(t) :
         rep \in Report /\ glitches[t] + 1 < Confirmations
  BY <1>0, ReportTypes DEF GlitchReports
<1>5. ASSUME NEW rep \in Reports(t)
      PROVE  \/ rep = SoundReport(t) \/ rep \in NullReports(t)
             \/ rep \in SessionReports(t) \/ rep \in GlitchReports(t)
  BY <1>5 DEF Reports
<1> QED BY <1>0, <1>1, <1>2, <1>3, <1>4, <1>5

\* An answer starts a walk.
LEMMA PollOkKeeps ==
    ASSUME SyncInv, PollOk
    PROVE  SyncInv'
<1>1. PICK f \in Answers :
        /\ report' = f
        /\ glitches' = [t \in Titles |->
              IF f[t].import = 0 THEN glitches[t]
              ELSE IF f[t].import < meter[t] THEN glitches[t] + 1
              ELSE 0]
  BY DEF PollOk
<1>2. /\ poll' = evcc /\ pos' = 1 /\ polled' = delivered
      /\ pc' = IF evcc = <<>> THEN "sweep" ELSE "ensure"
      /\ loop \in {"first", "armed"} /\ pc = "idle"
      /\ UNCHANGED storeVars
      /\ UNCHANGED <<evcc, meter, delivered, names, loop, services, offline,
                     identity, shown, credit>>
  BY DEF PollOk, Polls, serviceVars
<1>3. ASSUME NEW t \in Titles
      PROVE  /\ f[t] \in Report
             /\ f[t].import # 0 /\ f[t].import < meter[t]
                => glitches[t] + 1 < Confirmations
  <2>1. f[t] \in Reports(t) \/ f[t] = NullReport
    BY DEF Answers
  <2>2. NullReport \in Report /\ NullReport.import = 0
    BY ReportTypes
  <2> QED BY <2>1, <2>2, ReportsTyped
<1>4. report' \in [Titles -> Report]
  BY <1>1, <1>3 DEF Answers
<1>5. glitches' \in [Titles -> 0 .. Confirmations]
  <2>1. glitches \in [Titles -> 0 .. Confirmations]
    BY DEF SyncInv, SyncTypeOK
  <2>2. ASSUME NEW t \in Titles PROVE glitches'[t] \in 0 .. Confirmations
    <3>1. CASE f[t].import # 0 /\ f[t].import < meter[t]
      BY <3>1, <1>1, <1>3, <2>1
    <3>2. CASE ~(f[t].import # 0 /\ f[t].import < meter[t])
      BY <3>2, <1>1, <2>1
    <3> QED BY <3>1, <3>2
  <2> QED BY <1>1, <2>2
<1>6. StoreInv'
  BY <1>2, StoreKept DEF SyncInv
<1>7. evcc \in Seq(Titles) /\ evcc \in EvccConfigs
  BY PollIsList DEF SyncInv, SyncTypeOK
<1>8. pos' \in 0 .. Len(poll') + 1
  BY <1>2, <1>7
<1>9. SyncTypeOK'
  BY <1>2, <1>4, <1>5, <1>6, <1>7, <1>8 DEF SyncInv, SyncTypeOK, StoreInv
<1>10. evcc # <<>> => 1 \in DOMAIN evcc
  BY <1>7, EmptySeq
<1>11. Control'
  BY <1>2, <1>10 DEF SyncInv, Control, storeVars
<1>12. BusOfStore' /\ Identified'
  BY <1>2, IdentifiedKept DEF SyncInv, BusOfStore, storeVars, Present
<1> QED BY <1>6, <1>9, <1>11, <1>12 DEF SyncInv

\* No answer changes nothing but the timer.
LEMMA PollUnreachableKeeps ==
    ASSUME SyncInv, PollUnreachable
    PROVE  SyncInv'
<1>1. /\ loop \in {"first", "armed"} /\ loop' = "armed"
      /\ UNCHANGED storeVars
      /\ UNCHANGED <<evcc, meter, delivered, glitches, names>>
      /\ UNCHANGED <<pc, poll, report, pos, services, offline>>
      /\ UNCHANGED <<identity, shown, polled, credit>>
  BY DEF PollUnreachable, Polls, TickReturns, evccVars, tickVars, serviceVars,
         historyVars
<1>2. StoreInv'
  BY <1>1, StoreKept DEF SyncInv
<1>3. SyncTypeOK'
  BY <1>1, <1>2 DEF SyncInv, SyncTypeOK, StoreInv
<1>4. Control' /\ BusOfStore'
  BY <1>1 DEF SyncInv, Control, BusOfStore, storeVars, Present, Title
<1>5. Identified'
  BY <1>1, IdentifiedKept DEF storeVars
<1> QED BY <1>2, <1>3, <1>4, <1>5 DEF SyncInv

-------------------------------------------------------------------------------
(***************************************************************************)
(* One loadpoint of the answer.  Moving to the next one, or to another     *)
(* step of the same one, keeps the tick's place.                           *)
(***************************************************************************)
LEMMA NextPlace ==
    ASSUME SyncInv, pc \in {"ensure", "register", "update", "save"},
           NextLoadpoint
    PROVE  /\ UNCHANGED <<poll, report>>
           /\ pc' \in {"ensure", "sweep"}
           /\ pos' \in 0 .. Len(poll') + 1
           /\ pc' = "ensure" => pos' \in DOMAIN poll'
<1>1. pos \in 1 .. Len(poll) /\ poll \in Seq(Titles)
  BY TitleType
<1>2. /\ pos' = pos + 1 /\ UNCHANGED <<poll, report>>
      /\ pc' = IF pos < Len(poll) THEN "ensure" ELSE "sweep"
  BY DEF NextLoadpoint
<1>3. Len(poll) \in Nat /\ DOMAIN poll = 1 .. Len(poll)
  BY <1>1
<1> QED BY <1>1, <1>2, <1>3

(***************************************************************************)
(* Steps that skip the loadpoint or only look at it.                       *)
(***************************************************************************)
LEMMA SkipKeeps ==
    ASSUME SyncInv, SkipDuplicate \/ EnsureExhausted \/ RegisterFails
    PROVE  SyncInv'
<1>1. /\ pc \in {"ensure", "register", "update", "save"}
      /\ NextLoadpoint
      /\ UNCHANGED storeVars
      /\ UNCHANGED <<evcc, meter, delivered, glitches, names, loop>>
      /\ UNCHANGED <<services, offline, identity, shown, polled, credit>>
  BY DEF SkipDuplicate, EnsureExhausted, RegisterFails, evccVars, serviceVars,
         historyVars
<1>2. StoreInv'
  BY <1>1, StoreKept DEF SyncInv
<1>3. /\ UNCHANGED <<poll, report>> /\ pc' \in {"ensure", "sweep"}
      /\ pos' \in 0 .. Len(poll') + 1
      /\ pc' = "ensure" => pos' \in DOMAIN poll'
  BY <1>1, NextPlace
<1>4. SyncTypeOK'
  BY <1>1, <1>2, <1>3 DEF SyncInv, SyncTypeOK, StoreInv
<1>5. Control'
  BY <1>1, <1>3 DEF SyncInv, Control, storeVars
<1>6. BusOfStore' /\ Identified'
  BY <1>1, IdentifiedKept DEF SyncInv, BusOfStore, storeVars, Present
<1> QED BY <1>2, <1>4, <1>5, <1>6 DEF SyncInv

\* A known title keeps its instance.
LEMMA EnsureKnownKeeps ==
    ASSUME SyncInv, EnsureKnown
    PROVE  SyncInv'
<1>1. /\ pc = "ensure" /\ (Present(Title) \/ map[Title] # None)
      /\ pc' = IF Present(Title) THEN "update" ELSE "register"
      /\ UNCHANGED storeVars
      /\ UNCHANGED <<poll, report, pos>>
      /\ UNCHANGED <<evcc, meter, delivered, glitches, names, loop>>
      /\ UNCHANGED <<services, offline, identity, shown, polled, credit>>
  BY DEF EnsureKnown, GoTo, evccVars, serviceVars, historyVars
<1>2. StoreInv'
  BY <1>1, StoreKept DEF SyncInv
<1>3. SyncTypeOK'
  BY <1>1, <1>2 DEF SyncInv, SyncTypeOK, StoreInv
<1>4. Control'
  BY <1>1 DEF SyncInv, Control, storeVars, Title, Present
<1>5. BusOfStore' /\ Identified'
  BY <1>1, IdentifiedKept DEF SyncInv, BusOfStore, storeVars, Present
<1> QED BY <1>2, <1>3, <1>4, <1>5 DEF SyncInv

\* A new title gets one nobody was ever shown with.
LEMMA EnsureAllocatesKeeps ==
    ASSUME SyncInv, EnsureAllocates
    PROVE  SyncInv'
<1>1. /\ pc = "ensure" /\ pc' = "register" /\ opened /\ map[Title] = None
      /\ UNCHANGED <<poll, report, pos>>
      /\ UNCHANGED <<evcc, meter, delivered, glitches, names, loop>>
      /\ UNCHANGED <<services, offline, identity, shown, polled, credit>>
  BY DEF EnsureAllocates, Allocate, GoTo, evccVars, serviceVars, historyVars
<1>2. Title \in Titles
  BY <1>1, TitleType
<1>3. PICK di \in DIs :
        /\ IsLowestFree(di)
        /\ Flush([map EXCEPT ![Title] = di],
                 [recs EXCEPT ![Title] = FreshRecord(di)], TRUE)
  BY DEF EnsureAllocates, Allocate
<1>4. Staged([map EXCEPT ![Title] = di],
             [recs EXCEPT ![Title] = FreshRecord(di)])
  BY <1>1, <1>2, <1>3, AllocateStages DEF SyncInv
<1>5. /\ StoreInv' /\ (ReadsWork => IdentityOnDisk')
      /\ \A t \in Titles : map[t] # None => map'[t] = map[t]
      /\ UNCHANGED <<opened, range>>
  BY <1>1, <1>3, <1>4, FlushKeepsIdentity
<1>6. map'[Title] # None
  <2>1. map' = [map EXCEPT ![Title] = di] /\ map \in [Titles -> DIs \cup {None}]
    BY <1>3 DEF Flush, SyncInv, StoreInv, StoreTypeOK, Maps
  <2>2. di # None
    BY NoneAssumption, DIsAssumption
  <2> QED BY <2>1, <2>2, <1>2
<1>7. SyncTypeOK'
  BY <1>1, <1>5 DEF SyncInv, SyncTypeOK, StoreInv
<1>8. Control'
  BY <1>1, <1>5, <1>6 DEF SyncInv, Control, Title
<1>9. BusOfStore'
  BY <1>1, <1>5 DEF SyncInv, BusOfStore, Present
<1>10. Identified'
  BY <1>1, <1>5, IdentifiedKept
<1> QED BY <1>5, <1>7, <1>8, <1>9, <1>10 DEF SyncInv

\* A failed allocation is rolled back.
LEMMA AllocateFailsKeeps ==
    ASSUME SyncInv, AllocateFails
    PROVE  SyncInv'
BY TickRaisesKeeps DEF AllocateFails

(***************************************************************************)
(* Registering: the new service has the instance the store answered, and   *)
(* the one the title was shown with before.                                *)
(***************************************************************************)
LEMMA NewServiceType ==
    ASSUME SyncInv, NEW t \in Titles, map[t] # None
    PROVE  NewService(t) \in Service /\ NewService(t).di = map[t]
<1>0. /\ map \in [Titles -> DIs \cup {None}] /\ map = Instances(recs)
      /\ recs \in [Titles -> Record \cup {None}]
  BY DEF SyncInv, StoreInv, StoreTypeOK, Maps, Files, MapOfRecords
<1>1. map[t] \in DIs /\ recs[t] \in Record /\ recs[t] # None
  <2>1. recs[t] # None
    BY <1>0 DEF Instances
  <2> QED BY <1>0, <2>1
<1>2. EnergyCounterOf(t) = FromDict(recs[t])
  BY <1>1 DEF EnergyCounterOf
<1>3. EnergyCounterOf(t) \in Counter
  BY <1>1, <1>2, DictTypes DEF Record
<1>4. NewService(t) = [di |-> map[t], connected |-> TRUE, forward |-> 0,
                       counter |-> EnergyCounterOf(t)]
  BY DEF NewService
<1> HIDE DEF NewService
<1> QED BY <1>1, <1>3, <1>4 DEF Service

\* The bus shows the instance the store answered.
LEMMA RegisterKeeps ==
    ASSUME SyncInv, Register
    PROVE  SyncInv'
<1>1. /\ pc = "register" /\ pc' = "update"
      /\ services' = [services EXCEPT ![Title] = NewService(Title)]
      /\ identity' = [identity EXCEPT ![Title] =
                         IF identity[Title] = None THEN map[Title]
                         ELSE identity[Title]]
      /\ UNCHANGED storeVars
      /\ UNCHANGED <<poll, report, pos>>
      /\ UNCHANGED <<evcc, meter, delivered, glitches, names, loop>>
      /\ UNCHANGED <<offline, shown, polled, credit>>
  BY DEF Register, GoTo, evccVars
<1>2. Title \in Titles /\ map[Title] # None
  BY <1>1, TitleType DEF SyncInv, Control
<1>3. NewService(Title) \in Service /\ NewService(Title).di = map[Title]
  BY <1>2, NewServiceType
<1>4. StoreInv'
  BY <1>1, StoreKept DEF SyncInv
<1>5. ReadsWork => map = Instances(disk)
  BY <1>1 DEF SyncInv, StoreInv, MapOfRecords, MemoryMirrorsDisk, Control,
         ReadsWork
<1>6. ReadsWork => identity'[Title] = map[Title]
  <2>0. identity'[Title] = IF identity[Title] = None THEN map[Title]
                           ELSE identity[Title]
    BY <1>1, <1>2 DEF SyncInv, SyncTypeOK, Maps
  <2>1. CASE identity[Title] = None
    BY <2>0, <2>1
  <2>2. ASSUME ReadsWork, identity[Title] # None
        PROVE  identity'[Title] = map[Title]
    <3>1. disk[Title] # None /\ disk[Title].di = identity[Title]
      BY <2>2, <1>2 DEF SyncInv, Identified, IdentityOnDisk
    <3>2. map[Title] = identity[Title]
      BY <3>1, <1>2, <1>5, <2>2 DEF Instances
    <3> QED BY <3>2, <2>0, <2>2
  <2> QED BY <2>1, <2>2
<1>7. \A t \in Titles : t # Title => identity'[t] = identity[t]
                                    /\ services'[t] = services[t]
  BY <1>1
<1>8. services'[Title] = NewService(Title) /\ NewService(Title) # None
  BY <1>1, <1>2, <1>3 DEF SyncInv, SyncTypeOK
<1>9. SyncTypeOK'
  <2>1. services' \in [Titles -> Service \cup {None}]
    BY <1>1, <1>2, <1>3 DEF SyncInv, SyncTypeOK
  <2>2. identity' \in Maps
    <3>1. identity \in [Titles -> DIs \cup {None}] /\ map[Title] \in DIs \cup {None}
      BY <1>2 DEF SyncInv, SyncTypeOK, StoreInv, StoreTypeOK, Maps
    <3> QED BY <1>1, <1>2, <3>1 DEF Maps
  <2> QED BY <2>1, <2>2, <1>1, <1>4 DEF SyncInv, SyncTypeOK, StoreInv
<1>10. Control'
  BY <1>1, <1>8 DEF SyncInv, Control, storeVars, Title, Present
<1>11. BusOfStore'
  BY <1>1, <1>2, <1>3, <1>7, <1>8 DEF SyncInv, BusOfStore, storeVars, Present
<1>12. ReadsWork => disk[Title] # None /\ disk[Title].di = map[Title]
  BY <1>2, <1>5 DEF Instances
<1>13. Identified'
  <2>1. ReadsWork => IdentityOnDisk'
    BY <1>1, <1>2, <1>6, <1>7, <1>12
       DEF SyncInv, Identified, IdentityOnDisk, storeVars
  <2>2. ASSUME ReadsWork, NEW t \in Titles, services'[t] # None
        PROVE  identity'[t] = map'[t]
    <3>1. t # Title => identity[t] = map[t]
      BY <1>7, <2>2 DEF SyncInv, Identified, Present
    <3> QED BY <1>1, <1>6, <1>7, <2>2, <3>1 DEF storeVars
  <2> QED BY <2>1, <2>2 DEF Identified, Present, ReadsWork
<1> QED BY <1>4, <1>9, <1>10, <1>11, <1>13 DEF SyncInv

(***************************************************************************)
(* Updating: a service stays a service, under its instance.                *)
(***************************************************************************)
LEMMA UpdatedType ==
    ASSUME NEW svc \in Service, NEW rep \in Report
    PROVE  /\ Updated(svc, rep) \in Service
           /\ Updated(svc, rep).di = svc.di
           /\ Updated(svc, rep).forward >= svc.forward
<1> DEFINE c == CounterAfter(svc.counter, rep)
           f == IF Candidate(rep) = None THEN svc.forward
                ELSE Larger(Held(c), svc.forward)
<1>1. svc.counter \in Counter /\ svc.forward \in Int
  BY DEF Service
<1>2. Candidate(rep) \in Nat \cup {None}
  BY DEF Candidate, Report
<1>3. c \in Counter
  BY <1>1, <1>2, AfterReadingType DEF CounterAfter
<1>4. f \in Int /\ f >= svc.forward
  <2>1. Held(c) \in Int
    BY <1>3, HeldType
  <2> QED BY <1>1, <2>1 DEF Larger
<1>5. Updated(svc, rep) = [svc EXCEPT !.connected = TRUE, !.counter = c,
                                      !.forward = f]
  BY DEF Updated
<1>6. TRUE \in BOOLEAN
  OBVIOUS
<1> HIDE DEF c, f
<1> QED BY <1>3, <1>4, <1>5, <1>6 DEF Service

\* What a step that only rewrites services under their instances keeps.
LEMMA SameInstances ==
    ASSUME SyncInv,
           \A t \in Titles : /\ services'[t] # None => services[t] # None
                             /\ services'[t] # None
                                => services'[t].di = services[t].di,
           \A t \in Titles : map[t] # None => map'[t] = map[t],
           UNCHANGED identity,
           UNCHANGED disk \/ (ReadsWork => IdentityOnDisk')
    PROVE  BusOfStore' /\ Identified'
<1>1. ASSUME NEW t \in Titles, services'[t] # None
      PROVE  map'[t] # None /\ services'[t].di = map'[t]
  <2>1. map[t] # None /\ services[t].di = map[t]
    BY <1>1 DEF SyncInv, BusOfStore, Present
  <2> QED BY <1>1, <2>1
<1>2. Identified'
  BY IdentifiedKept
<1> QED BY <1>1, <1>2 DEF BusOfStore, Present

\* An update changes readings, not instances.
LEMMA UpdateKeeps ==
    ASSUME SyncInv, Update
    PROVE  SyncInv'
<1> DEFINE svc == Updated(services[Title], report[Title])
<1>1. /\ pc = "update" /\ pc' = "save"
      /\ services' = [services EXCEPT ![Title] = svc]
      /\ shown' = [shown EXCEPT ![Title] = svc.forward]
      /\ credit' = [credit EXCEPT ![Title] =
            IF credit[Title] # None THEN credit[Title]
            ELSE (IF shown[Title] # None THEN shown[Title] ELSE svc.forward)
                 - polled[Title]]
      /\ offline' = offline \ {Title}
      /\ UNCHANGED storeVars
      /\ UNCHANGED <<poll, report, pos>>
      /\ UNCHANGED <<evcc, meter, delivered, glitches, names, loop>>
      /\ UNCHANGED <<identity, polled>>
  BY DEF Update, GoTo, evccVars, BackOnline
<1>2. Title \in Titles /\ services[Title] # None
  BY <1>1, TitleType DEF SyncInv, Control, Present
<1>3. services[Title] \in Service /\ report[Title] \in Report
  BY <1>2 DEF SyncInv, SyncTypeOK
<1>4. svc \in Service /\ svc.di = services[Title].di /\ svc.forward \in Int
  BY <1>3, UpdatedType DEF Service
<1> HIDE DEF svc
<1>5. StoreInv'
  BY <1>1, StoreKept DEF SyncInv
<1>6. services' \in [Titles -> Service \cup {None}]
  BY <1>1, <1>4 DEF SyncInv, SyncTypeOK
<1>7. shown' \in [Titles -> Int \cup {None}]
  BY <1>1, <1>4 DEF SyncInv, SyncTypeOK
<1>8. credit' \in [Titles -> Int \cup {None}]
  <2> DEFINE new == IF credit[Title] # None THEN credit[Title]
                    ELSE (IF shown[Title] # None THEN shown[Title]
                          ELSE svc.forward) - polled[Title]
  <2>1. /\ credit \in [Titles -> Int \cup {None}]
        /\ shown[Title] \in Int \cup {None} /\ polled[Title] \in Int
    BY <1>2, SMTT(30) DEF SyncInv, SyncTypeOK
  <2>2. new \in Int \cup {None}
    BY <1>2, <1>4, <2>1
  <2>3. credit' = [credit EXCEPT ![Title] = new]
    BY <1>1
  <2> HIDE DEF new
  <2> QED BY <2>1, <2>2, <2>3
<1>9. SyncTypeOK'
  BY <1>1, <1>5, <1>6, <1>7, <1>8 DEF SyncInv, SyncTypeOK, StoreInv
<1>10. services'[Title] = svc /\ svc # None
       /\ \A t \in Titles : t # Title => services'[t] = services[t]
  BY <1>1, <1>2, <1>4 DEF SyncInv, SyncTypeOK
<1>11. Control'
  BY <1>1, <1>10 DEF SyncInv, Control, storeVars, Title, Present
<1>12. BusOfStore' /\ Identified'
  BY <1>1, <1>2, <1>4, <1>10, SameInstances DEF storeVars
<1> QED BY <1>5, <1>9, <1>11, <1>12 DEF SyncInv

\* Clearing the flag leaves a service.
LEMMA CleanType ==
    ASSUME NEW svc \in Service, NEW d \in BOOLEAN
    PROVE  /\ [svc EXCEPT !.counter.dirty = d] \in Service
           /\ [svc EXCEPT !.counter.dirty = d].di = svc.di
<1>1. [svc.counter EXCEPT !.dirty = d] \in Counter
  BY DEF Service, Counter
<1>2. [svc EXCEPT !.counter.dirty = d]
        = [svc EXCEPT !.counter = [svc.counter EXCEPT !.dirty = d]]
  BY DEF Service
<1> QED BY <1>1, <1>2 DEF Service

\* A save writes the counter, not the instance.
LEMMA SaveKeeps ==
    ASSUME SyncInv, Save
    PROVE  SyncInv'
<1> DEFINE c == CounterOf(Title)
           clean == [services[Title] EXCEPT !.counter.dirty = FALSE]
<1>1. /\ pc = "save" /\ NextLoadpoint
      /\ UNCHANGED <<evcc, meter, delivered, glitches, names, loop>>
      /\ UNCHANGED <<offline, identity, shown, polled, credit>>
  BY DEF Save, evccVars, historyVars
<1>2. \/ /\ SaveEnergy(Title, c, TRUE)
         /\ services' = [services EXCEPT ![Title] = clean]
      \/ SaveEnergy(Title, c, FALSE) /\ services' = services
      \/ UNCHANGED storeVars /\ services' = services
  BY DEF Save
<1>3. Title \in Titles /\ services[Title] # None
  BY <1>1, TitleType DEF SyncInv, Control, Present
<1>4. services[Title] \in Service /\ c \in Counter
  BY <1>3 DEF SyncInv, SyncTypeOK, CounterOf, Service
<1>5. clean \in Service /\ clean.di = services[Title].di
  BY <1>4, CleanType
<1> HIDE DEF c, clean
<1>6. /\ services' \in [Titles -> Service \cup {None}]
      /\ \A t \in Titles : /\ services'[t] # None <=> services[t] # None
                           /\ services'[t] # None
                              => services'[t].di = services[t].di
  BY <1>2, <1>3, <1>5 DEF SyncInv, SyncTypeOK
<1>7. /\ StoreInv' /\ (ReadsWork => IdentityOnDisk')
      /\ \A t \in Titles : map[t] # None => map'[t] = map[t]
      /\ UNCHANGED <<opened, range>>
  <2>1. ASSUME NEW ok \in BOOLEAN, SaveEnergy(Title, c, ok) PROVE <1>7!:
    <3>1. /\ Saveable(Title, c) /\ opened
          /\ Flush(map, [recs EXCEPT ![Title] = WithCounter(@, c)], ok)
      BY <2>1 DEF SaveEnergy, Saveable
    <3>2. Staged(map, [recs EXCEPT ![Title] = WithCounter(@, c)])
      BY <3>1, <1>3, <1>4, SaveEnergyStages DEF SyncInv
    <3> QED BY <1>1, <3>1, <3>2, FlushKeepsIdentity
  <2>2. CASE UNCHANGED storeVars
    <3>1. StoreInv'
      BY <2>2, StoreKept DEF SyncInv
    <3> QED BY <3>1, <2>2, <1>1 DEF SyncInv, Identified, IdentityOnDisk, storeVars
  <2>3. \A ok \in BOOLEAN : SaveEnergy(Title, c, ok) => <1>7!:
    BY <2>1
  <2> QED BY <1>2, <2>2, <2>3
<1>8. /\ UNCHANGED <<poll, report>> /\ pc' \in {"ensure", "sweep"}
      /\ pos' \in 0 .. Len(poll') + 1
      /\ pc' = "ensure" => pos' \in DOMAIN poll'
  BY <1>1, NextPlace
<1>9. SyncTypeOK'
  BY <1>1, <1>6, <1>7, <1>8 DEF SyncInv, SyncTypeOK, StoreInv
<1>10. Control'
  BY <1>1, <1>7, <1>8 DEF SyncInv, Control
<1>11. BusOfStore' /\ Identified'
  BY <1>1, <1>6, <1>7, SameInstances
<1> QED BY <1>7, <1>9, <1>10, <1>11 DEF SyncInv

\* The sweep changes the connection only.
LEMMA SweepKeeps ==
    ASSUME SyncInv, Sweep
    PROVE  SyncInv'
<1>1. /\ pc = "sweep" /\ pc' = "idle" /\ loop' = "armed"
      /\ services' = [t \in Titles |-> IF t \in Gone
                                       THEN MarkedDisconnected(services[t])
                                       ELSE services[t]]
      /\ offline' = offline \cup Gone
      /\ report' = NoReports
      /\ UNCHANGED storeVars
      /\ UNCHANGED <<evcc, meter, delivered, glitches, names, poll, pos>>
      /\ UNCHANGED <<identity, shown, polled, credit>>
  BY DEF Sweep, TickReturns, evccVars, historyVars
<1>2. StoreInv'
  BY <1>1, StoreKept DEF SyncInv
<1>3. ASSUME NEW t \in Titles
      PROVE  /\ services'[t] \in Service \cup {None}
             /\ services'[t] # None => services[t] # None
             /\ services'[t] # None => services'[t].di = services[t].di
  <2>1. services[t] \in Service \cup {None}
    BY DEF SyncInv, SyncTypeOK
  <2>2. CASE t \in Gone
    <3>1. services[t] \in Service
      BY <2>1, <2>2 DEF Gone, Present
    <3>2. FALSE \in BOOLEAN
      OBVIOUS
    <3>3. services'[t] = [services[t] EXCEPT !.connected = FALSE]
      BY <1>1, <2>2 DEF MarkedDisconnected
    <3>4. services'[t] \in Service /\ services'[t].di = services[t].di
      BY <3>1, <3>2, <3>3 DEF Service
    <3> QED BY <3>1, <3>4
  <2>3. CASE t \notin Gone
    BY <1>1, <2>1, <2>3
  <2> QED BY <2>2, <2>3
<1>4. services' \in [Titles -> Service \cup {None}]
  BY <1>1, <1>3
<1>5. offline' \subseteq Titles
  BY <1>1 DEF SyncInv, SyncTypeOK, Gone
<1>6. SyncTypeOK'
  <2>1. StoreTypeOK' /\ report' \in [Titles -> Report]
    BY <1>1, <1>2, ReportTypes DEF StoreInv
  <2> QED BY <1>1, <1>4, <1>5, <2>1 DEF SyncInv, SyncTypeOK
<1>7. Control'
  BY <1>1 DEF SyncInv, Control, storeVars
<1>8. BusOfStore' /\ Identified'
  BY <1>1, <1>3, SameInstances DEF storeVars
<1> QED BY <1>2, <1>6, <1>7, <1>8 DEF SyncInv

-------------------------------------------------------------------------------
(***************************************************************************)
(* The inductive invariant of the bridge: types, the store's invariant,    *)
(* what each step of tick() relies on, and the agreement of the bus, the   *)
(* map in memory, the file and the history of the instances shown.         *)
(***************************************************************************)
THEOREM SyncInvariant == SyncSpec => []SyncInv
<1>1. ASSUME SyncInit PROVE SyncInv
  <2>1. StoreInv
    <3>1. NoMap \in Maps /\ NoFile \in Files
      BY DEF NoMap, NoFile, Maps, Files
    <3> QED BY <1>1, <3>1, InstancesOfEmpty, InitialFilesAssumption
            DEF SyncInit, StoreInit, StoreInv, StoreTypeOK, MapOfRecords,
                MemoryMirrorsDisk, MemoryValid, DiskDistinct
  <2>2. /\ shown \in [Titles -> Int \cup {None}]
        /\ credit \in [Titles -> Int \cup {None}]
    <3>1. disk \in [Titles -> Record \cup {None}]
      BY <2>1 DEF StoreInv, StoreTypeOK, Files
    <3>2. \A t \in Titles : disk[t] # None => disk[t].adopt \in Int \cup {None}
      BY <3>1 DEF Record
    <3> QED BY <1>1, <3>2 DEF SyncInit
  <2>3. identity \in Maps /\ services \in [Titles -> Service \cup {None}]
    BY <1>1 DEF SyncInit, NoMap, NoServices, Maps
  <2>4. /\ delivered \in [Titles -> 0 .. MaxDelivered]
        /\ polled \in [Titles -> 0 .. MaxDelivered]
        /\ meter \in [Titles -> Nat]
        /\ glitches \in [Titles -> 0 .. Confirmations]
    BY <1>1 DEF SyncInit
  <2>5. Len(<<>>) = 0
    OBVIOUS
  <2>6. SyncTypeOK
    BY <1>1, <2>1, <2>2, <2>3, <2>4, <2>5, ReportTypes
       DEF SyncInit, SyncTypeOK, StoreInv
  <2>7. Control
    BY <1>1 DEF SyncInit, StoreInit, Control
  <2>8. BusOfStore /\ Identified
    BY <1>1 DEF SyncInit, BusOfStore, Identified, IdentityOnDisk, Present, NoServices, NoMap
  <2> QED BY <2>1, <2>6, <2>7, <2>8 DEF SyncInv
<1>2. ASSUME SyncInv, [SyncNext]_syncVars PROVE SyncInv'
  <2>1. CASE Environment
    BY <1>2, <2>1, EnvironmentKeeps
  <2>2. CASE Start
    BY <1>2, <2>2, StartKeeps
  <2>3. CASE Crash
    BY <1>2, <2>3, DieKeeps DEF Crash
  <2>4. CASE Poll
    BY <1>2, <2>4, PollOkKeeps, PollUnreachableKeeps, TickRaisesKeeps
       DEF Poll, PollMalformed
  <2>5. CASE Walk
    BY <1>2, <2>5, SkipKeeps, EnsureKnownKeeps, EnsureAllocatesKeeps,
       AllocateFailsKeeps, RegisterKeeps, UpdateKeeps, SaveKeeps DEF Walk
  <2>6. CASE Sweep
    BY <1>2, <2>6, SweepKeeps
  <2>7. CASE UNCHANGED syncVars
    <3>1. UNCHANGED storeVars
      BY <2>7 DEF syncVars
    <3>2. StoreInv'
      BY <1>2, <3>1, StoreKept DEF SyncInv
    <3>3. /\ UNCHANGED <<evcc, meter, delivered, glitches, names, loop>>
          /\ UNCHANGED <<pc, poll, report, pos, services, offline>>
          /\ UNCHANGED <<identity, shown, polled, credit>>
      BY <2>7 DEF syncVars, evccVars, tickVars, serviceVars, historyVars
    <3>4. SyncTypeOK'
      BY <1>2, <3>2, <3>3 DEF SyncInv, SyncTypeOK, StoreInv
    <3>5. Control' /\ BusOfStore' /\ Identified'
      BY <1>2, <3>1, <3>3, IdentifiedKept DEF SyncInv, Control, BusOfStore, storeVars,
         Present, Title
    <3> QED BY <3>2, <3>4, <3>5 DEF SyncInv
  <2> QED BY <1>2, <2>1, <2>2, <2>3, <2>4, <2>5, <2>6, <2>7 DEF SyncNext
<1> QED BY <1>1, <1>2, PTL DEF SyncSpec

(***************************************************************************)
(* Type correctness of the bridge.                                         *)
(***************************************************************************)
THEOREM SyncTyped == SyncSpec => []SyncTypeOK
<1>1. SyncInv => SyncTypeOK
  BY DEF SyncInv
<1> QED BY <1>1, SyncInvariant, PTL

(***************************************************************************)
(* An instance is on disk before it is on the bus, and stays there.        *)
(***************************************************************************)
THEOREM IdentityIsPersisted ==
    ASSUME ReadsWork
    PROVE  SyncSpec => []IdentityOnDisk
<1>1. SyncInv => IdentityOnDisk
  BY DEF SyncInv, Identified
<1> QED BY <1>1, SyncInvariant, PTL

(***************************************************************************)
(* A loadpoint title is one charger to VRM for ever: over all restarts it  *)
(* is shown under one instance, and that instance under no other title.    *)
(***************************************************************************)
THEOREM IdentityIsKept ==
    ASSUME ReadsWork
    PROVE  SyncSpec => []IdentityKept
<1>1. ASSUME SyncInv PROVE IdentityKept
  <2>1. ASSUME NEW t \in Titles PROVE Present(t) => services[t].di = identity[t]
    BY <1>1 DEF SyncInv, BusOfStore, Identified
  <2>2. ASSUME NEW t \in Titles, NEW u \in Titles, t # u, identity[t] # None
        PROVE  identity[t] # identity[u]
    <3>1. disk[t] # None /\ disk[t].di = identity[t]
      BY <1>1, <2>2 DEF SyncInv, Identified, IdentityOnDisk
    <3>2. CASE identity[u] = None
      BY <2>2, <3>2
    <3>3. CASE identity[u] # None
      <4>1. disk[u] # None /\ disk[u].di = identity[u]
        BY <1>1, <3>3 DEF SyncInv, Identified, IdentityOnDisk
      <4>2. Instances(disk)[t] = identity[t] /\ Instances(disk)[u] = identity[u]
        BY <3>1, <4>1 DEF Instances
      <4> QED BY <1>1, <2>2, <4>2 DEF SyncInv, StoreInv, DiskDistinct, Distinct
    <3> QED BY <3>2, <3>3
  <2> QED BY <2>1, <2>2 DEF IdentityKept
<1> QED BY <1>1, SyncInvariant, PTL

(***************************************************************************)
(* What a step of the bridge does to the file is one assignment of the     *)
(* registry, or none: only an allocation and a save reach it.              *)
(***************************************************************************)
LEMMA BridgeKeepsRegistry ==
    ASSUME SyncInv, ReadsWork, [SyncNext]_syncVars
    PROVE  KeepsRegistry
<1>1. ASSUME UNCHANGED disk PROVE KeepsRegistry
  BY <1>1 DEF KeepsRegistry
<1>2. CASE Environment
  BY <1>1, <1>2 DEF Environment, Charge, MeterReset, LegacyPublishes,
          Reconfigure, NameTaken, NameReleased, storeVars
<1>3. CASE Start
  BY <1>1, <1>3 DEF Start, Open, OpenUnreadable, Hold
<1>4. ASSUME TickRaises \/ Die PROVE KeepsRegistry
  BY <1>1, <1>4 DEF TickRaises, Die, Close, storeVars
<1>5. CASE Crash
  BY <1>4, <1>5 DEF Crash
<1>6. CASE Poll
  BY <1>1, <1>4, <1>6 DEF Poll, PollOk, PollUnreachable, PollMalformed, storeVars
<1>7. CASE EnsureAllocates
  <2>1. pc = "ensure" /\ opened /\ map[Title] = None
    BY <1>7 DEF EnsureAllocates, Allocate
  <2>2. PICK di \in DIs :
          /\ IsLowestFree(di)
          /\ Flush([map EXCEPT ![Title] = di],
                   [recs EXCEPT ![Title] = FreshRecord(di)], TRUE)
    BY <1>7 DEF EnsureAllocates, Allocate
  <2>3. Staged([map EXCEPT ![Title] = di],
               [recs EXCEPT ![Title] = FreshRecord(di)])
    BY <2>1, <2>2, TitleType, AllocateStages DEF SyncInv
  <2> QED BY <2>1, <2>2, <2>3, FlushKeeps DEF SyncInv, ReadsWork
<1>8. CASE Save
  <2>1. ASSUME NEW ok \in BOOLEAN, SaveEnergy(Title, CounterOf(Title), ok)
        PROVE  KeepsRegistry
    <3> DEFINE c == CounterOf(Title)
    <3>1. pc = "save" /\ opened
          /\ Flush(map, [recs EXCEPT ![Title] = WithCounter(@, c)], ok)
      BY <1>8, <2>1 DEF Save, SaveEnergy, Saveable
    <3>2. Title \in Titles /\ c \in Counter /\ Saveable(Title, c)
      <4>1. Title \in Titles /\ services[Title] # None
        BY <3>1, TitleType DEF SyncInv, Control, Present
      <4> QED BY <2>1, <4>1 DEF SyncInv, SyncTypeOK, CounterOf, Service, SaveEnergy
    <3> HIDE DEF c
    <3>3. Staged(map, [recs EXCEPT ![Title] = WithCounter(@, c)])
      BY <3>1, <3>2, SaveEnergyStages DEF SyncInv
    <3> QED BY <3>1, <3>3, FlushKeeps DEF SyncInv, ReadsWork
  <2> QED BY <1>1, <1>8, <2>1 DEF Save, storeVars
<1>9. CASE Walk /\ ~EnsureAllocates /\ ~Save
  BY <1>1, <1>4, <1>9 DEF Walk, SkipDuplicate, EnsureKnown, AllocateFails,
     EnsureExhausted, Register, RegisterFails, Update, storeVars
<1>10. CASE Sweep \/ UNCHANGED syncVars
  BY <1>1, <1>10 DEF Sweep, syncVars, storeVars
<1> QED BY <1>2, <1>3, <1>5, <1>6, <1>7, <1>8, <1>9, <1>10 DEF SyncNext

(***************************************************************************)
(* The bridge implements the abstract registry: between crashes, failed    *)
(* writes and lists of any kind, what is on disk is only ever added to,    *)
(* and no instance in it belongs to two titles.                            *)
(***************************************************************************)
THEOREM BridgeImplementsRegistry ==
    ASSUME ReadsWork
    PROVE  SyncSpec => RegistrySpec
<1>1. SyncInv => Registry!Init
  <2> SUFFICES ASSUME SyncInv PROVE Registry!Init
    OBVIOUS
  <2>1. disk \in Files /\ Distinct(Instances(disk))
    BY DEF SyncInv, StoreInv, StoreTypeOK, DiskDistinct
  <2>2. Instances(disk) \in [Titles -> DIs \cup {None}]
    BY <2>1, InstancesType DEF Maps
  <2> QED BY <2>1, <2>2
          DEF Registry!Init, Registry!Assignments, Registry!Exclusive, Distinct
<1>2. SyncInv /\ [SyncNext]_syncVars => [Registry!Assign]_(Instances(disk))
  BY BridgeKeepsRegistry DEF KeepsRegistry
<1> QED BY <1>1, <1>2, SyncInvariant, PTL DEF SyncSpec, RegistrySpec, Registry!Spec

(***************************************************************************)
(* The services a process shows at one time have instances of their own,   *)
(* whatever it could read at its start, and however many processes before  *)
(* it started from an unreadable file and wrote it anew.                   *)
(***************************************************************************)
THEOREM BusIsDistinct == SyncSpec => []BusDistinct
<1>1. ASSUME SyncInv PROVE BusDistinct
  <2>1. ASSUME NEW t \in Titles, NEW u \in Titles, Present(t), Present(u), t # u
        PROVE  services[t].di # services[u].di
    <3>1. /\ services[t].di = map[t] /\ map[t] # None
          /\ services[u].di = map[u]
      BY <1>1, <2>1 DEF SyncInv, BusOfStore
    <3>2. opened
      BY <1>1, <2>1 DEF SyncInv, Control, Present, NoServices
    <3> QED BY <1>1, <2>1, <3>1, <3>2
            DEF SyncInv, StoreInv, MemoryValid, Valid, Distinct
  <2> QED BY <1>1, <2>1 DEF SyncInv, BusOfStore, BusDistinct
<1> QED BY <1>1, SyncInvariant, PTL

-------------------------------------------------------------------------------
(***************************************************************************)
(* What a tick has done so far.  A title the walk is past was served or    *)
(* could not be; a title that is flagged offline is shown disconnected.    *)
(***************************************************************************)
Walked(i) == i < pos \/ (i = pos /\ pc = "save")

Served(t) ==
    /\ Present(t) => services[t].connected /\ t \notin offline
    /\ \/ Present(t)
       \/ map[t] = None /\ Free = {}
       \/ map[t] # None /\ map[t] \in ForeignDIs

WalkServes ==
    pc # "idle" => \A t \in Unique(poll) : \A i \in DOMAIN poll :
        poll[i] = t /\ Walked(i) => Served(t)

OfflineShown ==
    \A t \in offline : Present(t) /\ ~services[t].connected

TickPlace ==
    /\ pc = "sweep" => \A i \in DOMAIN poll : i < pos
    /\ pc = "register" => ~Present(Title)
    /\ loop \in {"off", "first"} /\ pc = "idle" =>
          services = NoServices /\ poll = <<>>

TickInv ==
    /\ WalkServes
    /\ OfflineShown
    /\ TickPlace
    /\ BusMatchesPoll
    /\ OthersServed

\* A title that is listed once has one place.
LEMMA OnePlace ==
    ASSUME NEW list, NEW t \in Unique(list), NEW i \in DOMAIN list,
           NEW j \in DOMAIN list, list[i] = t, list[j] = t
    PROVE  i = j
BY DEF Unique

\* Nothing is unique in an empty list.
LEMMA UniqueOfEmpty == Unique(<<>>) = {}
BY DEF Unique

\* Steps that change nothing TickInv speaks of.
LEMMA TickUntouched ==
    ASSUME TickInv,
           UNCHANGED <<loop, pc, poll, pos, services, offline, map, range>>
    PROVE  TickInv'
<1>1. Free' = Free
  BY DEF Free, Used
<1>2. \A t : Present(t)' <=> Present(t)
  BY DEF Present
<1>3. \A t : Served(t)' <=> Served(t)
  BY <1>1, <1>2 DEF Served
<1>4. WalkServes'
  BY <1>3 DEF TickInv, WalkServes, Walked
<1>5. OfflineShown' /\ TickPlace'
  BY <1>2 DEF TickInv, OfflineShown, TickPlace, Title, Present
<1>6. BusMatchesPoll'
  BY <1>2 DEF TickInv, BusMatchesPoll, Settled
<1>7. OthersServed'
  BY <1>1, <1>2 DEF TickInv, OthersServed, Settled
<1> QED BY <1>4, <1>5, <1>6, <1>7 DEF TickInv

\* The environment does not reach into a tick.
LEMMA EnvironmentUntouched ==
    ASSUME TickInv, Environment
    PROVE  TickInv'
<1>1. UNCHANGED <<loop, pc, poll, pos, services, offline, map, range>>
  BY DEF Environment, Charge, MeterReset, LegacyPublishes, Reconfigure,
         NameTaken, NameReleased, tickVars, serviceVars, storeVars
<1> QED BY <1>1, TickUntouched

\* No process, or one whose timer is gone: nothing is settled.
LEMMA DieTick ==
    ASSUME Die
    PROVE  TickInv'
<1>1. /\ loop' = "off" /\ pc' = "idle" /\ poll' = <<>> /\ offline' = {}
      /\ services' = NoServices
  BY DEF Die
<1> QED BY <1>1 DEF TickInv, WalkServes, OfflineShown, TickPlace, BusMatchesPoll,
        OthersServed, Settled

\* A tick that was left settles nothing.
LEMMA RaisesTick ==
    ASSUME TickInv, TickRaises
    PROVE  TickInv'
<1>1. CASE Die
  BY <1>1, DieTick
<1>2. CASE ~Die
  <2>1. /\ loop' = "stopped" /\ pc' = "idle"
        /\ UNCHANGED <<services, offline>>
    BY <1>2 DEF TickRaises, serviceVars
  <2>2. OfflineShown'
    BY <2>1 DEF TickInv, OfflineShown, Present
  <2> QED BY <2>1, <2>2 DEF TickInv, WalkServes, TickPlace, BusMatchesPoll,
          OthersServed, Settled
<1> QED BY <1>1, <1>2

\* A process starts with an empty bus.
LEMMA StartTick ==
    ASSUME SyncInv, TickInv, Start
    PROVE  TickInv'
<1>1. /\ loop = "off" /\ loop' = "first"
      /\ UNCHANGED <<pc, poll, services, offline>>
  BY DEF Start, tickVars, serviceVars
<1>2. pc = "idle" /\ services = NoServices /\ poll = <<>>
  BY <1>1 DEF SyncInv, Control, TickInv, TickPlace
<1>3. OfflineShown'
  BY <1>1 DEF TickInv, OfflineShown, Present
<1> QED BY <1>1, <1>2, <1>3 DEF TickInv, WalkServes, TickPlace, BusMatchesPoll,
        OthersServed, Settled

\* A new list: nobody was walked past yet.
LEMMA PollTick ==
    ASSUME SyncInv, TickInv, Poll
    PROVE  TickInv'
<1>1. CASE PollOk
  <2>1. /\ loop \in {"first", "armed"} /\ loop' = loop
        /\ poll' = evcc /\ pos' = 1
        /\ pc' = IF evcc = <<>> THEN "sweep" ELSE "ensure"
        /\ UNCHANGED <<services, offline>>
    BY <1>1 DEF PollOk, Polls, serviceVars
  <2>2. evcc \in Seq(Titles)
    BY PollIsList
  <2>3. WalkServes'
    <3>1. ASSUME NEW i \in DOMAIN poll' PROVE ~Walked(i)'
      BY <2>1, <2>2 DEF Walked
    <3> QED BY <3>1 DEF WalkServes
  <2>4. OfflineShown'
    BY <2>1 DEF TickInv, OfflineShown, Present
  <2>5. TickPlace'
    BY <2>1 DEF TickPlace
  <2>6. BusMatchesPoll' /\ OthersServed'
    BY <2>1 DEF BusMatchesPoll, OthersServed, Settled
  <2> QED BY <2>3, <2>4, <2>5, <2>6 DEF TickInv
<1>2. CASE PollUnreachable
  <2>1. /\ pc = "idle" /\ loop \in {"first", "armed"} /\ loop' = "armed"
        /\ UNCHANGED <<pc, poll, pos, services, offline, map, range>>
    BY <1>2 DEF PollUnreachable, Polls, TickReturns, tickVars, serviceVars, storeVars
  <2>2. CASE loop = "armed"
    BY <2>1, <2>2, TickUntouched
  <2>3. CASE loop = "first"
    <3>1. services = NoServices /\ poll = <<>>
      BY <2>1, <2>3 DEF TickInv, TickPlace
    <3>2. BusMatchesPoll'
      BY <2>1, <3>1 DEF BusMatchesPoll, Present, NoServices
    <3>3. OthersServed'
      BY <2>1, <3>1, UniqueOfEmpty DEF OthersServed
    <3>4. OfflineShown'
      BY <2>1 DEF TickInv, OfflineShown, Present
    <3> QED BY <2>1, <3>2, <3>3, <3>4 DEF TickInv, WalkServes, TickPlace
  <2> QED BY <2>1, <2>2, <2>3
<1>3. CASE PollMalformed
  BY <1>3, RaisesTick DEF PollMalformed
<1> QED BY <1>1, <1>2, <1>3 DEF Poll

\* Going on to the next loadpoint: the one the walk was at is served.
LEMMA NextTick ==
    ASSUME SyncInv, TickInv, pc \in {"ensure", "register", "update", "save"},
           NextLoadpoint, \A t \in Unique(poll) : t = Title => Served(t)',
           \A t \in Titles : Served(t) => Served(t)',
           OfflineShown'
    PROVE  TickInv'
<1>1. Title \in Titles /\ pos \in 1 .. Len(poll) /\ poll \in Seq(Titles)
  BY TitleType
<1>2. /\ pos' = pos + 1 /\ UNCHANGED <<poll, report>>
      /\ pc' = IF pos < Len(poll) THEN "ensure" ELSE "sweep"
  BY DEF NextLoadpoint
<1>3. Len(poll) \in Nat /\ DOMAIN poll = 1 .. Len(poll)
  BY <1>1
<1>4. WalkServes'
  <2> SUFFICES ASSUME NEW t \in Unique(poll), NEW i \in DOMAIN poll,
                      poll[i] = t, Walked(i)'
               PROVE  Served(t)'
    BY <1>2 DEF WalkServes
  <2>1. i < pos \/ i = pos
    BY <1>1, <1>2, <1>3 DEF Walked
  <2>2. CASE i < pos
    <3>1. Served(t)
      BY <2>2 DEF TickInv, WalkServes, Walked
    <3> QED BY <3>1 DEF Unique
  <2>3. CASE i = pos
    BY <2>3 DEF Title
  <2> QED BY <2>1, <2>2, <2>3
<1>5. TickPlace'
  <2>1. pc' = "sweep" => \A i \in DOMAIN poll : i < pos + 1
    BY <1>1, <1>2, <1>3
  <2> QED BY <1>2, <2>1 DEF TickPlace
<1>6. BusMatchesPoll' /\ OthersServed'
  BY <1>2 DEF BusMatchesPoll, OthersServed, Settled
<1> QED BY <1>4, <1>5, <1>6 DEF TickInv

\* Who is skipped is a duplicate or cannot be served.
LEMMA SkipTick ==
    ASSUME SyncInv, TickInv, SkipDuplicate \/ EnsureExhausted \/ RegisterFails
    PROVE  TickInv'
<1>1. /\ pc \in {"ensure", "register"} /\ NextLoadpoint
      /\ UNCHANGED <<services, offline, map, range>>
  BY DEF SkipDuplicate, EnsureExhausted, RegisterFails, storeVars, serviceVars
<1>2. Free' = Free
  BY <1>1 DEF Free, Used
<1>3. \A t : Served(t)' <=> Served(t)
  BY <1>1, <1>2 DEF Served, Present
<1>4. Title \in Unique(poll) => Served(Title)
  <2>1. CASE SkipDuplicate
    BY <2>1 DEF SkipDuplicate
  <2>2. CASE EnsureExhausted
    BY <2>2 DEF EnsureExhausted, Served
  <2>3. CASE RegisterFails
    <3>1. pc = "register" /\ map[Title] \in names
      BY <2>3 DEF RegisterFails
    <3>2. /\ ~Present(Title) /\ map[Title] # None
          /\ names \subseteq ForeignDIs
      BY <3>1 DEF TickInv, TickPlace, SyncInv, Control, SyncTypeOK
    <3> QED BY <3>1, <3>2 DEF Served
  <2> QED BY <2>1, <2>2, <2>3
<1>5. OfflineShown'
  BY <1>1 DEF TickInv, OfflineShown, Present
<1>6. \A t \in Unique(poll) : t = Title => Served(t)'
  BY <1>3, <1>4
<1> QED BY <1>1, <1>3, <1>5, <1>6, NextTick

\* An allocation only takes from what is free.
LEMMA EnsureTick ==
    ASSUME SyncInv, TickInv, EnsureKnown \/ EnsureAllocates
    PROVE  TickInv'
<1>1. /\ pc = "ensure" /\ pc' \in {"update", "register"}
      /\ UNCHANGED <<poll, pos, services, offline, loop>>
      /\ pc' = "register" => ~Present(Title)
  BY DEF EnsureKnown, EnsureAllocates, GoTo, serviceVars
<1>2. ASSUME NEW t \in Titles, Served(t) PROVE Served(t)'
  <2>1. CASE EnsureKnown
    <3>1. UNCHANGED <<map, range>>
      BY <2>1 DEF EnsureKnown, storeVars
    <3>2. Free' = Free
      BY <3>1 DEF Free, Used
    <3> QED BY <1>1, <1>2, <3>1, <3>2 DEF Served, Present
  <2>2. CASE EnsureAllocates
    <3>1. PICK di \in DIs :
             /\ IsLowestFree(di)
             /\ Flush([map EXCEPT ![Title] = di],
                      [recs EXCEPT ![Title] = FreshRecord(di)], TRUE)
      BY <2>2 DEF EnsureAllocates, Allocate
    <3>2. map' = [map EXCEPT ![Title] = di] /\ Free # {}
      BY <3>1 DEF Flush, IsLowestFree
    <3>3. ~Present(Title) /\ map[Title] = None
      BY <2>2 DEF EnsureAllocates, Allocate
    <3>4. t # Title \/ Present(t)
      BY <1>2, <3>2, <3>3 DEF Served
    <3>5. map'[t] = map[t] \/ Present(t)
      BY <3>2, <3>4
    <3> QED BY <1>1, <1>2, <3>2, <3>5 DEF Served, Present
  <2> QED BY <2>1, <2>2
<1>3. WalkServes'
  <2> SUFFICES ASSUME NEW t \in Unique(poll), NEW i \in DOMAIN poll,
                      poll[i] = t, Walked(i)'
               PROVE  Served(t)'
    BY <1>1 DEF WalkServes
  <2>1. Walked(i)
    BY <1>1 DEF Walked
  <2>2. Served(t)
    BY <1>1, <2>1 DEF TickInv, WalkServes
  <2> QED BY <1>2, <2>2 DEF Unique
<1>4. OfflineShown' /\ TickPlace'
  BY <1>1 DEF TickInv, OfflineShown, TickPlace, Present, Title
<1>5. BusMatchesPoll' /\ OthersServed'
  BY <1>1 DEF BusMatchesPoll, OthersServed, Settled
<1> QED BY <1>3, <1>4, <1>5 DEF TickInv

\* Another title than the one the walk is at was left behind by it.
LEMMA OtherPlaces ==
    ASSUME SyncInv, TickInv, pc \in {"register", "update"},
           NEW t \in Unique(poll), NEW i \in DOMAIN poll, poll[i] = t, i < pos
    PROVE  t # Title /\ Served(t) /\ t \in Titles
<1>1. pos \in DOMAIN poll /\ pos \in 1 .. Len(poll) /\ poll \in Seq(Titles)
  BY TitleType
<1>2. i # pos
  BY <1>1
<1>3. t # Title
  BY <1>1, <1>2, OnePlace DEF Title
<1> QED BY <1>3 DEF TickInv, WalkServes, Walked, Unique

\* A new service is connected, and was not flagged.
LEMMA RegisterTick ==
    ASSUME SyncInv, TickInv, Register
    PROVE  TickInv'
<1>1. /\ pc = "register" /\ pc' = "update"
      /\ services' = [services EXCEPT ![Title] = NewService(Title)]
      /\ UNCHANGED <<poll, pos, offline, map, range, loop>>
  BY DEF Register, GoTo, storeVars
<1>2. \A t : t # Title => services'[t] = services[t]
  BY <1>1
<1>3. Title \notin offline
  BY <1>1 DEF TickInv, TickPlace, OfflineShown
<1>4. Free' = Free
  BY <1>1 DEF Free, Used
<1>5. WalkServes'
  <2> SUFFICES ASSUME NEW t \in Unique(poll), NEW i \in DOMAIN poll,
                      poll[i] = t, Walked(i)'
               PROVE  Served(t)'
    BY <1>1 DEF WalkServes
  <2>1. i < pos
    BY <1>1 DEF Walked
  <2>2. t # Title /\ Served(t)
    BY <1>1, <2>1, OtherPlaces
  <2> QED BY <1>1, <1>2, <1>4, <2>2 DEF Served, Present
<1>6. OfflineShown'
  BY <1>1, <1>2, <1>3 DEF TickInv, OfflineShown, Present
<1>7. TickPlace' /\ BusMatchesPoll' /\ OthersServed'
  BY <1>1 DEF TickPlace, BusMatchesPoll, OthersServed, Settled
<1> QED BY <1>5, <1>6, <1>7 DEF TickInv

\* An update connects, and takes the flag back.
LEMMA UpdateTick ==
    ASSUME SyncInv, TickInv, Update
    PROVE  TickInv'
<1> DEFINE svc == Updated(services[Title], report[Title])
<1>1. /\ pc = "update" /\ pc' = "save"
      /\ services' = [services EXCEPT ![Title] = svc]
      /\ offline' = offline \ {Title}
      /\ UNCHANGED <<poll, pos, map, range, loop>>
  BY DEF Update, GoTo, storeVars, BackOnline
<1>2. Title \in Titles /\ services[Title] \in Service /\ report[Title] \in Report
  BY <1>1, TitleType DEF SyncInv, Control, Present, SyncTypeOK
<1>3. svc \in Service /\ svc.connected
  <2>1. svc \in Service
    BY <1>2, UpdatedType
  <2>2. svc.connected = TRUE
    BY <1>2 DEF Updated, Service
  <2> QED BY <2>1, <2>2
<1> HIDE DEF svc
<1>4. /\ \A t : t # Title => services'[t] = services[t]
      /\ services'[Title] = svc /\ svc # None
  BY <1>1, <1>2, <1>3 DEF SyncInv, SyncTypeOK
<1>5. Free' = Free
  BY <1>1 DEF Free, Used
<1>6. WalkServes'
  <2> SUFFICES ASSUME NEW t \in Unique(poll), NEW i \in DOMAIN poll,
                      poll[i] = t, Walked(i)'
               PROVE  Served(t)'
    BY <1>1 DEF WalkServes
  <2>1. i < pos \/ i = pos
    BY <1>1 DEF Walked
  <2>2. CASE i < pos
    <3>1. t # Title /\ Served(t)
      BY <1>1, <2>2, OtherPlaces
    <3> QED BY <1>1, <1>4, <1>5, <3>1 DEF Served, Present
  <2>3. CASE i = pos
    <3>1. t = Title
      BY <2>3 DEF Title
    <3> QED BY <1>1, <1>3, <1>4, <3>1 DEF Served, Present
  <2> QED BY <2>1, <2>2, <2>3
<1>7. OfflineShown'
  BY <1>1, <1>4 DEF TickInv, OfflineShown, Present
<1>8. TickPlace' /\ BusMatchesPoll' /\ OthersServed'
  BY <1>1 DEF TickPlace, BusMatchesPoll, OthersServed, Settled
<1> QED BY <1>6, <1>7, <1>8 DEF TickInv

\* A save, or one that fails, leaves the service as it is.
LEMMA SaveTick ==
    ASSUME SyncInv, TickInv, Save
    PROVE  TickInv'
<1> DEFINE clean == [services[Title] EXCEPT !.counter.dirty = FALSE]
<1>1. /\ pc = "save" /\ NextLoadpoint /\ offline' = offline
      /\ services' \in {services, [services EXCEPT ![Title] = clean]}
      /\ UNCHANGED <<map, range>>
  BY DEF Save, SaveEnergy, Flush, AfterFailedFlush, storeVars
<1>2. Title \in Titles /\ pos \in DOMAIN poll
  BY <1>1, TitleType DEF SyncInv, Control
<1>3. services[Title] \in Service
  BY <1>1, <1>2 DEF SyncInv, SyncTypeOK, Control, Present
<1>4. clean \in Service /\ clean.connected = services[Title].connected
  BY <1>3, CleanType DEF Service
<1> HIDE DEF clean
<1>5. \A t \in Titles : /\ services'[t] # None <=> services[t] # None
                        /\ services[t] # None
                           => services'[t].connected = services[t].connected
  BY <1>1, <1>2, <1>3, <1>4 DEF SyncInv, SyncTypeOK
<1>6. Free' = Free
  BY <1>1 DEF Free, Used
<1>7. \A t \in Titles : Served(t)' <=> Served(t)
  BY <1>1, <1>5, <1>6 DEF Served, Present
<1>8. Title \in Unique(poll) => Served(Title)
  BY <1>1, <1>2 DEF TickInv, WalkServes, Walked, Title
<1>9. OfflineShown'
  <2>1. offline \subseteq Titles
    BY DEF SyncInv, SyncTypeOK
  <2> QED BY <1>1, <1>5, <2>1 DEF TickInv, OfflineShown, Present
<1>10. \A t \in Unique(poll) : t = Title => Served(t)'
  BY <1>2, <1>7, <1>8
<1> QED BY <1>1, <1>7, <1>9, <1>10, NextTick

\* The sweep disconnects and flags whoever is not in the list.
LEMMA SweepTick ==
    ASSUME SyncInv, TickInv, Sweep
    PROVE  TickInv'
<1>1. /\ pc = "sweep" /\ pc' = "idle" /\ loop' = "armed"
      /\ services' = [t \in Titles |-> IF t \in Gone
                                       THEN MarkedDisconnected(services[t])
                                       ELSE services[t]]
      /\ offline' = offline \cup Gone
      /\ UNCHANGED <<poll, pos, map, range>>
  BY DEF Sweep, TickReturns, storeVars
<1>2. ASSUME NEW t \in Titles, t \in Gone
      PROVE  Present(t)' /\ ~services'[t].connected
  <2>1. services[t] \in Service
    BY <1>2 DEF SyncInv, SyncTypeOK, Gone, Present
  <2>2. services'[t] = [services[t] EXCEPT !.connected = FALSE]
    BY <1>1, <1>2 DEF MarkedDisconnected
  <2>3. services'[t] \in Service /\ services'[t].connected = FALSE
    BY <2>1, <2>2 DEF Service
  <2> QED BY <2>3 DEF Present
<1>3. \A t \in Titles : t \notin Gone => services'[t] = services[t]
  BY <1>1
<1>4. Free' = Free
  BY <1>1 DEF Free, Used
<1>5. ASSUME NEW t \in Unique(poll) PROVE t \in Titles /\ Served(t) /\ t \notin Gone
  <2>1. PICK i \in DOMAIN poll : poll[i] = t
    BY DEF Unique
  <2>2. i < pos
    BY <1>1, <2>1 DEF TickInv, TickPlace
  <2>3. Served(t)
    BY <1>1, <2>1, <2>2 DEF TickInv, WalkServes, Walked
  <2> QED BY <2>3 DEF Unique, Gone
<1>6. BusMatchesPoll'
  <2> SUFFICES ASSUME NEW t \in Titles, Present(t)'
               PROVE  services'[t].connected <=> t \in Unique(poll)
    BY <1>1 DEF BusMatchesPoll
  <2>1. CASE t \in Unique(poll)
    <3>1. services'[t] = services[t] /\ Served(t)
      BY <1>3, <1>5, <2>1
    <3> QED BY <2>1, <3>1 DEF Served, Present
  <2>2. CASE t \in Gone
    BY <1>2, <1>5, <2>2
  <2>3. CASE t \notin Unique(poll) /\ t \notin Gone
    <3>1. services'[t] = services[t]
      BY <1>3, <2>3
    <3>2. t \in offline
      BY <2>3, <3>1 DEF Gone, Present
    <3> QED BY <2>3, <3>1, <3>2 DEF TickInv, OfflineShown
  <2> QED BY <2>1, <2>2, <2>3
<1>7. OthersServed'
  <2> SUFFICES ASSUME NEW t \in Unique(poll)
               PROVE  \/ Present(t)'
                      \/ map[t] = None /\ Free = {}
                      \/ map[t] # None /\ map[t] \in ForeignDIs
    BY <1>1, <1>4 DEF OthersServed
  <2> QED BY <1>3, <1>5 DEF Served, Present
<1>8. OfflineShown'
  <2>1. ASSUME NEW t \in offline PROVE Present(t)' /\ ~services'[t].connected
    <3>1. t \notin Gone /\ t \in Titles
      BY DEF Gone, SyncInv, SyncTypeOK
    <3> QED BY <1>3, <3>1 DEF TickInv, OfflineShown, Present
  <2>2. Gone \subseteq Titles
    BY DEF Gone
  <2> QED BY <1>1, <1>2, <2>1, <2>2 DEF OfflineShown
<1> QED BY <1>1, <1>6, <1>7, <1>8 DEF TickInv, WalkServes, TickPlace

\* The parts of a tick, put together.
LEMMA TickInvariant == SyncSpec => []TickInv
<1>1. SyncInit => TickInv
  BY DEF SyncInit, TickInv, WalkServes, OfflineShown, TickPlace, BusMatchesPoll,
     OthersServed, Settled
<1>2. ASSUME SyncInv, TickInv, [SyncNext]_syncVars PROVE TickInv'
  <2>1. CASE Environment
    BY <1>2, <2>1, EnvironmentUntouched
  <2>2. CASE Start
    BY <1>2, <2>2, StartTick
  <2>3. CASE Crash
    BY <2>3, DieTick DEF Crash
  <2>4. CASE Poll
    BY <1>2, <2>4, PollTick
  <2>5. CASE AllocateFails
    BY <1>2, <2>5, RaisesTick DEF AllocateFails
  <2>6. CASE Walk /\ ~AllocateFails
    BY <1>2, <2>6, SkipTick, EnsureTick, RegisterTick, UpdateTick, SaveTick DEF Walk
  <2>7. CASE Sweep
    BY <1>2, <2>7, SweepTick
  <2>8. CASE UNCHANGED syncVars
    <3>1. UNCHANGED <<loop, pc, poll, pos, services, offline, map, range>>
      BY <2>8 DEF syncVars, tickVars, serviceVars, storeVars
    <3> QED BY <1>2, <3>1, TickUntouched
  <2> QED BY <1>2, <2>1, <2>2, <2>3, <2>4, <2>5, <2>6, <2>7, <2>8 DEF SyncNext, Walk
<1> QED BY <1>1, <1>2, SyncInvariant, PTL DEF SyncSpec

(***************************************************************************)
(* After a completed tick the bus shows what the last answer said, for any *)
(* lists, collisions, crashes and failed writes.                           *)
(***************************************************************************)
THEOREM BusFollowsEvcc == SyncSpec => []BusMatchesPoll
<1>1. TickInv => BusMatchesPoll
  BY DEF TickInv
<1> QED BY <1>1, TickInvariant, PTL

(***************************************************************************)
(* A loadpoint that cannot be served costs no other its service.           *)
(***************************************************************************)
THEOREM OthersAreServed == SyncSpec => []OthersServed
<1>1. TickInv => OthersServed
  BY DEF TickInv
<1> QED BY <1>1, TickInvariant, PTL

-------------------------------------------------------------------------------
(***************************************************************************)
(* What a crash may return to.  A counter that is clean agrees with the    *)
(* file in offset and adoption, by the flag's only two assignments.        *)
(***************************************************************************)
Agrees(c, rec) == rec # None /\ rec.offset = c.offset /\ rec.adopt = c.adopt

\* A reading that leaves the counter clean found it so, and changed neither
\* the offset nor the adoption.
LEMMA CleanReading ==
    ASSUME NEW c \in Counter, NEW r \in Int, ~AfterReading(c, r).dirty
    PROVE  /\ ~c.dirty
           /\ AfterReading(c, r).offset = c.offset
           /\ AfterReading(c, r).adopt = c.adopt
<1>1. CASE NoData(r)
  BY <1>1 DEF AfterReading
<1>2. CASE ~NoData(r) /\ Glitch(c, r)
  BY <1>2 DEF AfterReading, Counter
<1>3. CASE ~NoData(r) /\ ~Glitch(c, r)
  <2> DEFINE b == Rebased(c, r)
  <2>1. b \in Counter
    BY RebasedType
  <2>2. AfterReading(c, r) = Accept(b, r)
    BY <1>3 DEF AfterReading
  <2>3. b = [c EXCEPT !.low = 0] \/ b.dirty = TRUE
    BY DEF Rebased, Counter
  <2> HIDE DEF b
  <2>4. /\ Accept(b, r).dirty = (b.dirty \/ Moved(b, r))
        /\ Accept(b, r).offset = b.offset
        /\ Accept(b, r).adopt = b.adopt
    BY <2>1 DEF Accept, Counter
  <2>5. ~b.dirty
    BY <2>2, <2>4
  <2>6. b = [c EXCEPT !.low = 0]
    BY <2>3, <2>5
  <2>7. b.dirty = c.dirty /\ b.offset = c.offset /\ b.adopt = c.adopt
    BY <2>6 DEF Counter
  <2> QED BY <2>2, <2>4, <2>5, <2>7
<1> QED BY <1>1, <1>2, <1>3

\* The invariant again, over the services.
LEMMA CleanMeans ==
    CleanIsSaved <=> \A t \in Titles :
        services[t] # None /\ ~services[t].counter.dirty
            => Agrees(services[t].counter, disk[t])
BY DEF CleanIsSaved, Present, CounterOf, Agrees

\* Steps that change neither a service nor the file.
LEMMA CleanUntouched ==
    ASSUME CleanIsSaved, UNCHANGED <<services, disk>>
    PROVE  CleanIsSaved'
BY DEF CleanIsSaved, Present, CounterOf

\* A process that is gone has no counters.
LEMMA CleanDie ==
    ASSUME Die
    PROVE  CleanIsSaved'
BY DEF Die, CleanIsSaved, Present, NoServices

\* An exception clears no flag.
LEMMA CleanRaises ==
    ASSUME CleanIsSaved, TickRaises
    PROVE  CleanIsSaved'
BY CleanDie, CleanUntouched DEF TickRaises, serviceVars, storeVars

\* An allocation writes the record of a title that is not shown.
LEMMA CleanAllocate ==
    ASSUME SyncInv, ReadsWork, CleanIsSaved, EnsureAllocates
    PROVE  CleanIsSaved'
<1>1. ~Present(Title) /\ services' = services
  BY DEF EnsureAllocates, serviceVars
<1>2. PICK di \in DIs :
         Flush([map EXCEPT ![Title] = di],
               [recs EXCEPT ![Title] = FreshRecord(di)], TRUE)
  BY DEF EnsureAllocates, Allocate
<1>3. disk' = [recs EXCEPT ![Title] = FreshRecord(di)]
  BY <1>2 DEF Flush
<1>4. recs = disk
  BY DEF SyncInv, StoreInv, MemoryMirrorsDisk, EnsureAllocates, Allocate, ReadsWork
<1>5. \A t \in Titles : t # Title => disk'[t] = disk[t]
  BY <1>3, <1>4 DEF SyncInv, StoreInv, StoreTypeOK, Files
<1> QED BY <1>1, <1>5 DEF CleanIsSaved, Present, CounterOf

\* A new service starts from what the file says.
LEMMA CleanRegister ==
    ASSUME SyncInv, ReadsWork, CleanIsSaved, Register
    PROVE  CleanIsSaved'
<1>1. /\ pc = "register" /\ services' = [services EXCEPT ![Title] = NewService(Title)]
      /\ disk' = disk
  BY DEF Register, storeVars
<1>2. Title \in Titles /\ map[Title] # None
  BY <1>1, TitleType DEF SyncInv, Control
<1>3. map = Instances(recs) /\ recs = disk
  BY <1>1 DEF SyncInv, StoreInv, MapOfRecords, MemoryMirrorsDisk, Control, ReadsWork
<1>4. recs[Title] # None
  BY <1>2, <1>3 DEF Instances
<1>5. NewService(Title).counter = FromDict(disk[Title])
  BY <1>3, <1>4 DEF NewService, EnergyCounterOf
<1>6. Agrees(NewService(Title).counter, disk[Title])
  BY <1>3, <1>4, <1>5 DEF Agrees, FromDict
<1> QED BY <1>1, <1>2, <1>6, CleanMeans DEF CleanIsSaved, Present, CounterOf, Agrees

\* A reading that changes the offset or the adoption sets the flag.
LEMMA CleanUpdate ==
    ASSUME SyncInv, CleanIsSaved, Update
    PROVE  CleanIsSaved'
<1> DEFINE old == services[Title].counter
           new == CounterAfter(old, report[Title])
           svc == Updated(services[Title], report[Title])
<1>1. /\ pc = "update" /\ services' = [services EXCEPT ![Title] = svc]
      /\ disk' = disk
  BY DEF Update, storeVars
<1>2. /\ Title \in Titles /\ services[Title] # None
      /\ services[Title] \in Service /\ report[Title] \in Report
  BY <1>1, TitleType DEF SyncInv, Control, Present, SyncTypeOK
<1>3. old \in Counter /\ Candidate(report[Title]) \in Nat \cup {None}
  BY <1>2 DEF Service, Report, Candidate
<1>4. svc.counter = new
  BY <1>2 DEF Updated, Service
<1>5. ~new.dirty => ~old.dirty /\ new.offset = old.offset /\ new.adopt = old.adopt
  <2> HIDE DEF old
  <2>1. CASE Candidate(report[Title]) = None
    BY <2>1 DEF CounterAfter
  <2>2. CASE Candidate(report[Title]) # None
    <3>1. new = AfterReading(old, Candidate(report[Title]))
      BY <2>2 DEF CounterAfter
    <3>2. Candidate(report[Title]) \in Int
      BY <1>3, <2>2
    <3> HIDE DEF new
    <3> QED BY <1>3, <3>1, <3>2, CleanReading
  <2> QED BY <2>1, <2>2
<1> HIDE DEF new, svc
<1>6. ~old.dirty => Agrees(old, disk[Title])
  BY <1>2, CleanMeans
<1>7. ~svc.counter.dirty => Agrees(svc.counter, disk[Title])
  BY <1>4, <1>5, <1>6 DEF Agrees
<1>8. \A t \in Titles : t # Title => services'[t] = services[t]
  BY <1>1
<1>9. services'[Title] = svc
  BY <1>1, <1>2 DEF SyncInv, SyncTypeOK
<1>10. ASSUME NEW t \in Titles, services'[t] # None, ~services'[t].counter.dirty
       PROVE  Agrees(services'[t].counter, disk'[t])
  <2>1. CASE t = Title
    BY <1>1, <1>7, <1>9, <1>10, <2>1
  <2>2. CASE t # Title
    BY <1>1, <1>8, <1>10, <2>2, CleanMeans
  <2> QED BY <2>1, <2>2
<1> QED BY <1>10 DEF CleanIsSaved, Present, CounterOf, Agrees

\* A write that returns has put the counter's dictionary into the file.
LEMMA CleanSave ==
    ASSUME SyncInv, ReadsWork, CleanIsSaved, Save
    PROVE  CleanIsSaved'
<1> DEFINE c == CounterOf(Title)
           clean == [services[Title] EXCEPT !.counter.dirty = FALSE]
<1>1. pc = "save"
  BY DEF Save
<1>2. /\ Title \in Titles /\ services[Title] # None
      /\ services[Title] \in Service
  BY <1>1, TitleType DEF SyncInv, Control, Present, SyncTypeOK
<1>3. CASE services' = services /\ disk' = disk
  BY <1>3, CleanUntouched
<1>4. CASE SaveEnergy(Title, c, TRUE)
           /\ services' = [services EXCEPT ![Title] = clean]
  <2>1. disk' = [recs EXCEPT ![Title] = WithCounter(recs[Title], c)]
        /\ recs[Title] # None /\ opened
    BY <1>4 DEF SaveEnergy, Flush, Saveable
  <2>2. recs = disk /\ disk \in [Titles -> Record \cup {None}]
    BY <2>1 DEF SyncInv, StoreInv, StoreTypeOK, Files, MemoryMirrorsDisk, ReadsWork
  <2>3. clean.counter.offset = c.offset /\ clean.counter.adopt = c.adopt
    BY <1>2 DEF CounterOf, Service, Counter
  <2>4. recs[Title] \in Record
    BY <1>2, <2>1, <2>2
  <2>5. /\ WithCounter(recs[Title], c).offset = c.offset
        /\ WithCounter(recs[Title], c).adopt = c.adopt
        /\ WithCounter(recs[Title], c) \in Record
    <3>1. c \in Counter
      BY <1>2 DEF CounterOf, Service
    <3> HIDE DEF c
    <3> QED BY <2>4, <3>1 DEF WithCounter, AsDict, Record, Counter
  <2> HIDE DEF c, clean
  <2>6. /\ disk'[Title] = WithCounter(recs[Title], c)
        /\ services'[Title] = clean
    BY <1>2, <1>4, <2>1, <2>2 DEF SyncInv, SyncTypeOK
  <2>7. Agrees(clean.counter, disk'[Title])
    BY <2>3, <2>5, <2>6, NoRecordAssumption DEF Agrees
  <2>8. \A t \in Titles : t # Title =>
            services'[t] = services[t] /\ disk'[t] = disk[t]
    BY <1>4, <2>1, <2>2
  <2>9. ASSUME NEW t \in Titles, services'[t] # None, ~services'[t].counter.dirty
        PROVE  Agrees(services'[t].counter, disk'[t])
    <3>1. CASE t = Title
      BY <2>6, <2>7, <3>1
    <3>2. CASE t # Title
      BY <2>8, <2>9, <3>2, CleanMeans
    <3> QED BY <3>1, <3>2
  <2> QED BY <2>9 DEF CleanIsSaved, Present, CounterOf, Agrees
<1> QED BY <1>3, <1>4 DEF Save, SaveEnergy, Flush, AfterFailedFlush, storeVars

\* The sweep does not touch the counters.
LEMMA CleanSweep ==
    ASSUME SyncInv, CleanIsSaved, Sweep
    PROVE  CleanIsSaved'
<1>1. /\ services' = [t \in Titles |-> IF t \in Gone
                                       THEN MarkedDisconnected(services[t])
                                       ELSE services[t]]
      /\ disk' = disk
  BY DEF Sweep, storeVars
<1>2. ASSUME NEW t \in Titles, services'[t] # None
      PROVE  services[t] # None /\ services'[t].counter = services[t].counter
  <2>1. CASE t \in Gone
    <3>1. services[t] # None /\ services[t] \in Service
      BY <2>1 DEF Gone, Present, SyncInv, SyncTypeOK
    <3>2. services'[t] = [services[t] EXCEPT !.connected = FALSE]
      BY <1>1, <2>1 DEF MarkedDisconnected
    <3> QED BY <3>1, <3>2 DEF Service
  <2>2. CASE t \notin Gone
    BY <1>1, <1>2, <2>2
  <2> QED BY <2>1, <2>2
<1> QED BY <1>1, <1>2 DEF CleanIsSaved, Present, CounterOf

(***************************************************************************)
(* The dirty flag is honest: a counter that is not dirty has its offset    *)
(* and its adoption on disk, over every reading, failed write and crash.   *)
(***************************************************************************)
THEOREM CleanCountersAreSaved ==
    ASSUME ReadsWork
    PROVE  SyncSpec => []CleanIsSaved
<1>1. SyncInit => CleanIsSaved
  BY DEF SyncInit, CleanIsSaved, Present, NoServices
<1>2. ASSUME SyncInv, CleanIsSaved, [SyncNext]_syncVars PROVE CleanIsSaved'
  <2>1. CASE Environment
    BY <1>2, <2>1, CleanUntouched
       DEF Environment, Charge, MeterReset, LegacyPublishes, Reconfigure,
           NameTaken, NameReleased, serviceVars, storeVars
  <2>2. CASE Start
    BY <1>2, <2>2, CleanUntouched DEF Start, serviceVars, Open, OpenUnreadable, Hold
  <2>3. CASE Crash
    BY <2>3, CleanDie DEF Crash
  <2>4. CASE PollOk \/ PollUnreachable
    BY <1>2, <2>4, CleanUntouched DEF PollOk, PollUnreachable, serviceVars, storeVars
  <2>5. CASE PollMalformed \/ AllocateFails
    BY <1>2, <2>5, CleanRaises DEF PollMalformed, AllocateFails
  <2>6. CASE SkipDuplicate \/ EnsureKnown \/ EnsureExhausted \/ RegisterFails
    BY <1>2, <2>6, CleanUntouched
       DEF SkipDuplicate, EnsureKnown, EnsureExhausted, RegisterFails,
           serviceVars, storeVars
  <2>7. CASE EnsureAllocates
    BY <1>2, <2>7, CleanAllocate
  <2>8. CASE Register
    BY <1>2, <2>8, CleanRegister
  <2>9. CASE Update
    BY <1>2, <2>9, CleanUpdate
  <2>10. CASE Save
    BY <1>2, <2>10, CleanSave
  <2>11. CASE Sweep
    BY <1>2, <2>11, CleanSweep
  <2>12. CASE UNCHANGED syncVars
    BY <1>2, <2>12, CleanUntouched DEF syncVars, serviceVars, storeVars
  <2> QED BY <1>2, <2>1, <2>2, <2>3, <2>4, <2>5, <2>6, <2>7, <2>8, <2>9, <2>10,
          <2>11, <2>12 DEF SyncNext, Poll, Walk
<1> QED BY <1>1, <1>2, SyncInvariant, PTL DEF SyncSpec
=============================================================================
