------------------------- MODULE LoadpointEnergyProofs -------------------------
(***************************************************************************)
(* The energy series of a loadpoint.  For meters that are sound: whatever  *)
(* crashes, is not answered, cannot be saved, or is adopted from a legacy  *)
(* bridge, VRM books no energy that was not delivered and reads no fall    *)
(* but the one that is excepted.  What --plan says of it comes true.  And  *)
(* for meters that are not sound: glitches, gaps and restarts of a meter   *)
(* change nothing of this as long as the bridge runs on.                   *)
(***************************************************************************)
EXTENDS DryRun, LoadpointSyncProofs, FiniteSetTheorems

USE NoneAssumption, ThresholdAssumption, SyncAssumption, NoServiceAssumption

\* No reading is faulty; a missing one may be.
SoundMeters ==
    /\ FirstMeter > ZeroKwh
    /\ Faults \cap {"session", "glitch", "reset"} = {}

\* No counter has a history of this bridge yet.
FreshFiles ==
    \A f \in InitialFiles : \A t \in Titles : f[t] # None =>
        /\ f[t].offset = 0 /\ f[t].source = None
        /\ f[t].adopt \in Nat \cup {None}

(***************************************************************************)
(* A counter x against its series, in memory or in the file: k is the      *)
(* credit, p what was delivered at the last poll, s what VRM reads.  The   *)
(* next reading it accepts continues the series at or above s, and books   *)
(* at most what was delivered.                                             *)
(***************************************************************************)
Sound(x, k, p, s) ==
    /\ x.source # None => x.source <= FirstMeter + p
    /\ x.source = None => x.offset = 0
    /\ x.adopt # None => x.adopt >= 0
    /\ k = None => /\ x.source = None
                   /\ x.adopt = None <=> s = None
                   /\ x.adopt # None => x.adopt <= s
    /\ k # None => /\ x.adopt # None => x.adopt <= k + p
                   /\ x.adopt = None => /\ x.offset + FirstMeter <= k
                                        /\ s <= x.offset + FirstMeter + p

\* What VRM may have seen.
Ledger(k, p, s) ==
    /\ s # None => s >= 0
    /\ k # None => s # None /\ s <= k + p

\* What a service has shown since it was registered.
OnBus(c, f, k, p, s) ==
    /\ f >= 0
    /\ c.published = None => f = 0
    /\ c.published # None =>
          /\ k # None /\ c.adopt = None /\ c.source # None
          /\ f <= s
          /\ f <= c.offset + FirstMeter + p
          /\ c.published <= c.offset + FirstMeter + p

\* A process that took over is ahead of the file by no more than that.
Follows(c, x) ==
    x.adopt = None => c.adopt = None /\ c.offset = x.offset

InFile(t) ==
    IF disk[t] = None THEN shown[t] = None
    ELSE Sound(disk[t], credit[t], polled[t], shown[t])

InService(t) ==
    services[t] # None =>
        /\ Sound(services[t].counter, credit[t], polled[t], shown[t])
        /\ OnBus(services[t].counter, services[t].forward,
                 credit[t], polled[t], shown[t])
        /\ Follows(services[t].counter, disk[t])

SeriesOf(t) ==
    /\ meter[t] = FirstMeter + delivered[t]
    /\ polled[t] <= delivered[t]
    /\ credit[t] # None => identity[t] # None
    /\ Ledger(credit[t], polled[t], shown[t])
    /\ InFile(t)
    /\ InService(t)

\* What the walk goes by: sound reports, or none of a meter that was read.
Reported ==
    pc # "idle" => \A t \in Unique(poll) :
        \/ report[t] = OfMeter(FirstMeter + polled[t])
        \/ report[t] = NullReport /\ credit[t] # None /\ "null" \in Faults

AtUnique == pc \in {"register", "update", "save"} => Title \in Unique(poll)

EnergyInv ==
    /\ \A t \in Titles : SeriesOf(t)
    /\ Reported
    /\ AtUnique

-------------------------------------------------------------------------------
(***************************************************************************)
(* One sound reading.                                                      *)
(***************************************************************************)
\* It is accepted: the series is the reading under the new offset.
LEMMA ReadingAccepted ==
    ASSUME NEW c \in Counter, NEW r \in Int, r > ZeroKwh,
           c.adopt = None /\ c.source # None => c.source <= r
    PROVE  LET n == AfterReading(c, r)
               o == IF c.adopt # None THEN c.adopt - r
                    ELSE IF c.source = None THEN 0 ELSE c.offset
           IN  /\ n.adopt = None /\ n.source = r /\ n.offset = o
               /\ n.published = IF c.published # None /\ r + o < c.published
                                THEN c.published ELSE r + o
<1> DEFINE o == IF c.adopt # None THEN c.adopt - r
                ELSE IF c.source = None THEN 0 ELSE c.offset
           b == Rebased(c, r)
<1>1. ~NoData(r) /\ ~Fallen(c, r)
  BY DEF NoData, Fallen, Counter
<1>2. AfterReading(c, r) = Accept(b, r)
  BY <1>1 DEF AfterReading, Glitch
<1>3. b \in Counter /\ b.published = c.published
  BY RebasedType
<1>4. b.offset = o /\ b.adopt = None
  <2>1. CASE c.adopt # None
    BY <2>1 DEF Rebased, Counter
  <2>2. CASE c.adopt = None /\ c.source = None
    BY <2>2 DEF Rebased, Counter
  <2>3. CASE c.adopt = None /\ c.source # None
    BY <1>1, <2>3 DEF Rebased, Counter
  <2> QED BY <2>1, <2>2, <2>3
<1> HIDE DEF o, b
<1>5. /\ Accept(b, r).adopt = b.adopt
      /\ Accept(b, r).source = r
      /\ Accept(b, r).offset = b.offset
      /\ Accept(b, r).published = IF b.published # None /\ r + b.offset < b.published
                                  THEN b.published ELSE r + b.offset
  BY <1>3 DEF Accept, Counter
<1> QED BY <1>2, <1>3, <1>4, <1>5 DEF o

\* The reading after p was delivered makes n of the counter c, and shows g.
Reading(c, f, p, k, s, n, g, j) ==
    /\ n = AfterReading(c, FirstMeter + p)
    /\ g = Larger(Held(n), f)
    /\ j = IF k # None THEN k ELSE (IF s # None THEN s ELSE g) - p

\* What it leaves.
Continued(c, p, s, n, g, j) ==
    /\ n \in Counter /\ g \in Int /\ j \in Int
    /\ n.adopt = None
    /\ n.published = g /\ g = n.offset + FirstMeter + p
    /\ Sound(n, j, p, g) /\ Ledger(j, p, g) /\ OnBus(n, g, j, p, g)
    /\ n.offset = IF c.adopt # None THEN c.adopt - (FirstMeter + p) ELSE c.offset
    /\ c.adopt = None /\ s # None => g >= s

(***************************************************************************)
(* What it makes of a counter that is sound, with the forward value f: the *)
(* value shown is the reading under the new offset, no matter what was     *)
(* shown before, and the counter stays sound with the credit j it began    *)
(* or begins now.                                                          *)
(***************************************************************************)
LEMMA SoundReading ==
    ASSUME NEW c \in Counter, NEW f \in Int, NEW p \in Nat,
           NEW k \in Int \cup {None}, NEW s \in Int \cup {None},
           FirstMeter > ZeroKwh,
           Sound(c, k, p, s), Ledger(k, p, s), OnBus(c, f, k, p, s),
           NEW n, NEW g, NEW j, Reading(c, f, p, k, s, n, g, j)
    PROVE  Continued(c, p, s, n, g, j)
<1> DEFINE r == FirstMeter + p
<1>0. /\ r \in Int /\ r > ZeroKwh /\ FirstMeter \in Nat /\ ZeroKwh \in Nat
      /\ c.offset \in Int /\ c.adopt \in Int \cup {None}
      /\ c.source \in Int \cup {None} /\ c.published \in Int \cup {None}
  BY DEF Counter
<1>1. c.source # None => c.source <= r
  BY DEF Sound
<1>2. /\ n = AfterReading(c, r)
      /\ g = Larger(Held(n), f)
      /\ j = IF k # None THEN k ELSE (IF s # None THEN s ELSE g) - p
  BY DEF Reading
<1>3. n \in Counter
  <2> HIDE DEF r
  <2> QED BY <1>0, <1>2, AfterReadingType
<1> DEFINE o == IF c.adopt # None THEN c.adopt - r ELSE c.offset
<1>4. c.source = None => c.offset = 0
  BY DEF Sound
<1>5. /\ n.adopt = None /\ n.source = r /\ n.offset = o
      /\ n.published = IF c.published # None /\ r + o < c.published
                       THEN c.published ELSE r + o
  <2> HIDE DEF r
  <2> QED BY <1>0, <1>1, <1>2, <1>4, ReadingAccepted
<1>6. o \in Int
  BY <1>0
<1>7. c.published # None => c.adopt = None /\ c.published <= r + o /\ f <= r + o
  BY <1>0 DEF OnBus
<1>8. n.published = r + o
  BY <1>0, <1>5, <1>6, <1>7
<1>9. r + o >= 0
  <2>1. CASE c.adopt # None
    BY <1>0, <2>1 DEF Sound
  <2>2. CASE c.adopt = None /\ k = None
    BY <1>0, <1>4, <2>2 DEF Sound
  <2>3. CASE c.adopt = None /\ k # None
    BY <1>0, <2>3 DEF Sound, Ledger
  <2> QED BY <2>1, <2>2, <2>3
<1>10. f <= r + o
  BY <1>0, <1>6, <1>7, <1>9 DEF OnBus
<1>11. g = r + o
  BY <1>0, <1>2, <1>6, <1>8, <1>10 DEF Larger, Held
<1>12. j \in Int
  BY <1>0, <1>2, <1>6, <1>11
<1>13. o + FirstMeter <= j
  <2>1. CASE k = None /\ c.adopt = None
    BY <1>0, <1>2, <1>4, <1>11, <2>1 DEF Sound
  <2>2. CASE k = None /\ c.adopt # None
    BY <1>0, <1>2, <1>11, <2>2 DEF Sound
  <2>3. CASE k # None
    BY <1>0, <1>2, <2>3 DEF Sound
  <2> QED BY <2>1, <2>2, <2>3
<1>14. c.adopt = None /\ s # None => g >= s
  <2>1. CASE k = None
    BY <2>1 DEF Sound
  <2>2. CASE k # None
    BY <1>0, <1>11, <2>2 DEF Sound
  <2> QED BY <2>1, <2>2
<1> HIDE DEF o
<1>15. Sound(n, j, p, g)
  BY <1>0, <1>5, <1>6, <1>11, <1>12, <1>13 DEF Sound
<1>16. Ledger(j, p, g)
  BY <1>0, <1>2, <1>6, <1>9, <1>11, <1>12, <1>13 DEF Ledger
<1>17. OnBus(n, g, j, p, g)
  BY <1>0, <1>5, <1>6, <1>8, <1>9, <1>11, <1>12 DEF OnBus
<1> QED BY <1>0, <1>3, <1>5, <1>6, <1>8, <1>11, <1>12, <1>14, <1>15, <1>16, <1>17 DEF o, Continued

-------------------------------------------------------------------------------
(***************************************************************************)
(* Steps that change no series.                                            *)
(***************************************************************************)
\* The types of what a series is made of.
LEMMA SeriesTypes ==
    ASSUME SyncInv, NEW t \in Titles
    PROVE  /\ delivered[t] \in Nat /\ polled[t] \in Nat /\ meter[t] \in Nat
           /\ shown[t] \in Int \cup {None} /\ credit[t] \in Int \cup {None}
           /\ disk[t] \in Record \cup {None}
           /\ services[t] \in Service \cup {None}
<1>1. /\ delivered[t] \in 0 .. MaxDelivered /\ polled[t] \in 0 .. MaxDelivered
      /\ meter[t] \in Nat
  BY DEF SyncInv, SyncTypeOK
<1>2. shown[t] \in Int \cup {None} /\ credit[t] \in Int \cup {None}
  BY DEF SyncInv, SyncTypeOK
<1>3. disk[t] \in Record \cup {None} /\ services[t] \in Service \cup {None}
  BY DEF SyncInv, SyncTypeOK, StoreTypeOK, Files
<1> QED BY <1>1, <1>2, <1>3

\* Nothing of it moves.
LEMMA SeriesUntouched ==
    ASSUME EnergyInv,
           UNCHANGED <<meter, delivered, polled, credit, identity, shown, disk,
                       services>>
    PROVE  \A t \in Titles : SeriesOf(t)'
BY DEF EnergyInv, SeriesOf, InFile, InService

\* A walk goes on to its next step, or ends.
LEMMA WalkGoesOn ==
    ASSUME EnergyInv, pc # "idle", UNCHANGED <<poll, report, polled, credit>>,
           pc' \in {"ensure", "sweep", "idle"}
    PROVE  Reported' /\ AtUnique'
BY DEF EnergyInv, Reported, AtUnique

\* A walk goes on at the same place.
LEMMA WalkStays ==
    ASSUME EnergyInv, pc # "idle", UNCHANGED <<poll, report, pos, polled, credit>>,
           Title \in Unique(poll)
    PROVE  Reported' /\ AtUnique'
BY DEF EnergyInv, Reported, AtUnique, Title

\* No tick, no reports.
LEMMA NoWalk ==
    ASSUME pc' = "idle"
    PROVE  Reported' /\ AtUnique'
BY DEF Reported, AtUnique

\* The end of a process takes its services, not the series.
LEMMA DieEnergy ==
    ASSUME EnergyInv, Die
    PROVE  EnergyInv'
<1>1. /\ UNCHANGED <<meter, delivered, polled, credit, identity, shown, disk>>
      /\ services' = NoServices /\ pc' = "idle"
  BY DEF Die, Close, evccVars, historyVars
<1>2. \A t \in Titles : SeriesOf(t)'
  BY <1>1 DEF EnergyInv, SeriesOf, InFile, InService, NoServices
<1> QED BY <1>1, <1>2, NoWalk DEF EnergyInv

\* An exception.
LEMMA RaisesEnergy ==
    ASSUME EnergyInv, TickRaises
    PROVE  EnergyInv'
<1>1. CASE Die
  BY <1>1, DieEnergy
<1>2. CASE ~Die
  <2>1. /\ UNCHANGED <<meter, delivered, polled, credit, identity, shown, disk,
                       services>>
        /\ pc' = "idle"
    BY <1>2 DEF TickRaises, evccVars, historyVars, storeVars, serviceVars
  <2> QED BY <2>1, SeriesUntouched, NoWalk DEF EnergyInv
<1> QED BY <1>1, <1>2

\* A start reads the file and shows nothing yet.
LEMMA StartEnergy ==
    ASSUME SyncInv, EnergyInv, Start
    PROVE  EnergyInv'
<1>1. /\ UNCHANGED <<meter, delivered, polled, credit, identity, shown, disk,
                     services>>
      /\ UNCHANGED pc /\ loop = "off"
  BY DEF Start, Open, OpenUnreadable, Hold, evccVars, historyVars, serviceVars,
         tickVars
<1>2. pc' = "idle"
  BY <1>1 DEF SyncInv, Control
<1> QED BY <1>1, <1>2, SeriesUntouched, NoWalk DEF EnergyInv

\* Steps of the walk that only move on.
LEMMA MovesOn ==
    ASSUME EnergyInv,
           SkipDuplicate \/ EnsureKnown \/ EnsureExhausted \/ RegisterFails
    PROVE  EnergyInv'
<1>1. /\ UNCHANGED <<meter, delivered, polled, credit, identity, shown, disk,
                     services>>
      /\ UNCHANGED <<poll, report>> /\ pc # "idle"
  BY DEF SkipDuplicate, EnsureKnown, EnsureExhausted, RegisterFails,
         NextLoadpoint, GoTo, evccVars, historyVars, storeVars, serviceVars
<1>2. CASE EnsureKnown
  <2>1. UNCHANGED pos /\ Title \in Unique(poll)
    BY <1>2 DEF EnsureKnown, GoTo
  <2> QED BY <1>1, <2>1, SeriesUntouched, WalkStays DEF EnergyInv
<1>3. CASE ~EnsureKnown
  <2>1. pc' \in {"ensure", "sweep"}
    BY <1>3 DEF SkipDuplicate, EnsureExhausted, RegisterFails, NextLoadpoint
  <2> QED BY <1>1, <2>1, SeriesUntouched, WalkGoesOn DEF EnergyInv
<1> QED BY <1>2, <1>3

\* The sweep leaves counters and energy as they are.
LEMMA SweepEnergy ==
    ASSUME SyncInv, EnergyInv, Sweep
    PROVE  EnergyInv'
<1>1. /\ UNCHANGED <<meter, delivered, polled, credit, identity, shown, disk>>
      /\ services' = [t \in Titles |-> IF t \in Gone
                                       THEN MarkedDisconnected(services[t])
                                       ELSE services[t]]
      /\ pc' = "idle"
  BY DEF Sweep, evccVars, historyVars, storeVars
<1>2. ASSUME NEW t \in Titles, services'[t] # None
      PROVE  /\ services[t] # None
             /\ services'[t].counter = services[t].counter
             /\ services'[t].forward = services[t].forward
  <2>1. CASE t \in Gone
    <3>1. services[t] # None /\ services[t] \in Service
      BY <2>1 DEF Gone, Present, SyncInv, SyncTypeOK
    <3>2. services'[t] = [services[t] EXCEPT !.connected = FALSE]
      BY <1>1, <2>1 DEF MarkedDisconnected
    <3> QED BY <3>1, <3>2 DEF Service
  <2>2. CASE t \notin Gone
    BY <1>1, <1>2, <2>2
  <2> QED BY <2>1, <2>2
<1>3. \A t \in Titles : SeriesOf(t)'
  BY <1>1, <1>2 DEF EnergyInv, SeriesOf, InFile, InService
<1> QED BY <1>1, <1>3, NoWalk DEF EnergyInv

-------------------------------------------------------------------------------
(***************************************************************************)
(* EVCC charges on and answers.                                            *)
(***************************************************************************)
\* More delivered keeps a counter sound.
LEMMA LaterSound ==
    ASSUME NEW x, x.offset \in Int, x.source \in Int \cup {None},
           x.adopt \in Int \cup {None},
           NEW k \in Int \cup {None}, NEW s \in Int \cup {None},
           NEW p \in Nat, NEW q \in Nat, p <= q,
           Sound(x, k, p, s)
    PROVE  Sound(x, k, q, s)
BY SMTT(30) DEF Sound

\* And what it has shown.
LEMMA LaterShown ==
    ASSUME NEW c \in Counter, NEW f \in Int,
           NEW k \in Int \cup {None}, NEW s \in Int \cup {None},
           NEW p \in Nat, NEW q \in Nat, p <= q
    PROVE  /\ Ledger(k, p, s) => Ledger(k, q, s)
           /\ OnBus(c, f, k, p, s) => OnBus(c, f, k, q, s)
<1>1. Ledger(k, p, s) => Ledger(k, q, s)
  BY DEF Ledger
<1>2. OnBus(c, f, k, p, s) => OnBus(c, f, k, q, s)
  BY DEF OnBus, Counter
<1> QED BY <1>1, <1>2

\* A legacy bridge that shows more leaves the counter to adopt below it.
LEMMA LegacySound ==
    ASSUME NEW x, x.adopt \in Int \cup {None}, NEW s \in Int, NEW p \in Nat,
           Sound(x, None, p, s)
    PROVE  Sound(x, None, p, s + 1)
BY DEF Sound

\* The environment moves meters, and a legacy bridge what is shown.
LEMMA EnvironmentEnergy ==
    ASSUME SyncInv, EnergyInv, SoundMeters, Environment
    PROVE  EnergyInv'
<1>0. /\ UNCHANGED <<polled, credit, identity, disk, services>>
      /\ UNCHANGED <<pc, poll, report, pos>>
  BY DEF Environment, Charge, MeterReset, LegacyPublishes, Reconfigure,
         NameTaken, NameReleased, tickVars, serviceVars, historyVars, storeVars
<1>1. Reported' /\ AtUnique'
  BY <1>0 DEF EnergyInv, Reported, AtUnique, Title
<1>2. ASSUME NEW u \in Titles, Charge(u) \/ LegacyPublishes(u)
      PROVE  \A t \in Titles : SeriesOf(t)'
  <2>1. /\ delivered' = [delivered EXCEPT ![u] = delivered[u] + 1]
        /\ meter' = [meter EXCEPT ![u] = meter[u] + 1]
    BY <1>2 DEF Charge, LegacyPublishes
  <2>2. ASSUME NEW t \in Titles
        PROVE  meter'[t] = FirstMeter + delivered'[t] /\ polled'[t] <= delivered'[t]
    <3>1. /\ meter \in [Titles -> Nat] /\ delivered \in [Titles -> 0 .. MaxDelivered]
          /\ polled[t] \in Nat /\ delivered[t] \in Nat
          /\ meter[t] = FirstMeter + delivered[t] /\ polled[t] <= delivered[t]
      BY SeriesTypes DEF EnergyInv, SeriesOf, SyncInv, SyncTypeOK
    <3>2. CASE t = u
      BY <1>0, <2>1, <3>1, <3>2
    <3>3. CASE t # u
      BY <1>0, <2>1, <3>1, <3>3
    <3> QED BY <3>2, <3>3
  <2>3. CASE Charge(u)
    <3>1. UNCHANGED shown
      BY <2>3 DEF Charge, historyVars
    <3> QED BY <1>0, <2>2, <3>1 DEF EnergyInv, SeriesOf, InFile, InService
  <2>4. CASE LegacyPublishes(u)
    <3>1. /\ loop = "off" /\ identity[u] = None /\ shown[u] # None
          /\ shown' = [shown EXCEPT ![u] = shown[u] + 1]
      BY <2>4 DEF LegacyPublishes
    <3>2. services[u] = None /\ credit[u] = None
      BY <3>1 DEF SyncInv, Control, NoServices, EnergyInv, SeriesOf
    <3>3. /\ shown[u] \in Int /\ shown'[u] = shown[u] + 1 /\ shown'[u] # None
          /\ \A t \in Titles : t # u => shown'[t] = shown[t]
      <4>1. shown \in [Titles -> Int \cup {None}]
        BY DEF SyncInv, SyncTypeOK
      <4> QED BY <3>1, <4>1
    <3>4. Ledger(None, polled[u], shown[u] + 1)
      BY <3>1, <3>2, <3>3 DEF EnergyInv, SeriesOf, Ledger
    <3>5. disk[u] # None /\ Sound(disk[u], None, polled[u], shown[u] + 1)
      <4>1. disk[u] # None /\ Sound(disk[u], None, polled[u], shown[u])
        BY <3>1, <3>2 DEF EnergyInv, SeriesOf, InFile
      <4>2. disk[u].adopt \in Int \cup {None} /\ polled[u] \in Nat
        BY <4>1, SeriesTypes DEF Record
      <4> QED BY <3>3, <4>1, <4>2, LegacySound
    <3>6. ASSUME NEW t \in Titles PROVE SeriesOf(t)'
      <4>1. CASE t = u
        BY <1>0, <2>2, <3>2, <3>3, <3>4, <3>5, <4>1
           DEF SeriesOf, InFile, InService
      <4>2. CASE t # u
        BY <1>0, <2>2, <3>3, <4>2 DEF EnergyInv, SeriesOf, InFile, InService
      <4> QED BY <4>1, <4>2
    <3> QED BY <3>6
  <2> QED BY <1>2, <2>3, <2>4
<1>3. CASE \E u \in Titles : Charge(u) \/ LegacyPublishes(u)
  BY <1>1, <1>2, <1>3 DEF EnergyInv
<1>4. CASE ~ \E u \in Titles : Charge(u) \/ LegacyPublishes(u)
  <2>1. UNCHANGED <<meter, delivered, shown>>
    BY <1>4 DEF Environment, MeterReset, SoundMeters, Reconfigure, NameTaken,
       NameReleased, evccVars, historyVars
  <2> QED BY <1>0, <1>1, <2>1, SeriesUntouched DEF EnergyInv
<1> QED BY <1>3, <1>4

\* A poll moves what was delivered at the last answer.
LEMMA PollEnergy ==
    ASSUME SyncInv, EnergyInv, SoundMeters, PollOk
    PROVE  EnergyInv'
<1>1. /\ UNCHANGED <<meter, delivered, credit, identity, shown, disk, services>>
      /\ polled' = delivered /\ poll' = evcc
      /\ pc' \in {"sweep", "ensure"}
  BY DEF PollOk, serviceVars, storeVars
<1>2. ASSUME NEW t \in Titles PROVE SeriesOf(t)'
  <2> DEFINE k == credit[t]
             s == shown[t]
             p == polled[t]
             q == delivered[t]
  <2>0. /\ q \in Nat /\ p \in Nat /\ p <= q
        /\ k \in Int \cup {None} /\ s \in Int \cup {None}
        /\ polled'[t] = q
    BY <1>1, SeriesTypes DEF EnergyInv, SeriesOf
  <2>1. Ledger(k, p, s)
    BY DEF EnergyInv, SeriesOf
  <2>2. ASSUME disk[t] # None PROVE Sound(disk[t], k, q, s)
    <3>1. disk[t] \in Record /\ Sound(disk[t], k, p, s)
      BY <2>2, SeriesTypes DEF EnergyInv, SeriesOf, InFile
    <3> HIDE DEF k, s, p, q
    <3> QED BY <2>0, <3>1, LaterSound DEF Record
  <2>3. ASSUME services[t] # None
        PROVE  /\ Sound(services[t].counter, k, q, s)
               /\ OnBus(services[t].counter, services[t].forward, k, q, s)
               /\ Follows(services[t].counter, disk[t])
    <3>1. /\ services[t].counter \in Counter /\ services[t].forward \in Int
          /\ Sound(services[t].counter, k, p, s)
          /\ OnBus(services[t].counter, services[t].forward, k, p, s)
          /\ Follows(services[t].counter, disk[t])
      BY <2>3, SeriesTypes DEF EnergyInv, SeriesOf, InService, Service
    <3> HIDE DEF k, s, p, q
    <3>2. Sound(services[t].counter, k, q, s)
      BY <2>0, <3>1, LaterSound DEF Counter
    <3> QED BY <2>0, <3>1, <3>2, LaterShown
  <2>4. Ledger(k, q, s)
    BY <2>0, <2>1 DEF Ledger
  <2>5. disk[t] = None => s = None
    BY DEF EnergyInv, SeriesOf, InFile
  <2>6. /\ meter[t] = FirstMeter + delivered[t]
        /\ credit[t] # None => identity[t] # None
    BY DEF EnergyInv, SeriesOf
  <2> QED BY <1>1, <2>0, <2>2, <2>3, <2>4, <2>5, <2>6
          DEF SeriesOf, InFile, InService
<1>3. Reported'
  <2>1. PICK f \in Answers : report' = f
    BY DEF PollOk
  <2>2. ASSUME NEW t \in Unique(evcc)
        PROVE  \/ f[t] = OfMeter(FirstMeter + delivered[t])
               \/ f[t] = NullReport /\ credit[t] # None /\ "null" \in Faults
    <3>1. t \in Titles /\ f[t] \in Reports(t)
      BY DEF Answers, Unique
    <3>2. \/ f[t] = SoundReport(t)
          \/ f[t] \in NullReports(t) /\ "null" \in Faults
      BY <3>1 DEF Reports, SoundMeters
    <3>3. SoundReport(t) = OfMeter(FirstMeter + delivered[t])
      BY <3>1 DEF SoundReport, EnergyInv, SeriesOf
    <3>4. f[t] \in NullReports(t) => f[t] = NullReport /\ credit[t] # None
      BY DEF NullReports
    <3> QED BY <3>2, <3>3, <3>4
  <2> QED BY <1>1, <2>1, <2>2 DEF Reported, Unique
<1>4. AtUnique'
  BY <1>1 DEF AtUnique
<1> QED BY <1>2, <1>3, <1>4 DEF EnergyInv

-------------------------------------------------------------------------------
(***************************************************************************)
(* The steps that write a counter or start one.                            *)
(***************************************************************************)
\* An allocation gives a title that was never shown a fresh record.
LEMMA AllocateEnergy ==
    ASSUME SyncInv, ReadsWork, EnergyInv, EnsureAllocates
    PROVE  EnergyInv'
<1>1. /\ UNCHANGED <<meter, delivered, polled, credit, identity, shown, services>>
      /\ UNCHANGED <<poll, report, pos>> /\ pc = "ensure"
      /\ Title \in Unique(poll) /\ map[Title] = None /\ opened
      /\ services[Title] = None
  BY DEF EnsureAllocates, Allocate, GoTo, evccVars, historyVars, serviceVars, Present
<1>2. PICK di \in DIs :
         Flush([map EXCEPT ![Title] = di],
               [recs EXCEPT ![Title] = FreshRecord(di)], TRUE)
  BY DEF EnsureAllocates, Allocate
<1>3. recs = disk /\ map = Instances(recs) /\ disk \in [Titles -> Record \cup {None}]
  BY <1>1 DEF SyncInv, StoreInv, StoreTypeOK, Files, MemoryMirrorsDisk,
     MapOfRecords, ReadsWork
<1>4. disk' = [disk EXCEPT ![Title] = FreshRecord(di)]
  BY <1>2, <1>3 DEF Flush
<1>5. Title \in Titles
  BY <1>1, TitleType
<1>6. /\ disk'[Title] = FreshRecord(di) /\ FreshRecord(di) # None
      /\ \A t \in Titles : t # Title => disk'[t] = disk[t]
  <2>1. FreshRecord(di) \in Record
    BY DEF FreshRecord, Record
  <2> QED BY <2>1, <1>3, <1>4, <1>5, NoRecordAssumption
<1>7. disk[Title] = None
  <2>1. ASSUME disk[Title] \in Record PROVE FALSE
    <3>1. map[Title] = disk[Title].di /\ disk[Title].di \in DIs
      BY <1>3, <1>5, <2>1, NoRecordAssumption DEF Instances, Record
    <3>2. disk[Title].di \in Nat
      BY <3>1, DIsAssumption
    <3>3. None \notin Nat
      BY NoneAssumption
    <3> QED BY <1>1, <3>1, <3>2, <3>3
  <2> QED BY <1>3, <1>5, <2>1
<1>8. shown[Title] = None /\ credit[Title] = None
  BY <1>5, <1>7 DEF EnergyInv, SeriesOf, InFile, Ledger
<1>9. Sound(FreshRecord(di), None, polled[Title], None)
  BY DEF Sound, FreshRecord
<1>10. ASSUME NEW t \in Titles PROVE SeriesOf(t)'
  <2>1. CASE t = Title
    BY <1>1, <1>6, <1>8, <1>9, <2>1 DEF EnergyInv, SeriesOf, InFile, InService
  <2>2. CASE t # Title
    BY <1>1, <1>6, <2>2 DEF EnergyInv, SeriesOf, InFile, InService
  <2> QED BY <2>1, <2>2
<1>11. Reported' /\ AtUnique'
  BY <1>1, WalkStays
<1> QED BY <1>10, <1>11 DEF EnergyInv

\* A new service has the counter of the file, and shows 0.
LEMMA RegisterEnergy ==
    ASSUME SyncInv, ReadsWork, EnergyInv, Register
    PROVE  EnergyInv'
<1>1. /\ UNCHANGED <<meter, delivered, polled, credit, shown, disk>>
      /\ UNCHANGED <<poll, report, pos>> /\ pc = "register"
      /\ services' = [services EXCEPT ![Title] = NewService(Title)]
      /\ identity' = [identity EXCEPT ![Title] =
                         IF identity[Title] = None THEN map[Title]
                         ELSE identity[Title]]
  BY DEF Register, GoTo, evccVars, storeVars
<1>2. Title \in Titles /\ map[Title] # None
  BY <1>1, TitleType DEF SyncInv, Control
<1>3. map = Instances(recs) /\ recs = disk
  BY <1>1 DEF SyncInv, StoreInv, MapOfRecords, MemoryMirrorsDisk, Control, ReadsWork
<1>4. disk[Title] # None
  BY <1>2, <1>3 DEF Instances
<1>5. NewService(Title).counter = FromDict(disk[Title])
      /\ NewService(Title).forward = 0
  BY <1>3, <1>4 DEF NewService, EnergyCounterOf
<1>6. \A t \in Titles : /\ t # Title => services'[t] = services[t]
                        /\ t = Title => services'[t] = NewService(Title)
                        /\ identity[t] # None => identity'[t] # None
  BY <1>1, <1>2 DEF SyncInv, SyncTypeOK, Maps
<1>7. ASSUME NEW t \in Titles, t = Title
      PROVE  /\ Sound(NewService(Title).counter, credit[t], polled[t], shown[t])
             /\ OnBus(NewService(Title).counter, NewService(Title).forward,
                      credit[t], polled[t], shown[t])
             /\ Follows(NewService(Title).counter, disk[t])
  <2>1. Sound(disk[t], credit[t], polled[t], shown[t])
    BY <1>4, <1>7 DEF EnergyInv, SeriesOf, InFile
  <2>2. Sound(FromDict(disk[t]), credit[t], polled[t], shown[t])
    BY <2>1 DEF Sound, FromDict
  <2>3. OnBus(FromDict(disk[t]), 0, credit[t], polled[t], shown[t])
    BY DEF OnBus, FromDict
  <2>4. Follows(FromDict(disk[t]), disk[t])
    BY DEF Follows, FromDict
  <2> QED BY <1>5, <1>7, <2>2, <2>3, <2>4
<1> HIDE DEF NewService
<1>8. ASSUME NEW t \in Titles PROVE SeriesOf(t)'
  <2>1. CASE t = Title
    BY <1>1, <1>6, <1>7, <2>1 DEF EnergyInv, SeriesOf, InFile, InService
  <2>2. CASE t # Title
    BY <1>1, <1>6, <2>2 DEF EnergyInv, SeriesOf, InFile, InService
  <2> QED BY <2>1, <2>2
<1>9. Reported' /\ AtUnique'
  BY <1>1, WalkStays DEF EnergyInv, AtUnique
<1> QED BY <1>8, <1>9 DEF EnergyInv

\* A save puts the counter of the service into the file.
LEMMA SaveEnergyInv ==
    ASSUME SyncInv, ReadsWork, EnergyInv, Save
    PROVE  EnergyInv'
<1> DEFINE c == CounterOf(Title)
           clean == [services[Title] EXCEPT !.counter.dirty = FALSE]
<1>1. /\ UNCHANGED <<meter, delivered, polled, credit, identity, shown>>
      /\ UNCHANGED <<poll, report>> /\ pc = "save" /\ pc' \in {"ensure", "sweep"}
  BY DEF Save, NextLoadpoint, evccVars, historyVars
<1>2. Reported' /\ AtUnique'
  BY <1>1, WalkGoesOn
<1>3. CASE services' = services /\ disk' = disk
  BY <1>1, <1>2, <1>3, SeriesUntouched DEF EnergyInv
<1>4. CASE SaveEnergy(Title, c, TRUE)
           /\ services' = [services EXCEPT ![Title] = clean]
  <2>1. disk' = [recs EXCEPT ![Title] = WithCounter(recs[Title], c)]
        /\ recs[Title] # None /\ opened
    BY <1>4 DEF SaveEnergy, Flush, Saveable
  <2>2. recs = disk /\ disk \in [Titles -> Record \cup {None}]
    BY <2>1 DEF SyncInv, StoreInv, StoreTypeOK, Files, MemoryMirrorsDisk, ReadsWork
  <2>3. Title \in Titles /\ services[Title] # None /\ services[Title] \in Service
    BY <1>1, TitleType, SeriesTypes DEF SyncInv, Control, Present
  <2>4. c \in Counter
    BY <2>3 DEF CounterOf, Service
  <2>5. /\ clean.counter.offset = c.offset /\ clean.counter.adopt = c.adopt
        /\ clean.counter.source = c.source /\ clean.counter.published = c.published
        /\ clean.forward = services[Title].forward
    BY <2>3 DEF CounterOf, Service, Counter
  <2>6. c = services[Title].counter
    BY DEF CounterOf
  <2>7. /\ WithCounter(recs[Title], c).offset = c.offset
        /\ WithCounter(recs[Title], c).adopt = c.adopt
        /\ WithCounter(recs[Title], c).source = c.source
        /\ WithCounter(recs[Title], c) \in Record
    <3>1. recs[Title] \in Record
      BY <2>1, <2>2, <2>3
    <3> HIDE DEF c
    <3> QED BY <3>1, <2>4 DEF WithCounter, AsDict, Record, Counter
  <2> HIDE DEF c, clean
  <2>8. /\ disk'[Title] = WithCounter(recs[Title], c) /\ disk'[Title] # None
        /\ services'[Title] = clean
        /\ \A t \in Titles : t # Title =>
              services'[t] = services[t] /\ disk'[t] = disk[t]
    BY <1>4, <2>1, <2>2, <2>3, <2>7, NoRecordAssumption DEF SyncInv, SyncTypeOK
  <2>9. ASSUME NEW t \in Titles, t = Title PROVE SeriesOf(t)'
    <3>1. /\ Sound(c, credit[t], polled[t], shown[t])
          /\ OnBus(c, services[t].forward, credit[t], polled[t], shown[t])
      BY <2>3, <2>6, <2>9 DEF EnergyInv, SeriesOf, InService
    <3>2. Sound(disk'[t], credit[t], polled[t], shown[t])
      BY <2>7, <2>8, <2>9, <3>1 DEF Sound
    <3>3. Sound(services'[t].counter, credit[t], polled[t], shown[t])
      BY <2>5, <2>8, <2>9, <3>1 DEF Sound
    <3>4. OnBus(services'[t].counter, services'[t].forward,
                credit[t], polled[t], shown[t])
      BY <2>5, <2>8, <2>9, <3>1 DEF OnBus
    <3>5. Follows(services'[t].counter, disk'[t])
      BY <2>5, <2>7, <2>8, <2>9 DEF Follows
    <3> QED BY <1>1, <2>8, <2>9, <3>2, <3>3, <3>4, <3>5
            DEF EnergyInv, SeriesOf, InFile, InService
  <2>10. ASSUME NEW t \in Titles, t # Title PROVE SeriesOf(t)'
    BY <1>1, <2>8, <2>10 DEF EnergyInv, SeriesOf, InFile, InService
  <2> QED BY <1>2, <2>9, <2>10 DEF EnergyInv
<1> QED BY <1>3, <1>4 DEF Save, SaveEnergy, Flush, AfterFailedFlush, storeVars

-------------------------------------------------------------------------------
(***************************************************************************)
(* The update: what is read and what is shown of it.                       *)
(***************************************************************************)
\* No reading: the service is as it was, and so is what it shows.
Silent(t) ==
    /\ credit[t] # None /\ credit'[t] = credit[t]
    /\ services'[t].counter = services[t].counter
    /\ services'[t].forward = services[t].forward
    /\ shown'[t] = services[t].forward

\* A reading of what was delivered.
Reads(t) ==
    /\ services'[t].counter = AfterReading(services[t].counter, FirstMeter + polled[t])
    /\ services'[t].forward = Larger(Held(services'[t].counter), services[t].forward)
    /\ shown'[t] = services'[t].forward
    /\ credit'[t] = IF credit[t] # None THEN credit[t]
                    ELSE (IF shown[t] # None THEN shown[t] ELSE shown'[t]) - polled[t]

\* One of the two, and nothing else moves.
LEMMA UpdateReads ==
    ASSUME SyncInv, EnergyInv, SoundMeters, Update, NEW t \in Titles
    PROVE  /\ t = Title => /\ services[t] \in Service /\ services'[t] # None
                           /\ \/ /\ report[t].import = 0 /\ "null" \in Faults
                                 /\ Silent(t)
                              \/ report[t].import = FirstMeter + polled[t] /\ Reads(t)
           /\ t # Title => UNCHANGED <<services[t], shown[t], credit[t]>>
<1> DEFINE svc == Updated(services[t], report[t])
           j == IF credit[t] # None THEN credit[t]
                ELSE (IF shown[t] # None THEN shown[t] ELSE svc.forward) - polled[t]
<1>1. /\ pc = "update"
      /\ services' = [services EXCEPT ![Title] = Updated(services[Title], report[Title])]
      /\ shown' = [shown EXCEPT ![Title] =
                      Updated(services[Title], report[Title]).forward]
      /\ credit' = [credit EXCEPT ![Title] =
            IF credit[Title] # None THEN credit[Title]
            ELSE (IF shown[Title] # None THEN shown[Title]
                  ELSE Updated(services[Title], report[Title]).forward)
                 - polled[Title]]
  BY DEF Update
<1>2. /\ services \in [Titles -> Service \cup {None}]
      /\ shown \in [Titles -> Int \cup {None}]
      /\ credit \in [Titles -> Int \cup {None}]
  BY DEF SyncInv, SyncTypeOK
<1>3. ASSUME t # Title PROVE UNCHANGED <<services[t], shown[t], credit[t]>>
  BY <1>1, <1>2, <1>3
<1>4. ASSUME t = Title
      PROVE  /\ services[t] \in Service /\ services'[t] # None
             /\ \/ report[t].import = 0 /\ "null" \in Faults /\ Silent(t)
                \/ report[t].import = FirstMeter + polled[t] /\ Reads(t)
  <2>1. services[t] \in Service /\ report[t] \in Report /\ polled[t] \in Nat
        /\ t \in Unique(poll)
    BY <1>1, <1>4, SeriesTypes
       DEF SyncInv, Control, Present, SyncTypeOK, EnergyInv, AtUnique
  <2>2. services'[t] = svc /\ shown'[t] = svc.forward /\ credit'[t] = j
    <3> HIDE DEF svc
    <3>1. /\ services' = [services EXCEPT ![t] = svc]
          /\ shown' = [shown EXCEPT ![t] = svc.forward]
          /\ credit' = [credit EXCEPT ![t] = j]
      BY <1>1, <1>4 DEF svc
    <3> HIDE DEF j
    <3> QED BY <1>2, <3>1
  <2>3. svc \in Service
    BY <2>1, UpdatedType
  <2>4. /\ svc.counter = CounterAfter(services[t].counter, report[t])
        /\ svc.forward = IF Candidate(report[t]) = None THEN services[t].forward
                         ELSE Larger(Held(svc.counter), services[t].forward)
    BY <2>1 DEF Updated, Service
  <2>5. CASE report[t] = OfMeter(FirstMeter + polled[t])
    <3>1. FirstMeter + polled[t] \in Nat /\ FirstMeter + polled[t] > 0
      BY <2>1 DEF SoundMeters
    <3>2. report[t].import = FirstMeter + polled[t]
      BY <2>5, <3>1, ReportTypes
    <3>3. Candidate(report[t]) = FirstMeter + polled[t]
      BY <3>1, <3>2 DEF Candidate
    <3>4. Candidate(report[t]) # None
      <4>1. \A v \in Nat : v # None
        BY NoneAssumption
      <4> QED BY <3>1, <3>3, <4>1
    <3>5. Reads(t)
      <4> HIDE DEF svc
      <4> QED BY <2>2, <2>4, <3>3, <3>4 DEF Reads, CounterAfter
    <3> QED BY <2>1, <2>2, <2>3, <3>2, <3>5
  <2>6. CASE report[t] = NullReport /\ credit[t] # None /\ "null" \in Faults
    <3>1. report[t].import = 0 /\ report[t].connected = FALSE
      BY <2>6 DEF NullReport, OfMeter
    <3>2. Candidate(report[t]) = None
      BY <3>1 DEF Candidate
    <3>3. Silent(t)
      <4> HIDE DEF svc
      <4> QED BY <2>2, <2>4, <2>6, <3>2 DEF Silent, CounterAfter
    <3> QED BY <2>1, <2>2, <2>3, <2>6, <3>1, <3>3
  <2>7. \/ report[t] = OfMeter(FirstMeter + polled[t])
        \/ report[t] = NullReport /\ credit[t] # None /\ "null" \in Faults
    BY <1>1, <2>1 DEF EnergyInv, Reported
  <2> QED BY <2>5, <2>6, <2>7
<1> QED BY <1>3, <1>4

\* What a reading makes of the series, from SoundReading.
LEMMA ReadsSound ==
    ASSUME SyncInv, EnergyInv, SoundMeters, NEW t \in Titles,
           services[t] \in Service, Reads(t)
    PROVE  LET n == services'[t].counter
               c == services[t].counter
           IN  /\ n \in Counter /\ shown'[t] \in Int /\ credit'[t] \in Int
               /\ n.adopt = None
               /\ shown'[t] = n.offset + FirstMeter + polled[t]
               /\ Sound(n, credit'[t], polled[t], shown'[t])
               /\ Ledger(credit'[t], polled[t], shown'[t])
               /\ OnBus(n, services'[t].forward, credit'[t], polled[t], shown'[t])
               /\ n.offset = IF c.adopt # None THEN c.adopt - (FirstMeter + polled[t])
                             ELSE c.offset
               /\ c.adopt = None /\ shown[t] # None => shown'[t] >= shown[t]
<1>1. /\ services[t].counter \in Counter /\ services[t].forward \in Int
      /\ polled[t] \in Nat /\ credit[t] \in Int \cup {None}
      /\ shown[t] \in Int \cup {None} /\ services[t] # None
  BY SeriesTypes DEF Service
<1>2. /\ Sound(services[t].counter, credit[t], polled[t], shown[t])
      /\ OnBus(services[t].counter, services[t].forward, credit[t], polled[t], shown[t])
      /\ Ledger(credit[t], polled[t], shown[t])
  BY <1>1 DEF EnergyInv, SeriesOf, InService
<1> DEFINE c == services[t].counter
           f == services[t].forward
           p == polled[t]
           k == credit[t]
           s == shown[t]
           n == services'[t].counter
           g == shown'[t]
           j == credit'[t]
<1>3. /\ n = AfterReading(c, FirstMeter + p)
      /\ g = Larger(Held(n), f)
      /\ j = IF k # None THEN k ELSE (IF s # None THEN s ELSE g) - p
      /\ services'[t].forward = g
  BY DEF Reads
<1>4. FirstMeter > ZeroKwh
  BY DEF SoundMeters
<1> HIDE DEF c, f, p, k, s, n, g, j
<1>5. c \in Counter /\ f \in Int /\ p \in Nat
      /\ k \in Int \cup {None} /\ s \in Int \cup {None}
  BY <1>1 DEF c, f, p, k, s
<1>6. Sound(c, k, p, s) /\ Ledger(k, p, s) /\ OnBus(c, f, k, p, s)
  BY <1>2 DEF c, f, p, k, s
<1>7. Reading(c, f, p, k, s, n, g, j)
  BY <1>3 DEF Reading
<1>8. Continued(c, p, s, n, g, j)
  BY <1>4, <1>5, <1>6, <1>7, SoundReading
<1> QED BY <1>3, <1>8 DEF Continued, c, f, p, k, s, n, g, j

\* An update keeps the series sound.
LEMMA UpdateEnergy ==
    ASSUME SyncInv, ReadsWork, EnergyInv, SoundMeters, Update
    PROVE  EnergyInv'
<1>1. /\ UNCHANGED <<meter, delivered, polled, identity, disk>>
      /\ UNCHANGED <<poll, report, pos>> /\ pc = "update" /\ pc' = "save"
  BY DEF Update, GoTo, evccVars, storeVars
<1>2. ASSUME NEW t \in Titles, t # Title PROVE SeriesOf(t)' /\ (credit[t] # None => credit'[t] # None)
  <2>1. UNCHANGED <<services[t], shown[t], credit[t]>>
    BY <1>2, UpdateReads
  <2> QED BY <1>1, <2>1 DEF EnergyInv, SeriesOf, InFile, InService
<1>3. ASSUME NEW t \in Titles, t = Title PROVE SeriesOf(t)' /\ credit'[t] # None
  <2>1. /\ services[t] \in Service /\ services[t] # None /\ services'[t] # None
        /\ Silent(t) \/ Reads(t)
    BY <1>3, UpdateReads
  <2>2. /\ map[t] # None /\ identity[t] # None /\ disk[t] # None /\ disk[t] \in Record
    <3>1. map[t] # None /\ identity[t] # None
      BY <1>1, <2>1 DEF SyncInv, Identified, BusOfStore, Present, ReadsWork
    <3>2. map = Instances(disk)
      BY <1>1 DEF SyncInv, StoreInv, MapOfRecords, MemoryMirrorsDisk, Control, ReadsWork
    <3> QED BY <3>1, <3>2, SeriesTypes DEF Instances
  <2> DEFINE c == services[t].counter
             x == disk[t]
             k == credit[t]
             p == polled[t]
             s == shown[t]
  <2>3. /\ Sound(c, k, p, s) /\ Sound(x, k, p, s) /\ Ledger(k, p, s)
        /\ OnBus(c, services[t].forward, k, p, s) /\ Follows(c, x)
    BY <2>1, <2>2 DEF EnergyInv, SeriesOf, InFile, InService
  <2>4. /\ c.offset \in Int /\ c.adopt \in Int \cup {None}
        /\ c.source \in Int \cup {None} /\ c.published \in Int \cup {None}
        /\ x.offset \in Int /\ x.adopt \in Int \cup {None}
        /\ x.source \in Int \cup {None}
        /\ services[t].forward \in Int
        /\ k \in Int \cup {None} /\ p \in Nat /\ s \in Int \cup {None}
    BY <2>1, <2>2, SeriesTypes DEF Service, Counter, Record
  <2>5. CASE Silent(t)
    <3> DEFINE f == services[t].forward
    <3>1. /\ credit'[t] = k /\ k # None /\ shown'[t] = f /\ f \in Int /\ f # None
          /\ services'[t].counter = c /\ services'[t].forward = f
      BY <2>4, <2>5, NoneAssumption DEF Silent
    <3>2. f >= 0 /\ f <= s /\ s # None
      BY <2>3, <2>4, <3>1 DEF OnBus, Ledger
    <3> HIDE DEF c, x, k, p, s, f
    <3>3. Sound(c, k, p, f) /\ Sound(x, k, p, f)
      BY <2>3, <2>4, <3>1, <3>2, SMTT(30) DEF Sound
    <3>4. Ledger(k, p, f)
      BY <2>3, <2>4, <3>1, <3>2 DEF Ledger
    <3>5. OnBus(c, f, k, p, f)
      BY <2>3, <2>4, <3>1, <3>2 DEF OnBus, f
    <3> QED BY <1>1, <2>1, <2>2, <2>3, <3>1, <3>3, <3>4, <3>5
            DEF EnergyInv, SeriesOf, InFile, InService, c, x, k, p, s
  <2>6. CASE Reads(t)
    <3> DEFINE n == services'[t].counter
               g == shown'[t]
               j == credit'[t]
    <3>1. /\ n \in Counter /\ g \in Int /\ j \in Int /\ n.adopt = None
          /\ g = n.offset + FirstMeter + p
          /\ Sound(n, j, p, g) /\ Ledger(j, p, g)
          /\ OnBus(n, services'[t].forward, j, p, g)
          /\ n.offset = IF c.adopt # None THEN c.adopt - (FirstMeter + p) ELSE c.offset
      BY <2>1, <2>6, ReadsSound
    <3>2. j # None /\ g # None
      BY <3>1, NoneAssumption
    <3>3. j = IF k # None THEN k ELSE (IF s # None THEN s ELSE g) - p
      BY <2>6 DEF Reads
    <3>4. n.offset \in Int
      BY <3>1 DEF Counter
    <3> HIDE DEF c, x, k, p, s, n, g, j
    <3>5. x.adopt = None => c.adopt = None /\ n.offset = x.offset
      BY <2>3, <3>1 DEF Follows
    <3>6. Follows(n, x)
      BY <3>1, <3>5 DEF Follows
    <3>7. Sound(x, j, p, g)
      <4>1. x.adopt # None => x.adopt <= j + p
        <5>1. CASE k = None
          BY <2>3, <2>4, <3>1, <3>3, <5>1 DEF Sound
        <5>2. CASE k # None
          BY <2>3, <2>4, <3>1, <3>3, <5>2 DEF Sound
        <5> QED BY <5>1, <5>2
      <4>2. x.adopt = None => x.offset + FirstMeter <= j
        <5>1. n.offset + FirstMeter <= j
          BY <3>1, <3>2 DEF Sound
        <5> QED BY <3>5, <5>1
      <4>3. x.adopt = None => g <= x.offset + FirstMeter + p
        BY <2>4, <3>1, <3>4, <3>5
      <4> QED BY <2>3, <3>2, <4>1, <4>2, <4>3 DEF Sound
    <3> QED BY <1>1, <2>1, <2>2, <3>1, <3>2, <3>6, <3>7
            DEF EnergyInv, SeriesOf, InFile, InService, n, g, j, x, p
  <2> QED BY <2>1, <2>5, <2>6
<1>4. Reported'
  <2>1. Unique(poll) \subseteq Titles
    BY DEF Unique
  <2>2. \A t \in Titles : credit[t] # None => credit'[t] # None
    BY <1>2, <1>3
  <2> QED BY <1>1, <2>1, <2>2 DEF EnergyInv, Reported, Unique
<1>5. AtUnique'
  BY <1>1 DEF EnergyInv, AtUnique, Title
<1> QED BY <1>2, <1>3, <1>4, <1>5 DEF EnergyInv

-------------------------------------------------------------------------------
\* The step from "update" to "save" is an update.
LEMMA OnlyUpdateUpdates ==
    ASSUME SyncInv, [SyncNext]_syncVars, pc = "update", pc' = "save"
    PROVE  Update
<1>1. ~Environment
  BY DEF Environment, Charge, MeterReset, LegacyPublishes, Reconfigure,
     NameTaken, NameReleased, tickVars
<1>2. ~Start /\ ~Crash /\ ~Poll
  BY DEF SyncInv, Control, Start, Crash, Die, Poll, PollOk, PollUnreachable,
     PollMalformed, Polls, TickRaises, tickVars
<1>3. ~UNCHANGED syncVars
  BY DEF syncVars, tickVars
<1>4. Walk => Update
  BY DEF Walk, SkipDuplicate, EnsureKnown, EnsureAllocates, AllocateFails,
     EnsureExhausted, Register, RegisterFails, Save
<1>5. ~Sweep
  BY DEF Sweep
<1> QED BY <1>1, <1>2, <1>3, <1>4, <1>5 DEF SyncNext

(***************************************************************************)
(* Every step of the bridge.                                               *)
(***************************************************************************)
\* At the start nothing was read and the files hold what is to be adopted.
LEMMA EnergyInitial ==
    ASSUME SyncInv, FreshFiles, SyncInit
    PROVE  EnergyInv
<1>1. /\ services = NoServices /\ pc = "idle" /\ disk \in InitialFiles
      /\ meter = [t \in Titles |-> FirstMeter]
      /\ delivered = [t \in Titles |-> 0] /\ polled = delivered
      /\ credit = [t \in Titles |-> None]
      /\ shown = [t \in Titles |-> IF disk[t] = None THEN None ELSE disk[t].adopt]
  BY DEF SyncInit, StoreInit
<1>2. ASSUME NEW t \in Titles PROVE SeriesOf(t)
  <2>1. /\ services[t] = None /\ meter[t] = FirstMeter /\ delivered[t] = 0
        /\ polled[t] = 0 /\ credit[t] = None
        /\ shown[t] = IF disk[t] = None THEN None ELSE disk[t].adopt
    BY <1>1 DEF NoServices
  <2>2. disk[t] # None => /\ disk[t].offset = 0 /\ disk[t].source = None
                          /\ disk[t].adopt \in Nat \cup {None}
    BY <1>1 DEF FreshFiles
  <2> QED BY <2>1, <2>2 DEF SeriesOf, Ledger, InFile, InService, Sound
<1>3. Reported /\ AtUnique
  BY <1>1 DEF Reported, AtUnique
<1> QED BY <1>2, <1>3 DEF EnergyInv

\* A step keeps every series sound.
LEMMA EnergyStep ==
    ASSUME SyncInv, ReadsWork, SoundMeters, EnergyInv, [SyncNext]_syncVars
    PROVE  EnergyInv'
<1>1. CASE Environment
  BY <1>1, EnvironmentEnergy
<1>2. CASE Start
  BY <1>2, StartEnergy
<1>3. CASE Crash
  BY <1>3, DieEnergy DEF Crash
<1>4. CASE PollOk
  BY <1>4, PollEnergy
<1>5. CASE PollUnreachable
  <2>1. /\ UNCHANGED <<meter, delivered, polled, credit, identity, shown, disk,
                       services>>
        /\ pc' = "idle"
    BY <1>5 DEF PollUnreachable, Polls, evccVars, historyVars, storeVars,
       tickVars, serviceVars
  <2> QED BY <2>1, SeriesUntouched, NoWalk DEF EnergyInv
<1>6. CASE PollMalformed \/ AllocateFails
  BY <1>6, RaisesEnergy DEF PollMalformed, AllocateFails
<1>7. CASE SkipDuplicate \/ EnsureKnown \/ EnsureExhausted \/ RegisterFails
  BY <1>7, MovesOn
<1>8. CASE EnsureAllocates
  BY <1>8, AllocateEnergy
<1>9. CASE Register
  BY <1>9, RegisterEnergy
<1>10. CASE Update
  BY <1>10, UpdateEnergy
<1>11. CASE Save
  BY <1>11, SaveEnergyInv
<1>12. CASE Sweep
  BY <1>12, SweepEnergy
<1>13. CASE UNCHANGED syncVars
  <2>1. UNCHANGED <<meter, delivered, polled, credit, identity, shown, disk,
                    services, pc, poll, report, pos>>
    BY <1>13 DEF syncVars, evccVars, historyVars, storeVars, tickVars, serviceVars
  <2>2. Reported' /\ AtUnique'
    BY <2>1 DEF EnergyInv, Reported, AtUnique, Title
  <2> QED BY <2>1, <2>2, SeriesUntouched DEF EnergyInv
<1> QED BY <1>1, <1>2, <1>3, <1>4, <1>5, <1>6, <1>7, <1>8, <1>9, <1>10, <1>11,
        <1>12, <1>13 DEF SyncNext, Poll, Walk

(***************************************************************************)
(* In memory, in the file and on the bus the series of every loadpoint is  *)
(* sound, over crashes, failed saves and a legacy bridge that ran on.      *)
(***************************************************************************)
THEOREM SeriesSound ==
    ASSUME ReadsWork, SoundMeters, FreshFiles
    PROVE  SyncSpec => []EnergyInv
<1>1. SyncInit /\ SyncInv => EnergyInv
  BY EnergyInitial
<1>2. EnergyInv /\ SyncInv /\ [SyncNext]_syncVars => EnergyInv'
  BY EnergyStep
<1> QED BY <1>1, <1>2, SyncInvariant, PTL DEF SyncSpec

(***************************************************************************)
(* VRM never books more for a loadpoint than was delivered to it since its *)
(* series began (energy.py, the guard around the offset).                  *)
(***************************************************************************)
THEOREM NeverBooksTooMuch ==
    ASSUME ReadsWork, SoundMeters, FreshFiles
    PROVE  SyncSpec => []NoSpike
<1>1. SyncInv /\ EnergyInv => NoSpike
  <2>1. ASSUME SyncInv, EnergyInv, NEW t \in Titles, credit[t] # None
        PROVE  shown[t] <= credit[t] + delivered[t]
    <3>1. /\ Ledger(credit[t], polled[t], shown[t]) /\ polled[t] <= delivered[t]
      BY <2>1 DEF EnergyInv, SeriesOf
    <3>2. /\ delivered[t] \in Nat /\ polled[t] \in Nat
          /\ shown[t] \in Int \cup {None} /\ credit[t] \in Int \cup {None}
      BY <2>1, SeriesTypes
    <3> QED BY <2>1, <3>1, <3>2 DEF Ledger
  <2> QED BY <2>1 DEF NoSpike
<1> QED BY <1>1, SeriesSound, SyncInvariant, PTL

(***************************************************************************)
(* The value --plan announces from the file and an answer is the first one *)
(* a new process shows (_print_plan against EnergyCounter.value).          *)
(***************************************************************************)
THEOREM PlanTellsTheFirstValue ==
    ASSUME ReadsWork, SoundMeters, FreshFiles
    PROVE  SyncSpec => PlanPublishes
<1> DEFINE Told(t) ==
             /\ FirstUpdate(t)
             /\ report[t].import > 0
             /\ CounterOf(t).source # None => report[t].import >= CounterOf(t).source
             => shown'[t] = ForecastEnergy(CounterOf(t), report[t].import)
<1>1. ASSUME SyncInv, EnergyInv, [SyncNext]_syncVars, NEW t \in Titles
      PROVE  Told(t)
  <2>1. SUFFICES ASSUME FirstUpdate(t), report[t].import > 0
                 PROVE  shown'[t] = ForecastEnergy(CounterOf(t), report[t].import)
    OBVIOUS
  <2>2. pc = "update" /\ pc' = "save" /\ t = Title /\ CounterOf(t).published = None
    BY <2>1 DEF FirstUpdate
  <2>3. Update
    BY <1>1, <2>2, OnlyUpdateUpdates
  <2>4. /\ services[t] \in Service
        /\ report[t].import = FirstMeter + polled[t] /\ Reads(t)
    <3>1. /\ services[t] \in Service
          /\ \/ report[t].import = 0
             \/ report[t].import = FirstMeter + polled[t] /\ Reads(t)
      BY <1>1, <2>2, <2>3, UpdateReads
    <3> QED BY <2>1, <3>1
  <2> DEFINE c == services[t].counter
             n == services'[t].counter
             p == polled[t]
  <2>5. /\ n \in Counter
        /\ shown'[t] = n.offset + FirstMeter + p
        /\ n.offset = IF c.adopt # None THEN c.adopt - (FirstMeter + p) ELSE c.offset
    BY <1>1, <2>4, ReadsSound
  <2>6. c \in Counter /\ p \in Nat /\ (c.source = None => c.offset = 0)
    <3>1. services[t] # None
      BY <2>4, NoServiceAssumption
    <3>2. Sound(c, credit[t], p, shown[t])
      BY <1>1, <3>1 DEF EnergyInv, SeriesOf, InService
    <3> QED BY <1>1, <2>4, <3>2, SeriesTypes DEF Service, Sound
  <2>7. c = CounterOf(t)
    BY DEF CounterOf
  <2> HIDE DEF c, n, p
  <2>8. c.adopt \in Int \cup {None} /\ c.offset \in Int
    BY <2>6 DEF Counter
  <2>9. report[t].import = FirstMeter + p
    BY <2>4 DEF p
  <2>10. shown'[t] = ForecastEnergy(c, FirstMeter + p)
    <3>1. FirstMeter + p > 0
      BY <2>1, <2>9
    <3>2. CASE c.adopt # None
      BY <2>5, <2>6, <2>8, <3>2 DEF ForecastEnergy
    <3>3. CASE c.adopt = None
      BY <2>5, <2>6, <2>8, <3>1, <3>3 DEF ForecastEnergy
    <3> QED BY <3>2, <3>3
  <2> QED BY <2>7, <2>9, <2>10
<1>2. SyncInv /\ EnergyInv /\ [SyncNext]_syncVars
      => [\A t \in Titles : Told(t)]_syncVars
  BY <1>1
<1> HIDE DEF Told
<1>3. SyncSpec => [][\A t \in Titles : Told(t)]_syncVars
  BY <1>2, SeriesSound, SyncInvariant, PTL DEF SyncSpec
<1> QED BY <1>3 DEF PlanPublishes, Told

-------------------------------------------------------------------------------
(***************************************************************************)
(* Where writes do not fail, no legacy bridge runs on and every report has *)
(* a reading, the file never holds an adoption that was shown and passed:  *)
(* one in the file is the value shown, and one used in memory is saved by  *)
(* the very next step.                                                     *)
(***************************************************************************)
AdoptionExact(t) ==
    disk[t] # None /\ disk[t].adopt # None =>
        /\ shown[t] = disk[t].adopt
        /\ Present(t) => \/ CounterOf(t).adopt = disk[t].adopt
                         \/ pc = "save" /\ t = Title /\ CounterOf(t).adopt = None

Exact == \A t \in Titles : AdoptionExact(t)

Exactly == "write" \notin IoFaults /\ Faults \cap {"legacy", "null"} = {}

\* Steps that touch neither counters nor what is shown.
LEMMA ExactUntouched ==
    ASSUME Exact, UNCHANGED <<disk, shown, services>>,
           pc = "save" => UNCHANGED <<pc, poll, pos>>
    PROVE  Exact'
BY DEF Exact, AdoptionExact, Present, CounterOf, Title

\* The end of a process, between the update and the save too.
LEMMA ExactDie ==
    ASSUME Exact, Die
    PROVE  Exact'
BY DEF Die, Close, historyVars, NoServices, Exact, AdoptionExact, Present

\* The sweep changes no counter.
LEMMA ExactSweep ==
    ASSUME SyncInv, Exact, Sweep
    PROVE  Exact'
<1>1. /\ UNCHANGED <<disk, shown>> /\ pc = "sweep"
      /\ services' = [t \in Titles |-> IF t \in Gone
                                       THEN MarkedDisconnected(services[t])
                                       ELSE services[t]]
  BY DEF Sweep, historyVars, storeVars
<1>2. ASSUME NEW t \in Titles, services'[t] # None
      PROVE  services[t] # None /\ services'[t].counter = services[t].counter
  <2>1. CASE t \in Gone
    <3>1. services[t] # None /\ services[t] \in Service
      BY <2>1 DEF Gone, Present, SyncInv, SyncTypeOK
    <3>2. services'[t] = [services[t] EXCEPT !.connected = FALSE]
      BY <1>1, <2>1 DEF MarkedDisconnected
    <3> QED BY <3>1, <3>2 DEF Service
  <2>2. CASE t \notin Gone
    BY <1>1, <1>2, <2>2
  <2> QED BY <2>1, <2>2
<1> QED BY <1>1, <1>2 DEF Exact, AdoptionExact, Present, CounterOf

\* A fresh record has nothing to adopt.
LEMMA ExactAllocate ==
    ASSUME SyncInv, ReadsWork, Exact, EnsureAllocates
    PROVE  Exact'
<1>1. /\ UNCHANGED <<shown, services>> /\ pc = "ensure" /\ opened
  BY DEF EnsureAllocates, Allocate, historyVars, serviceVars
<1>2. PICK di \in DIs :
         Flush([map EXCEPT ![Title] = di],
               [recs EXCEPT ![Title] = FreshRecord(di)], TRUE)
  BY DEF EnsureAllocates, Allocate
<1>3. disk' = [disk EXCEPT ![Title] = FreshRecord(di)]
  BY <1>1, <1>2 DEF Flush, SyncInv, StoreInv, MemoryMirrorsDisk, ReadsWork
<1>4. ASSUME NEW t \in Titles, disk'[t] # None, disk'[t].adopt # None
      PROVE  disk'[t] = disk[t]
  <2>1. disk \in [Titles -> Record \cup {None}]
    BY DEF SyncInv, SyncTypeOK, StoreTypeOK, Files
  <2>2. CASE t = Title
    BY <1>3, <1>4, <2>1, <2>2 DEF FreshRecord
  <2>3. CASE t # Title
    BY <1>3, <2>1, <2>3
  <2> QED BY <2>2, <2>3
<1> QED BY <1>1, <1>4 DEF Exact, AdoptionExact, Present, CounterOf

\* A new service has the adoption of the file.
LEMMA ExactRegister ==
    ASSUME SyncInv, ReadsWork, Exact, Register
    PROVE  Exact'
<1>1. /\ UNCHANGED <<shown, disk>> /\ pc = "register"
      /\ services' = [services EXCEPT ![Title] = NewService(Title)]
  BY DEF Register, storeVars
<1>2. Title \in Titles /\ recs = disk
  BY <1>1, TitleType DEF SyncInv, StoreInv, MemoryMirrorsDisk, Control, ReadsWork
<1>3. disk[Title] # None => NewService(Title).counter.adopt = disk[Title].adopt
  BY <1>2 DEF NewService, EnergyCounterOf, FromDict
<1> HIDE DEF NewService
<1>4. \A t \in Titles : services'[t] = IF t = Title THEN NewService(Title)
                                       ELSE services[t]
  BY <1>1, <1>2 DEF SyncInv, SyncTypeOK
<1> QED BY <1>1, <1>3, <1>4 DEF Exact, AdoptionExact, Present, CounterOf

\* The reading that uses the adoption shows it.
LEMMA ExactUpdate ==
    ASSUME SyncInv, SoundMeters, EnergyInv, Exactly, Exact, Update
    PROVE  Exact'
<1>1. UNCHANGED <<disk, poll, pos>> /\ pc = "update" /\ pc' = "save"
  BY DEF Update, GoTo, storeVars
<1>2. ASSUME NEW t \in Titles, t # Title PROVE AdoptionExact(t)'
  <2>1. UNCHANGED <<services[t], shown[t]>>
    BY <1>2, UpdateReads
  <2> QED BY <1>1, <1>2, <2>1 DEF Exact, AdoptionExact, Present, CounterOf
<1>3. ASSUME NEW t \in Titles, t = Title, disk[t] # None, disk[t].adopt # None
      PROVE  shown'[t] = disk[t].adopt /\ services'[t].counter.adopt = None
  <2>1. services[t] \in Service /\ Reads(t)
    BY <1>3, UpdateReads DEF Exactly
  <2>2. services[t] # None
    BY <2>1, NoServiceAssumption
  <2>3. services[t].counter.adopt = disk[t].adopt
    BY <1>1, <1>3, <2>2 DEF Exact, AdoptionExact, Present, CounterOf
  <2> DEFINE n == services'[t].counter
             a == services[t].counter.adopt
  <2>4. /\ n \in Counter /\ n.adopt = None
        /\ shown'[t] = n.offset + FirstMeter + polled[t]
        /\ a # None => n.offset = a - (FirstMeter + polled[t])
    BY <2>1, ReadsSound
  <2>5. a \in Int /\ polled[t] \in Nat
    BY <1>3, <2>1, <2>3, SeriesTypes DEF Service, Counter
  <2> HIDE DEF n, a
  <2>6. shown'[t] = a
    BY <1>3, <2>4, <2>5, NoneAssumption
  <2> QED BY <2>3, <2>4, <2>6 DEF n, a
<1>4. ASSUME NEW t \in Titles, t = Title PROVE AdoptionExact(t)'
  BY <1>1, <1>3, <1>4 DEF AdoptionExact, CounterOf, Title
<1> QED BY <1>2, <1>4 DEF Exact

\* The save brings the file to where the memory is.
LEMMA ExactSave ==
    ASSUME SyncInv, ReadsWork, EnergyInv, Exactly, Exact, CleanIsSaved, Save
    PROVE  Exact'
<1> DEFINE c == CounterOf(Title)
           clean == [services[Title] EXCEPT !.counter.dirty = FALSE]
<1>1. UNCHANGED shown /\ pc = "save" /\ pc' # "save" /\ opened /\ Present(Title)
  BY DEF Save, NextLoadpoint, historyVars, SyncInv, Control
<1>2. /\ Title \in Titles /\ services[Title] \in Service /\ recs = disk
      /\ disk \in [Titles -> Record \cup {None}]
      /\ services \in [Titles -> Service \cup {None}]
  BY <1>1, TitleType, SeriesTypes
     DEF Present, SyncInv, SyncTypeOK, StoreInv, StoreTypeOK, Files,
         MemoryMirrorsDisk, ReadsWork
<1>3. c \in Counter /\ c = services[Title].counter
  BY <1>2 DEF CounterOf, Service
<1>4. ASSUME NEW t \in Titles, t # Title, UNCHANGED <<disk[t], services[t]>>
      PROVE  AdoptionExact(t)'
  BY <1>1, <1>4 DEF Exact, AdoptionExact, Present, CounterOf
<1>5. CASE ~Saveable(Title, c) /\ UNCHANGED <<disk, services>>
  <2>1. disk[Title] # None => disk[Title].adopt = c.adopt
    BY <1>1, <1>2, <1>5 DEF Saveable, CleanIsSaved
  <2>2. ASSUME NEW t \in Titles, t = Title PROVE AdoptionExact(t)'
    BY <1>1, <1>5, <2>1, <2>2 DEF Exact, AdoptionExact, CounterOf
  <2> QED BY <1>4, <1>5, <2>2 DEF Exact
<1>6. CASE SaveEnergy(Title, c, TRUE)
           /\ services' = [services EXCEPT ![Title] = clean]
  <2>1. /\ disk' = [recs EXCEPT ![Title] = WithCounter(recs[Title], c)]
        /\ recs[Title] # None
    BY <1>6 DEF SaveEnergy, Flush, Saveable
  <2>2. clean.counter.adopt = c.adopt
    BY <1>2 DEF CounterOf, Service, Counter
  <2>3. WithCounter(recs[Title], c).adopt = c.adopt
    <3>1. recs[Title] \in Record
      BY <1>2, <2>1
    <3> HIDE DEF c
    <3> QED BY <1>3, <3>1 DEF WithCounter, AsDict, Record, Counter
  <2> HIDE DEF c, clean
  <2>4. /\ disk'[Title] = WithCounter(recs[Title], c)
        /\ services'[Title] = clean
        /\ \A t \in Titles : t # Title =>
              services'[t] = services[t] /\ disk'[t] = disk[t]
    BY <1>2, <1>6, <2>1
  <2>5. c.adopt # None => disk[Title].adopt = c.adopt /\ shown[Title] = c.adopt
    <3>1. disk[Title] # None /\ services[Title] # None
      BY <1>1, <1>2, <2>1 DEF Present
    <3>2. disk[Title].adopt = None => c.adopt = None
      BY <1>2, <1>3, <3>1 DEF EnergyInv, SeriesOf, InService, Follows
    <3>3. /\ disk[Title].adopt # None => shown[Title] = disk[Title].adopt
          /\ disk[Title].adopt # None => c.adopt = disk[Title].adopt \/ c.adopt = None
      BY <1>2, <3>1 DEF Exact, AdoptionExact, Present, c
    <3> QED BY <3>2, <3>3
  <2>6. ASSUME NEW t \in Titles, t = Title PROVE AdoptionExact(t)'
    BY <1>1, <2>2, <2>3, <2>4, <2>5, <2>6 DEF AdoptionExact, CounterOf
  <2> QED BY <1>4, <2>4, <2>6 DEF Exact
<1> QED BY <1>5, <1>6 DEF Save, SaveEnergy, Flush, Exactly, storeVars

\* A step keeps the adoptions exact.
LEMMA ExactStep ==
    ASSUME SyncInv, ReadsWork, SoundMeters, EnergyInv, CleanIsSaved, Exactly,
           Exact, [SyncNext]_syncVars
    PROVE  Exact'
<1>1. CASE Environment
  <2>1. ~ \E t \in Titles : LegacyPublishes(t)
    BY DEF LegacyPublishes, Exactly
  <2>2. UNCHANGED <<disk, shown, services, pc, poll, pos>>
    BY <1>1, <2>1 DEF Environment, Charge, MeterReset, Reconfigure, NameTaken,
       NameReleased, tickVars, serviceVars, historyVars, storeVars
  <2> QED BY <2>2, ExactUntouched
<1>2. CASE Start
  <2>1. UNCHANGED <<disk, shown, services, pc, poll, pos>>
    BY <1>2 DEF Start, Open, OpenUnreadable, Hold, historyVars, serviceVars, tickVars
  <2> QED BY <2>1, ExactUntouched
<1>3. CASE Crash
  BY <1>3, ExactDie DEF Crash
<1>4. CASE PollOk \/ PollUnreachable
  BY <1>4, ExactUntouched
     DEF PollOk, PollUnreachable, Polls, historyVars, serviceVars, storeVars
<1>5. CASE PollMalformed \/ AllocateFails
  <2>1. CASE Die
    BY <2>1, ExactDie
  <2>2. CASE ~Die
    BY <1>5, <2>2, ExactUntouched
       DEF PollMalformed, Polls, AllocateFails, TickRaises, historyVars,
           serviceVars, storeVars
  <2> QED BY <2>1, <2>2
<1>6. CASE SkipDuplicate \/ EnsureKnown \/ EnsureExhausted \/ RegisterFails
  BY <1>6, ExactUntouched
     DEF SkipDuplicate, EnsureKnown, EnsureExhausted, RegisterFails, historyVars,
         serviceVars, storeVars
<1>7. CASE EnsureAllocates
  BY <1>7, ExactAllocate
<1>8. CASE Register
  BY <1>8, ExactRegister
<1>9. CASE Update
  BY <1>9, ExactUpdate
<1>10. CASE Save
  BY <1>10, ExactSave
<1>11. CASE Sweep
  BY <1>11, ExactSweep
<1>12. CASE UNCHANGED syncVars
  BY <1>12, ExactUntouched DEF syncVars, historyVars, storeVars, tickVars, serviceVars
<1> QED BY <1>1, <1>2, <1>3, <1>4, <1>5, <1>6, <1>7, <1>8, <1>9, <1>10, <1>11,
        <1>12 DEF SyncNext, Poll, Walk

\* Only an update and a legacy bridge change what is shown.
LEMMA ShownKept ==
    ASSUME SyncInv, [SyncNext]_syncVars, ~Update, NEW t \in Titles, shown[t] # None
    PROVE  shown'[t] >= shown[t]
<1>1. shown \in [Titles -> Int \cup {None}] /\ shown[t] \in Int
  BY DEF SyncInv, SyncTypeOK
<1>2. CASE \E u \in Titles : LegacyPublishes(u)
  <2>1. PICK u \in Titles : shown' = [shown EXCEPT ![u] = shown[u] + 1]
    BY <1>2 DEF LegacyPublishes
  <2>2. CASE u = t
    BY <1>1, <2>1, <2>2
  <2>3. CASE u # t
    BY <1>1, <2>1, <2>3
  <2> QED BY <2>2, <2>3
<1>3. CASE ~ \E u \in Titles : LegacyPublishes(u)
  <2>1. Environment \/ Start \/ Crash \/ Poll => UNCHANGED shown
    BY <1>3
       DEF Environment, Charge, MeterReset, Reconfigure, NameTaken, NameReleased,
           Start, Crash, Die, Poll, PollOk, PollUnreachable, PollMalformed,
           TickRaises, historyVars
  <2>2. (Walk /\ ~Update) \/ Sweep => UNCHANGED shown
    BY DEF Walk, SkipDuplicate, EnsureKnown, EnsureAllocates, AllocateFails,
       EnsureExhausted, Register, RegisterFails, Save, Sweep, TickRaises, Die,
       historyVars
  <2>3. UNCHANGED syncVars => UNCHANGED shown
    BY DEF syncVars, historyVars
  <2>4. UNCHANGED shown
    BY <2>1, <2>2, <2>3 DEF SyncNext
  <2> QED BY <1>1, <2>4
<1> QED BY <1>2, <1>3

(***************************************************************************)
(* The series VRM reads never falls, over restarts and the handover, where *)
(* every report has a reading; it goes back to an adopted value only where *)
(* a save may fail or the legacy bridge ran on after the capture.          *)
(***************************************************************************)
THEOREM SeriesRises ==
    ASSUME ReadsWork, SoundMeters, FreshFiles, "null" \notin Faults
    PROVE  SyncSpec => SeriesNeverFalls
<1> DEFINE Rises == \A t \in Titles : shown[t] # None =>
                       shown'[t] >= shown[t] \/ Readopted(t)
           Kept == Exactly => Exact
<1>1. SyncInit => Kept
  BY DEF SyncInit, Exact, AdoptionExact, Present, NoServices
<1>2. ASSUME SyncInv, EnergyInv, CleanIsSaved, Kept, [SyncNext]_syncVars
      PROVE  Kept'
  BY <1>2, ExactStep DEF Exactly
<1>3. ASSUME SyncInv, EnergyInv, Kept, [SyncNext]_syncVars
      PROVE  Rises
  <2>1. SUFFICES ASSUME NEW t \in Titles, shown[t] # None
                 PROVE  shown'[t] >= shown[t] \/ Readopted(t)
    OBVIOUS
  <2>2. CASE ~Update
    BY <1>3, <2>1, <2>2, ShownKept
  <2>3. CASE Update /\ t # Title
    <3>1. shown'[t] = shown[t] /\ shown[t] \in Int
      BY <1>3, <2>1, <2>3, UpdateReads, SeriesTypes
    <3> QED BY <3>1
  <2>4. CASE Update /\ t = Title
    <3>1. services[t] \in Service /\ Reads(t) /\ services[t] # None
      BY <1>3, <2>4, UpdateReads, NoServiceAssumption
    <3> DEFINE n == services'[t].counter
               c == services[t].counter
    <3>2. /\ n \in Counter
          /\ shown'[t] = n.offset + FirstMeter + polled[t]
          /\ c.adopt # None => n.offset = c.adopt - (FirstMeter + polled[t])
          /\ c.adopt = None => shown'[t] >= shown[t]
      BY <1>3, <2>1, <3>1, ReadsSound
    <3>3. CASE c.adopt = None
      BY <3>2, <3>3
    <3>4. CASE c.adopt # None
      <4>1. c.adopt \in Int /\ polled[t] \in Nat /\ shown[t] \in Int
        BY <1>3, <2>1, <3>1, <3>4, SeriesTypes DEF Service, Counter
      <4> HIDE DEF n
      <4>2. shown'[t] = c.adopt
        BY <3>2, <3>4, <4>1
      <4>3. CASE Exactly
        <5>1. disk[t] # None /\ disk[t].adopt # None
          <6>1. map[t] # None
            BY <1>3, <3>1 DEF SyncInv, BusOfStore, Present
          <6>2. map = Instances(disk)
            BY <1>3, <2>4 DEF Update, SyncInv, StoreInv, MapOfRecords,
               MemoryMirrorsDisk, Control, ReadsWork
          <6>3. disk[t] # None
            BY <6>1, <6>2 DEF Instances
          <6>4. Follows(c, disk[t])
            BY <1>3, <3>1 DEF EnergyInv, SeriesOf, InService
          <6> QED BY <3>4, <6>3, <6>4 DEF Follows
        <5>2. pc = "update"
          BY <2>4 DEF Update
        <5>3. c.adopt = shown[t]
          BY <1>3, <3>1, <3>4, <4>3, <5>1, <5>2
             DEF Exact, AdoptionExact, Present, CounterOf
        <5> QED BY <4>1, <4>2, <5>3
      <4>4. CASE ~Exactly
        <5>1. "write" \in IoFaults \/ "legacy" \in Faults
          BY <4>4 DEF Exactly
        <5>2. Readopted(t)
          BY <3>1, <3>4, <4>1, <4>2, <5>1 DEF Readopted, Present, CounterOf
        <5> QED BY <5>2
      <4> QED BY <4>3, <4>4
    <3> QED BY <3>3, <3>4
  <2> QED BY <2>2, <2>3, <2>4
<1> HIDE DEF Rises, Kept
<1>4. SyncSpec => []Kept
  BY <1>1, <1>2, SeriesSound, SyncInvariant, CleanCountersAreSaved, PTL DEF SyncSpec
<1>5. SyncSpec => [][Rises]_syncVars
  BY <1>3, <1>4, SeriesSound, SyncInvariant, PTL DEF SyncSpec
<1> QED BY <1>5 DEF SeriesNeverFalls, Rises

-------------------------------------------------------------------------------
(***************************************************************************)
(* The instances --plan names come true.  An allocation takes the lowest   *)
(* free one; the walk has left no title of the list without an instance    *)
(* before its place, so the plan counted it first, and for every later one *)
(* it counts one title and one instance less.                              *)
(***************************************************************************)
\* Without its least member a finite set of numbers is counted one earlier.
LEMMA NthWithoutLeast ==
    ASSUME NEW F \in SUBSET Int, IsFiniteSet(F), NEW least \in F,
           \A x \in F : least <= x, NEW n \in Nat, n >= 2
    PROVE  NthOf(F \ {least}, n - 1) = NthOf(F, n)
<1> DEFINE Below(x) == {y \in F : y < x}
           Left(x)  == {y \in F \ {least} : y < x}
<1>1. ASSUME NEW x \in F, x # least
      PROVE  Cardinality(Left(x)) + 1 = Cardinality(Below(x))
             /\ Cardinality(Left(x)) \in Nat
  <2>1. IsFiniteSet(Left(x))
    <3>1. Left(x) \in SUBSET F
      OBVIOUS
    <3> QED BY <3>1, FS_Subset
  <2>2. Below(x) = Left(x) \cup {least} /\ least \notin Left(x)
    BY <1>1
  <2>3. Cardinality(Left(x)) \in Nat
    BY <2>1, FS_CardinalityType
  <2> HIDE DEF Left, Below
  <2> QED BY <2>1, <2>2, <2>3, FS_AddElement
<1>2. Cardinality(Below(least)) = 0
  <2>1. \A y \in F : ~(y < least)
    OBVIOUS
  <2>2. Below(least) = {}
    BY <2>1
  <2> QED BY <2>2, FS_EmptySet
<1>3. ASSUME NEW x \in F, x # least
      PROVE  Cardinality(Left(x)) = n - 1 - 1 <=> Cardinality(Below(x)) = n - 1
  <2> HIDE DEF Left, Below
  <2> QED BY <1>1, <1>3
<1>4. NthOf(F, n) = {x \in F : Cardinality(Below(x)) = n - 1}
  BY DEF NthOf
<1>5. NthOf(F \ {least}, n - 1)
      = {x \in F \ {least} : Cardinality(Left(x)) = n - 1 - 1}
  BY DEF NthOf
<1>6. n - 1 # 0
  OBVIOUS
<1> HIDE DEF Left, Below
<1> QED BY <1>2, <1>3, <1>4, <1>5, <1>6

\* The first of a finite set of numbers is its least member.
LEMMA FirstIsLeast ==
    ASSUME NEW F \in SUBSET Int, IsFiniteSet(F), NEW least \in F,
           \A x \in F : least <= x
    PROVE  NthOf(F, 1) = {least}
<1> DEFINE Below(x) == {y \in F : y < x}
<1>1. Cardinality(Below(least)) = 0
  <2>1. \A y \in F : ~(y < least)
    OBVIOUS
  <2>2. Below(least) = {}
    BY <2>1
  <2> QED BY <2>2, FS_EmptySet
<1>2. ASSUME NEW x \in F, x # least PROVE Cardinality(Below(x)) # 0
  <2>1. IsFiniteSet(Below(x))
    <3>1. Below(x) \in SUBSET F
      OBVIOUS
    <3> QED BY <3>1, FS_Subset
  <2>2. Below(x) # {}
    BY <1>2
  <2> QED BY <2>1, <2>2, FS_EmptySet
<1>3. NthOf(F, 1) = {x \in F : Cardinality(Below(x)) = 0}
  BY DEF NthOf
<1> HIDE DEF Below
<1> QED BY <1>1, <1>2, <1>3

\* The plan counts with the instances the store has free.
LEMMA FreeOfMap ==
    ASSUME StoreTypeOK
    PROVE  FreeOf(map) = Free /\ Free \in SUBSET Int /\ IsFiniteSet(Free)
<1>1. range[1] \in Int /\ range[2] \in Int
  BY RangesAssumption DEF StoreTypeOK
<1>2. FreeOf(map) = Free
  BY <1>1 DEF FreeOf, Free, Used
<1>3. IsFiniteSet(range[1] .. range[2])
  BY <1>1, FS_Interval
<1>4. Free \in SUBSET (range[1] .. range[2])
  BY DEF Free
<1>5. Free \in SUBSET Int
  BY <1>1, <1>4
<1>6. IsFiniteSet(Free)
  BY <1>3, <1>4, FS_Subset
<1> QED BY <1>2, <1>5, <1>6

\* Before the place of an allocation everybody has an instance.
LEMMA ServedBefore ==
    ASSUME SyncInv, TickInv, pc = "ensure", NoDuplicates(poll), Free # {},
           NEW j \in 1 .. Len(poll), j < pos
    PROVE  map[poll[j]] # None /\ poll[j] # Title
<1>1. poll \in Seq(Titles) /\ pos \in 1 .. Len(poll) /\ Title = poll[pos]
  BY TitleType DEF Title
<1>2. j \in DOMAIN poll /\ pos \in DOMAIN poll
  BY <1>1
<1>3. poll[j] \in Unique(poll)
  BY <1>2 DEF NoDuplicates
<1>4. Served(poll[j])
  BY <1>2, <1>3 DEF TickInv, WalkServes, Walked
<1>5. poll[j] \in Titles
  BY <1>3 DEF Unique
<1>6. map[poll[j]] # None
  BY <1>4, <1>5 DEF Served, SyncInv, BusOfStore
<1>7. j # pos
  BY <1>1
<1>8. poll[j] # Title
  BY <1>1, <1>2, <1>3, <1>7, OnePlace
<1> QED BY <1>6, <1>8

(***************************************************************************)
(* The step that gives out an instance leaves the plan for the whole list  *)
(* as it was.                                                              *)
(***************************************************************************)
LEMMA AllocationWasPlanned ==
    ASSUME SyncInv, TickInv, EnsureAllocates, NoDuplicates(poll)
    PROVE  Forecast(map', poll) = Forecast(map, poll)
<1>1. /\ pc = "ensure" /\ map[Title] = None
      /\ map \in Maps /\ StoreTypeOK
  BY DEF EnsureAllocates, Allocate, SyncInv, StoreInv, StoreTypeOK
<1>2. PICK di \in DIs : /\ IsLowestFree(di)
                        /\ Flush([map EXCEPT ![Title] = di],
                                 [recs EXCEPT ![Title] = FreshRecord(di)], TRUE)
  BY DEF EnsureAllocates, Allocate
<1>3. /\ map' = [map EXCEPT ![Title] = di] /\ range' = range
      /\ di \in Free /\ \A other \in Free : di <= other
      /\ di # None
  BY <1>2, NoneAssumption, DIsAssumption DEF Flush, IsLowestFree
<1>4. Title \in Titles /\ pos \in 1 .. Len(poll) /\ poll \in Seq(Titles)
      /\ Title = poll[pos]
  BY <1>1, TitleType DEF Title
<1>5. DOMAIN poll = 1 .. Len(poll) /\ Len(poll) \in Nat
  BY <1>4
<1>6. /\ FreeOf(map) = Free /\ Free \in SUBSET Int /\ IsFiniteSet(Free)
  BY <1>1, FreeOfMap
<1>7. FreeOf(map') = Free \ {di}
  <2>1. \A t \in Titles : map'[t] = IF t = Title THEN di ELSE map[t]
    BY <1>1, <1>3 DEF Maps
  <2>2. {map'[t] : t \in Titles} \cup {None} = {map[t] : t \in Titles} \cup {di, None}
    BY <2>1, <1>1, <1>4
  <2>3. \A x \in range[1] .. range[2] : x # None
    BY <1>1, RangesAssumption, NoneAssumption DEF StoreTypeOK
  <2> QED BY <1>6, <2>2, <2>3 DEF FreeOf
<1>8. \A j \in 1 .. Len(poll) : j < pos => map[poll[j]] # None /\ poll[j] # Title
  BY <1>1, <1>3, ServedBefore
<1>9. \A j \in 1 .. Len(poll) : j # pos => poll[j] # Title
  <2> TAKE j \in 1 .. Len(poll)
  <2>1. poll[pos] \in Unique(poll)
    BY <1>4, <1>5 DEF NoDuplicates
  <2> QED BY <2>1, <1>4, <1>5, OnePlace
<1>10. \A j \in 1 .. Len(poll) :
          map'[poll[j]] = IF j = pos THEN di ELSE map[poll[j]]
  BY <1>1, <1>3, <1>4, <1>5, <1>9 DEF Maps
<1> DEFINE Told(m, i) ==
             IF m[poll[i]] # None THEN m[poll[i]]
             ELSE LET mine == NthOf(FreeOf(m), Cardinality(NewUpTo(m, poll, i)))
                  IN  IF mine = {} THEN None ELSE CHOOSE d \in mine : TRUE
<1>11. ASSUME NEW i \in 1 .. Len(poll) PROVE Told(map', i) = Told(map, i)
  <2>1. CASE i # pos /\ map[poll[i]] # None
    BY <2>1, <1>10
  <2>2. CASE i = pos
    <3>1. NewUpTo(map, poll, i) = {pos}
      BY <1>1, <1>4, <1>5, <1>8, <2>2 DEF NewUpTo
    <3>2. Cardinality(NewUpTo(map, poll, i)) = 1
      BY <3>1, FS_Singleton
    <3>3. NthOf(FreeOf(map), 1) = {di}
      BY <1>3, <1>6, FirstIsLeast
    <3>4. Told(map, i) = di
      BY <3>2, <3>3, <1>1, <1>4, <2>2
    <3>5. Told(map', i) = di
      BY <1>3, <1>10, <2>2
    <3> QED BY <3>4, <3>5
  <2>3. CASE i # pos /\ map[poll[i]] = None
    <3>1. i > pos
      BY <1>4, <1>8, <2>3
    <3> DEFINE News == NewUpTo(map, poll, i)
               n    == Cardinality(News)
    <3>2. NewUpTo(map', poll, i) = News \ {pos}
      <4>1. \A j \in 1 .. i : j \in 1 .. Len(poll)
        BY <1>5
      <4>2. \A j \in 1 .. i : map'[poll[j]] = None <=> (j # pos /\ map[poll[j]] = None)
        BY <4>1, <1>3, <1>10
      <4> QED BY <4>2 DEF NewUpTo
    <3>3. pos \in News /\ i \in News /\ News \in SUBSET (1 .. i)
      BY <1>1, <1>4, <2>3, <3>1 DEF NewUpTo
    <3> HIDE DEF News
    <3>4. IsFiniteSet(News)
      <4>1. IsFiniteSet(1 .. i)
        BY FS_Interval
      <4> QED BY <3>3, <4>1, FS_Subset
    <3>5. n \in Nat /\ n >= 2 /\ Cardinality(News \ {pos}) = n - 1
      <4>1. IsFiniteSet(News \ {pos}) /\ Cardinality(News \ {pos}) = n - 1
        BY <3>3, <3>4, FS_RemoveElement
      <4>2. Cardinality(News \ {pos}) # 0
        <5>1. i \in News \ {pos}
          BY <2>3, <3>3
        <5> QED BY <4>1, <5>1, FS_EmptySet
      <4>3. n \in Nat /\ Cardinality(News \ {pos}) \in Nat
        BY <3>4, <4>1, FS_CardinalityType
      <4> HIDE DEF n
      <4> QED BY <4>1, <4>2, <4>3
    <3> HIDE DEF n
    <3>6. NthOf(Free \ {di}, n - 1) = NthOf(Free, n)
      BY <1>3, <1>6, <3>5, NthWithoutLeast
    <3>7. /\ NthOf(FreeOf(map'), Cardinality(NewUpTo(map', poll, i)))
             = NthOf(Free, n)
          /\ NthOf(FreeOf(map), Cardinality(NewUpTo(map, poll, i)))
             = NthOf(Free, n)
      BY <1>6, <1>7, <3>2, <3>5, <3>6 DEF n, News
    <3>8. map'[poll[i]] = None
      BY <1>10, <2>3
    <3> QED BY <2>3, <3>7, <3>8
  <2> QED BY <2>1, <2>2, <2>3
<1>12. \A m : Forecast(m, poll) = [i \in 1 .. Len(poll) |-> Told(m, i)]
  BY <1>5 DEF Forecast
<1> HIDE DEF Told
<1> QED BY <1>11, <1>12

\* No other step of a process gives out an instance.
LEMMA OnlyEnsureAllocates ==
    ASSUME SyncInv, [SyncNext]_syncVars, opened, opened'
    PROVE  EnsureAllocates \/ map' = map
<1>1. CASE Environment
  BY <1>1 DEF Environment, Charge, MeterReset, LegacyPublishes, Reconfigure,
          NameTaken, NameReleased, storeVars
<1>2. CASE Start
  BY <1>2 DEF Start, Open, OpenUnreadable
<1>3. ASSUME Die PROVE FALSE
  BY <1>3 DEF Die, Close
<1>4. ASSUME TickRaises PROVE map' = map
  BY <1>3, <1>4 DEF TickRaises, storeVars
<1>5. CASE Crash
  BY <1>3, <1>5 DEF Crash
<1>6. CASE Poll
  BY <1>4, <1>6 DEF Poll, PollOk, PollUnreachable, PollMalformed, storeVars
<1>7. CASE Walk
  <2>1. CASE AllocateFails
    BY <1>4, <2>1 DEF AllocateFails
  <2>2. CASE Save
    BY <2>2 DEF Save, SaveEnergy, Flush, AfterFailedFlush, storeVars
  <2>3. CASE ~AllocateFails /\ ~Save
    BY <1>7, <2>3 DEF Walk, SkipDuplicate, EnsureKnown, EnsureExhausted,
            Register, RegisterFails, Update, storeVars
  <2> QED BY <2>1, <2>2, <2>3
<1>8. CASE Sweep
  BY <1>8 DEF Sweep, storeVars
<1>9. CASE UNCHANGED syncVars
  BY <1>9 DEF syncVars, storeVars
<1> QED BY <1>1, <1>2, <1>5, <1>6, <1>7, <1>8, <1>9 DEF SyncNext

(***************************************************************************)
(* The plan comes true: while the bridge walks a list without duplicates,  *)
(* the instances --plan names for it stand, for any list, range, write     *)
(* fault and name collision, if the file can be read.                      *)
(***************************************************************************)
THEOREM PlanComesTrue ==
    ASSUME ReadsWork
    PROVE  SyncSpec => PlanStands
<1> DEFINE Stands == opened /\ opened' /\ poll' = poll /\ NoDuplicates(poll)
                     => Forecast(map', poll) = Forecast(map, poll)
<1>1. SyncInv /\ TickInv /\ [SyncNext]_syncVars => [Stands]_syncVars
  BY OnlyEnsureAllocates, AllocationWasPlanned
<1> HIDE DEF Stands
<1>2. SyncSpec => [][Stands]_syncVars
  BY <1>1, SyncInvariant, TickInvariant, PTL DEF SyncSpec
<1> QED BY <1>2 DEF PlanStands, Stands

-------------------------------------------------------------------------------
(***************************************************************************)
(* Meters that are not sound.  A reading may be lower than the meter, fewer*)
(* than Confirmations times in a row; the meter itself may restart; a      *)
(* reading may be missing.  The bridge runs on: a restart forgets the value*)
(* it published, and then the property does not hold (BugRestartReset).    *)
(***************************************************************************)
NoisyMeters ==
    /\ FirstMeter > ZeroKwh
    /\ Faults \cap {"crash", "malformed", "session", "legacy"} = {}
    /\ "write" \notin IoFaults

\* What a meter that restarted shows, and no reading is below.
Lowest == ZeroKwh + 1

\* A reading was answered for the title and is not applied yet.
Due(t) ==
    /\ pc # "idle" /\ report[t].import # 0
    /\ \E i \in DOMAIN poll : poll[i] = t /\ (i > pos \/ (i = pos /\ pc # "save"))

\* A title without a reading yet: what it will continue from was shown.
NeverRead(x, s) ==
    /\ x.source = None /\ x.offset = 0 /\ x.adopt = s
    /\ s # None => s >= 0

Unread(t) ==
    /\ glitches[t] = 0
    /\ IF disk[t] = None THEN shown[t] = None ELSE NeverRead(disk[t], shown[t])
    /\ services[t] # None =>
          /\ NeverRead(services[t].counter, shown[t])
          /\ services[t].counter.published = None
          /\ services[t].counter.low = 0
          /\ services[t].forward = 0

(***************************************************************************)
(* Whoever counted a lower reading, or is about to, that is no glitch, is  *)
(* right: the meter did restart since the last accepted reading.  Then the *)
(* meter has counted no more than what was delivered and is not published  *)
(* yet: the offset may be moved onto any reading, a glitch among them.     *)
(***************************************************************************)
Fell(t) ==
    LET c == services[t].counter
    IN  \/ meter[t] < c.source
        \/ ~Due(t) /\ c.low > glitches[t]
        \/ Due(t) /\ glitches[t] = 0 /\ report[t].import < c.source
        \/ Due(t) /\ glitches[t] > 0 /\ c.low >= glitches[t]

Room(t) ==
    services[t].counter.published + meter[t] - Lowest <= credit[t] + delivered[t]

Running(t) ==
    /\ services[t] # None
    /\ LET c == services[t].counter
       IN  /\ c.adopt = None /\ c.source # None /\ c.published # None
           /\ c.published <= credit[t] + polled[t]
           /\ c.offset + meter[t] <= credit[t] + delivered[t]
    /\ shown[t] = services[t].forward
    /\ shown[t] <= credit[t] + polled[t]
    /\ Fell(t) => Room(t)

\* A reading that is due, whatever happened to the meter since the answer.
InFlight(t) ==
    LET r == report[t].import
    IN  Due(t) =>
          /\ r >= Lowest
          /\ meter[t] < r => meter[t] - Lowest <= delivered[t] - polled[t]
          /\ credit[t] = None => meter[t] <= r + (delivered[t] - polled[t])
          /\ credit[t] # None =>
                r + services[t].counter.offset <= credit[t] + polled[t]

NoiseOf(t) ==
    /\ meter[t] >= Lowest
    /\ polled[t] <= delivered[t]
    /\ glitches[t] < Confirmations
    /\ ~report[t].connected
    /\ IF credit[t] = None THEN Unread(t) ELSE Running(t)
    /\ InFlight(t)

\* A duplicate gets no reading, a title's first reading is not missing.
Answered ==
    pc # "idle" => \A t \in Titles :
        /\ t \notin Unique(poll) => report[t].import = 0
        /\ t \in Unique(poll) => report[t].import # 0 \/ credit[t] # None

NoiseInv ==
    /\ \A t \in Titles : NoiseOf(t)
    /\ Answered
    /\ AtUnique
    /\ pc = "save" => credit[Title] # None

-------------------------------------------------------------------------------
(***************************************************************************)
(* One reading, whatever it says.                                          *)
(***************************************************************************)
\* What becomes of a counter that was read before.
LEMMA NoisyFields ==
    ASSUME NEW c \in Counter, NEW r \in Int, r >= Lowest,
           c.adopt = None, c.source # None, c.published # None
    PROVE  LET n == AfterReading(c, r)
           IN  /\ n.adopt = None
               /\ \/ /\ Fallen(c, r) /\ n.low = c.low + 1
                     /\ n.source = c.source /\ n.offset = c.offset
                     /\ n.published = c.published
                  \/ /\ Fallen(c, r) /\ c.low = Confirmations - 1 /\ n.low = 0
                     /\ n.source = r /\ n.offset = c.published - r
                     /\ n.published = c.published
                  \/ /\ n.low = 0 /\ n.source = r /\ n.offset = c.offset
                     /\ n.published = IF r + c.offset < c.published
                                      THEN c.published ELSE r + c.offset
<1>0. /\ c.offset \in Int /\ c.source \in Int /\ c.published \in Int
      /\ c.low \in 0 .. Confirmations - 1 /\ Confirmations \in Nat /\ ZeroKwh \in Nat
  BY DEF Counter
<1>1. ~NoData(r)
  BY <1>0 DEF NoData, Lowest
<1>2. CASE Glitch(c, r)
  <2>1. AfterReading(c, r) = [c EXCEPT !.low = c.low + 1]
    BY <1>1, <1>2 DEF AfterReading
  <2>2. Fallen(c, r)
    BY <1>2 DEF Glitch
  <2> QED BY <2>1, <2>2 DEF Counter
<1>3. CASE ~Glitch(c, r)
  <2> DEFINE b == Rebased(c, r)
  <2>1. AfterReading(c, r) = Accept(b, r)
    BY <1>1, <1>3 DEF AfterReading
  <2>2. b \in Counter /\ b.published = c.published
    BY RebasedType
  <2>3. CASE Fallen(c, r)
    <3>1. c.low = Confirmations - 1
      BY <1>0, <1>3, <2>3 DEF Glitch
    <3>2. b = [c EXCEPT !.offset = c.published - r, !.low = 0, !.dirty = TRUE]
      BY <2>3 DEF Rebased, ResetBase
    <3>3. b.offset = c.published - r /\ b.low = 0 /\ b.adopt = None
      BY <3>2 DEF Counter
    <3> HIDE DEF b
    <3>4. r + b.offset = c.published
      BY <1>0, <3>3
    <3>5. /\ Accept(b, r).adopt = None /\ Accept(b, r).low = 0
          /\ Accept(b, r).source = r /\ Accept(b, r).offset = c.published - r
          /\ Accept(b, r).published = c.published
      BY <1>0, <2>2, <3>3, <3>4 DEF Accept, Counter
    <3> QED BY <2>1, <2>3, <3>1, <3>5
  <2>4. CASE ~Fallen(c, r)
    <3>1. b = [c EXCEPT !.low = 0]
      BY <2>4 DEF Rebased
    <3>2. b.offset = c.offset /\ b.low = 0 /\ b.adopt = None
      BY <3>1 DEF Counter
    <3> HIDE DEF b
    <3>3. /\ Accept(b, r).adopt = None /\ Accept(b, r).low = 0
          /\ Accept(b, r).source = r /\ Accept(b, r).offset = c.offset
          /\ Accept(b, r).published = IF r + c.offset < c.published
                                      THEN c.published ELSE r + c.offset
      BY <1>0, <2>2, <3>2 DEF Accept, Counter
    <3> QED BY <2>1, <3>3
  <2> QED BY <2>3, <2>4
<1> QED BY <1>2, <1>3

(***************************************************************************)
(* The numbers of a series that runs: m is the meter and d what was        *)
(* delivered by now, p what was delivered at the answer, k the credit, q   *)
(* the glitches in a row.  The case that moves the offset is the one that  *)
(* rests on the evidence.                                                  *)
(***************************************************************************)
Level(c, m, k, p, d) ==
    /\ c.adopt = None /\ c.source # None /\ c.published # None
    /\ c.published <= k + p
    /\ c.offset + m <= k + d

RoomFor(c, m, k, d) == c.published + m - Lowest <= k + d

\* A reading of a title that was read before books nothing that was not
\* delivered, and the next lower readings start from nothing.
LEMMA NoisyReading ==
    ASSUME NEW c \in Counter, NEW r \in Int, NEW m \in Int, NEW k \in Int,
           NEW p \in Int, NEW d \in Int, NEW q \in Nat, q < Confirmations,
           r >= Lowest, p <= d, Level(c, m, k, p, d),
           r + c.offset <= k + p,
           m < r => m - Lowest <= d - p,
           \/ m < c.source
           \/ q = 0 /\ r < c.source
           \/ q > 0 /\ c.low >= q
           => RoomFor(c, m, k, d)
    PROVE  LET n == AfterReading(c, r)
           IN  /\ Level(n, m, k, p, d)
               /\ m < n.source \/ n.low > q => RoomFor(n, m, k, d)
               /\ n.published >= c.published
<1> DEFINE n == AfterReading(c, r)
<1>0. /\ c.adopt = None /\ c.source \in Int /\ c.published \in Int
      /\ c.offset \in Int /\ c.low \in 0 .. Confirmations - 1
      /\ c.published <= k + p /\ c.offset + m <= k + d
      /\ c.source # None /\ c.published # None
      /\ Confirmations \in Nat /\ Lowest \in Int /\ r # None
      /\ ResetEpsilon \in Nat
  BY DEF Level, Counter, Lowest
<1>1. /\ n \in Counter /\ n.published # None
  BY <1>0, AfterReadingType
<1>2. /\ n.adopt = None
      /\ \/ /\ Fallen(c, r) /\ n.low = c.low + 1
            /\ n.source = c.source /\ n.offset = c.offset
            /\ n.published = c.published
         \/ /\ Fallen(c, r) /\ c.low = Confirmations - 1 /\ n.low = 0
            /\ n.source = r /\ n.offset = c.published - r
            /\ n.published = c.published
         \/ /\ n.low = 0 /\ n.source = r /\ n.offset = c.offset
            /\ n.published = IF r + c.offset < c.published
                             THEN c.published ELSE r + c.offset
  BY <1>0, NoisyFields
<1>3. Fallen(c, r) => r < c.source
  BY <1>0 DEF Fallen
<1> HIDE DEF n
<1>4. CASE /\ Fallen(c, r) /\ n.low = c.low + 1
           /\ n.source = c.source /\ n.offset = c.offset
           /\ n.published = c.published
  <2>1. Level(n, m, k, p, d) /\ n.published >= c.published
    BY <1>0, <1>2, <1>4 DEF Level
  <2>2. m < n.source \/ n.low > q => RoomFor(c, m, k, d)
    BY <1>0, <1>3, <1>4
  <2> QED BY <1>4, <2>1, <2>2 DEF n, RoomFor
<1>5. CASE /\ Fallen(c, r) /\ c.low = Confirmations - 1 /\ n.low = 0
           /\ n.source = r /\ n.offset = c.published - r
           /\ n.published = c.published
  <2>1. RoomFor(c, m, k, d)
    BY <1>0, <1>3, <1>5
  <2>2. c.published - r + m <= k + d
    BY <1>0, <2>1, SMTT(30) DEF RoomFor
  <2>3. Level(n, m, k, p, d) /\ n.published >= c.published
    BY <1>0, <1>2, <1>5, <2>2 DEF Level
  <2> QED BY <1>5, <2>1, <2>3 DEF n, RoomFor
<1>6. CASE /\ n.low = 0 /\ n.source = r /\ n.offset = c.offset
           /\ n.published = IF r + c.offset < c.published
                            THEN c.published ELSE r + c.offset
  <2>1. n.published <= k + p /\ n.published >= c.published /\ n.published \in Int
    BY <1>0, <1>6, SMTT(30)
  <2>2. Level(n, m, k, p, d)
    BY <1>0, <1>1, <1>2, <1>6, <2>1 DEF Level
  <2>3. m < r => RoomFor(n, m, k, d)
    BY <1>0, <2>1 DEF RoomFor
  <2> QED BY <1>6, <2>1, <2>2, <2>3 DEF n
<1> QED BY <1>2, <1>4, <1>5, <1>6

\* The meter since it was read as r: it may have restarted.
Since(r, m, p, d) ==
    /\ r >= Lowest /\ p <= d /\ m <= r + (d - p)
    /\ m < r => m - Lowest <= d - p

\* The first reading makes n of the counter c, and shows g; j is the credit.
Begins(c, r, p, s, n, g, j) ==
    /\ n = AfterReading(c, r)
    /\ g = Larger(Held(n), 0)
    /\ j = (IF s # None THEN s ELSE g) - p

\* A first reading continues what was shown, or starts the series.
LEMMA NoisyFirst ==
    ASSUME NEW c \in Counter, NEW r \in Int, NEW m \in Int,
           NEW p \in Int, NEW d \in Int, NEW s \in Int \cup {None},
           NeverRead(c, s), c.published = None, c.low = 0, Since(r, m, p, d),
           NEW n, NEW g, NEW j, Begins(c, r, p, s, n, g, j)
    PROVE  /\ j \in Int /\ g \in Int /\ g <= j + p
           /\ s # None => g >= s
           /\ Level(n, m, j, p, d)
           /\ n.low = 0
           /\ m < n.source => RoomFor(n, m, j, d)
<1> DEFINE o == IF c.adopt # None THEN c.adopt - r ELSE 0
           b == Rebased(c, r)
<1>0. /\ c.source = None /\ c.offset = 0 /\ c.adopt = s
      /\ s # None => s \in Int /\ s >= 0
      /\ ZeroKwh \in Nat /\ Lowest \in Int /\ r > 0 /\ r # None /\ o \in Int
  BY DEF NeverRead, Since, Lowest
<1>1. ~NoData(r) /\ ~Fallen(c, r)
  BY <1>0 DEF Since, NoData, Fallen, Lowest
<1>2. n = Accept(b, r)
  BY <1>1 DEF Begins, AfterReading, Glitch
<1>3. b \in Counter /\ b.published = None
  BY RebasedType
<1>4. b.offset = o /\ b.low = 0 /\ b.adopt = None
  <2>1. CASE c.adopt # None
    BY <2>1 DEF Rebased, Counter
  <2>2. CASE c.adopt = None
    BY <1>0, <2>2 DEF Rebased, Counter
  <2> QED BY <2>1, <2>2
<1> HIDE DEF b
<1>5. /\ n.adopt = None /\ n.low = 0 /\ n.source = r /\ n.offset = b.offset
      /\ n.published = r + b.offset
  BY <1>2, <1>3, <1>4 DEF Accept, Counter
<1>6. r + o = (IF s # None THEN s ELSE r) /\ r + o >= 0 /\ r + o \in Int
  BY <1>0
<1>7. n.published = r + o /\ n.published # None /\ n.offset = o
  BY <1>4, <1>5, <1>6
<1> HIDE DEF o
<1>8. g = r + o
  BY <1>0, <1>6, <1>7 DEF Begins, Larger, Held
<1>9. j + p = r + o /\ j \in Int
  BY <1>0, <1>6, <1>8 DEF Begins
<1>10. Level(n, m, j, p, d)
  BY <1>0, <1>5, <1>6, <1>7, <1>9 DEF Since, Level
<1>11. m < r => RoomFor(n, m, j, d)
  BY <1>0, <1>6, <1>7, <1>9 DEF Since, RoomFor
<1>12. s # None => g >= s
  BY <1>0, <1>6, <1>8
<1> QED BY <1>5, <1>6, <1>8, <1>9, <1>10, <1>11, <1>12

-------------------------------------------------------------------------------
(***************************************************************************)
(* Steps that apply no reading.                                            *)
(***************************************************************************)
\* The types of what the noise is about.
LEMMA NoiseTypes ==
    ASSUME SyncInv, NEW t \in Titles
    PROVE  /\ delivered[t] \in Nat /\ polled[t] \in Nat /\ meter[t] \in Nat
           /\ glitches[t] \in Nat /\ report[t] \in Report /\ report[t].import \in Nat
           /\ shown[t] \in Int \cup {None} /\ credit[t] \in Int \cup {None}
           /\ services[t] \in Service \cup {None}
           /\ Lowest \in Nat /\ Lowest > 0
<1>1. glitches[t] \in 0 .. Confirmations /\ report[t] \in Report
  BY DEF SyncInv, SyncTypeOK
<1> QED BY <1>1, SeriesTypes DEF Report, Lowest

\* What of a service the noise is about.
SameService(t) ==
    /\ services'[t] = None <=> services[t] = None
    /\ services[t] # None =>
          /\ services'[t].forward = services[t].forward
          /\ services'[t].counter.offset = services[t].counter.offset
          /\ services'[t].counter.source = services[t].counter.source
          /\ services'[t].counter.adopt = services[t].counter.adopt
          /\ services'[t].counter.published = services[t].counter.published
          /\ services'[t].counter.low = services[t].counter.low

\* The walk leaves a title behind only with its reading applied, or if no
\* reading of it counts yet.
SamePlace(t) ==
    /\ Due(t)' => Due(t)
    /\ credit[t] # None => (Due(t) => Due(t)')

\* The title's own values stay.
LEMMA NoiseKept ==
    ASSUME NEW t \in Titles, NoiseOf(t), SameService(t), SamePlace(t),
           UNCHANGED <<meter[t], delivered[t], glitches[t], polled[t], credit[t],
                       shown[t], report[t]>>,
           disk'[t] = disk[t] \/ credit[t] # None
    PROVE  NoiseOf(t)'
<1>1. CASE credit[t] = None
  <2>1. Unread(t)'
    BY <1>1 DEF NoiseOf, Unread, NeverRead, SameService
  <2>2. InFlight(t)'
    BY <1>1 DEF NoiseOf, InFlight, SamePlace
  <2> QED BY <1>1, <2>1, <2>2 DEF NoiseOf
<1>2. CASE credit[t] # None
  <2>1. Due(t)' <=> Due(t)
    BY <1>2 DEF SamePlace
  <2>2. services[t] # None
    BY <1>2 DEF NoiseOf, Running
  <2>3. Fell(t)' => Fell(t)
    BY <2>1, <2>2 DEF Fell, SameService
  <2>4. Room(t) => Room(t)'
    BY <2>2 DEF Room, SameService
  <2>5. Running(t)'
    BY <1>2, <2>2, <2>3, <2>4 DEF NoiseOf, Running, SameService
  <2>6. InFlight(t)'
    BY <1>2, <2>1, <2>2 DEF NoiseOf, InFlight, SameService
  <2> QED BY <1>2, <2>5, <2>6 DEF NoiseOf
<1> QED BY <1>1, <1>2

\* Nothing of it moves.
LEMMA NoiseUntouched ==
    ASSUME NoiseInv,
           UNCHANGED <<meter, delivered, glitches, polled, credit, shown, disk,
                       services, pc, poll, report, pos>>
    PROVE  NoiseInv'
<1>1. ASSUME NEW t \in Titles PROVE NoiseOf(t)'
  BY NoiseKept DEF NoiseInv, SameService, SamePlace, Due
<1> QED BY <1>1 DEF NoiseInv, Answered, AtUnique, Title

\* Going on to the next loadpoint.
LEMMA NextDue ==
    ASSUME SyncInv, pc \in {"ensure", "register", "save"}, NextLoadpoint,
           NEW t \in Titles
    PROVE  /\ Due(t)' => Due(t)
           /\ t # Title \/ pc = "save" \/ report[t].import = 0 => (Due(t) => Due(t)')
<1>1. pos \in 1 .. Len(poll) /\ poll \in Seq(Titles)
  BY TitleType
<1>2. /\ pos' = pos + 1 /\ UNCHANGED <<poll, report>>
      /\ pc' = IF pos < Len(poll) THEN "ensure" ELSE "sweep"
  BY DEF NextLoadpoint
<1>3. DOMAIN poll = 1 .. Len(poll) /\ Len(poll) \in Nat /\ pos \in Int
  BY <1>1
<1>4. ASSUME NEW i \in DOMAIN poll
      PROVE  (i > pos \/ (i = pos /\ pc # "save")) /\ i # pos
             <=> i > pos + 1 \/ (i = pos + 1 /\ pc' # "save")
  BY <1>2, <1>3
<1>5. pc # "idle" /\ pc' # "idle"
  BY <1>2
<1>6. Due(t)' <=> /\ report[t].import # 0
                  /\ \E i \in DOMAIN poll :
                        poll[i] = t /\ (i > pos + 1 \/ (i = pos + 1 /\ pc' # "save"))
  BY <1>2, <1>5 DEF Due
<1>7. Due(t) <=> /\ report[t].import # 0
                 /\ \E i \in DOMAIN poll :
                       poll[i] = t /\ (i > pos \/ (i = pos /\ pc # "save"))
  BY <1>5 DEF Due
<1>8. Due(t)' => Due(t)
  BY <1>4, <1>6, <1>7
<1>9. ASSUME Due(t), t # Title \/ pc = "save" PROVE Due(t)'
  <2>1. PICK i \in DOMAIN poll : poll[i] = t /\ (i > pos \/ (i = pos /\ pc # "save"))
    BY <1>7, <1>9
  <2>2. i # pos
    BY <1>9, <2>1 DEF Title
  <2> QED BY <1>4, <1>6, <1>7, <1>9, <2>1, <2>2
<1> QED BY <1>7, <1>8, <1>9

\* Another step of the same loadpoint.
LEMMA StayDue ==
    ASSUME pc \in {"ensure", "register"}, pc' \in {"register", "update"},
           UNCHANGED <<poll, pos>>, NEW t, report'[t] = report[t]
    PROVE  Due(t)' <=> Due(t)
BY DEF Due

\* Loadpoints that are skipped or only looked at.
LEMMA NoiseMovesOn ==
    ASSUME SyncInv, TickInv, NoiseInv,
           SkipDuplicate \/ EnsureKnown \/ EnsureExhausted \/ RegisterFails
    PROVE  NoiseInv'
<1>1. /\ UNCHANGED <<meter, delivered, glitches, polled, credit, shown, disk,
                     services>>
      /\ UNCHANGED <<poll, report>> /\ pc \in {"ensure", "register"}
  BY DEF SkipDuplicate, EnsureKnown, EnsureExhausted, RegisterFails,
         NextLoadpoint, GoTo, evccVars, historyVars, storeVars, serviceVars
<1>2. CASE EnsureKnown
  <2>1. UNCHANGED pos /\ Title \in Unique(poll) /\ pc = "ensure"
        /\ pc' \in {"register", "update"}
    BY <1>2 DEF EnsureKnown, GoTo
  <2>2. \A t \in Titles : Due(t)' <=> Due(t)
    BY <1>1, <2>1, StayDue
  <2>3. ASSUME NEW t \in Titles PROVE NoiseOf(t)'
    BY <1>1, <2>2, NoiseKept DEF NoiseInv, SameService, SamePlace
  <2> QED BY <1>1, <2>1, <2>3 DEF NoiseInv, Answered, AtUnique, Title
<1>3. CASE ~EnsureKnown
  <2>1. NextLoadpoint /\ pc' \in {"ensure", "sweep"}
    BY <1>3 DEF SkipDuplicate, EnsureExhausted, RegisterFails, NextLoadpoint
  <2>2. Title \in Titles
    BY <1>1, TitleType
  <2>3. report[Title].import = 0 \/ credit[Title] = None
    <3>1. CASE SkipDuplicate
      BY <2>2, <3>1 DEF SkipDuplicate, NoiseInv, Answered
    <3>2. CASE EnsureExhausted \/ RegisterFails
      <4>1. ~Present(Title)
        BY <3>2 DEF EnsureExhausted, RegisterFails, TickInv, TickPlace
      <4> QED BY <2>2, <4>1 DEF Present, NoiseInv, NoiseOf, Running
    <3> QED BY <1>3, <3>1, <3>2
  <2>4. ASSUME NEW t \in Titles PROVE SamePlace(t)
    BY <1>1, <2>1, <2>3, NextDue DEF SamePlace
  <2>5. ASSUME NEW t \in Titles PROVE NoiseOf(t)'
    BY <1>1, <2>4, NoiseKept DEF NoiseInv, SameService
  <2> QED BY <1>1, <2>1, <2>5 DEF NoiseInv, Answered, AtUnique
<1> QED BY <1>2, <1>3

\* The sweep finds every reading applied, and ends the tick.
LEMMA NoiseSweep ==
    ASSUME SyncInv, TickInv, NoiseInv, Sweep
    PROVE  NoiseInv'
<1>1. /\ UNCHANGED <<meter, delivered, glitches, polled, credit, shown, disk>>
      /\ UNCHANGED <<poll, pos>> /\ pc = "sweep" /\ pc' = "idle"
      /\ report' = NoReports
      /\ services' = [t \in Titles |-> IF t \in Gone
                                       THEN MarkedDisconnected(services[t])
                                       ELSE services[t]]
  BY DEF Sweep, evccVars, historyVars, storeVars
<1>2. ASSUME NEW t \in Titles PROVE SameService(t)
  <2>1. CASE t \in Gone
    <3>1. services[t] # None /\ services[t] \in Service
      BY <2>1 DEF Gone, Present, SyncInv, SyncTypeOK
    <3>2. services'[t] = [services[t] EXCEPT !.connected = FALSE]
      BY <1>1, <2>1 DEF MarkedDisconnected
    <3>3. services'[t] \in Service
      BY <3>1, <3>2 DEF Service
    <3> QED BY <3>1, <3>2, <3>3, NoServiceAssumption DEF SameService, Service
  <2>2. CASE t \notin Gone
    <3>1. services'[t] = services[t]
      BY <1>1, <2>2
    <3> QED BY <3>1 DEF SameService
  <2> QED BY <2>1, <2>2
<1>3. ASSUME NEW t \in Titles PROVE ~Due(t) /\ ~Due(t)'
  <2>1. poll \in Seq(Titles) /\ \A i \in DOMAIN poll : i < pos
    BY <1>1, PollIsList DEF TickInv, TickPlace
  <2>2. pos \in Nat
    BY DEF SyncInv, SyncTypeOK
  <2>3. \A i \in DOMAIN poll : ~(i > pos \/ i = pos)
    BY <2>1, <2>2
  <2> QED BY <1>1, <2>3 DEF Due
<1>4. ASSUME NEW t \in Titles PROVE NoiseOf(t)'
  <2>1. NoiseOf(t)
    BY DEF NoiseInv
  <2>2. ~report'[t].connected
    BY <1>1 DEF NoReports, NullReport, OfMeter
  <2>3. CASE credit[t] = None
    <3>1. Unread(t)'
      BY <1>1, <1>2, <2>1, <2>3 DEF NoiseOf, Unread, NeverRead, SameService
    <3> QED BY <1>1, <1>3, <2>1, <2>2, <2>3, <3>1 DEF NoiseOf, InFlight
  <2>4. CASE credit[t] # None
    <3>1. services[t] # None
      BY <2>1, <2>4 DEF NoiseOf, Running
    <3>2. Fell(t)' => Fell(t)
      BY <1>1, <1>2, <1>3, <3>1 DEF Fell, SameService
    <3>3. Room(t) => Room(t)'
      BY <1>1, <1>2, <3>1 DEF Room, SameService
    <3>4. Running(t)'
      BY <1>1, <1>2, <2>1, <2>4, <3>1, <3>2, <3>3 DEF NoiseOf, Running, SameService
    <3> QED BY <1>1, <1>3, <2>1, <2>2, <2>4, <3>4 DEF NoiseOf, InFlight
  <2> QED BY <2>3, <2>4
<1> QED BY <1>1, <1>4 DEF NoiseInv, Answered, AtUnique

-------------------------------------------------------------------------------
(***************************************************************************)
(* The meter moves, by a charge or by its restart.                         *)
(***************************************************************************)
\* One meter.
LEMMA MeterMoves ==
    ASSUME SyncInv, NEW t \in Titles, NoiseOf(t),
           \/ meter'[t] = meter[t] + 1 /\ delivered'[t] = delivered[t] + 1
           \/ meter'[t] = Lowest /\ delivered'[t] = delivered[t],
           UNCHANGED <<glitches[t], polled[t], credit[t], shown[t], report[t],
                       disk[t], services[t]>>,
           Due(t)' <=> Due(t)
    PROVE  NoiseOf(t)'
<1>0. /\ delivered[t] \in Nat /\ polled[t] \in Nat /\ meter[t] \in Nat
      /\ meter[t] >= Lowest /\ Lowest \in Nat /\ polled[t] <= delivered[t]
      /\ report[t].import \in Nat
  BY NoiseTypes DEF NoiseOf
<1>1. /\ meter'[t] >= Lowest /\ polled'[t] <= delivered'[t]
      /\ delivered'[t] \in Nat /\ meter'[t] \in Nat
      /\ meter'[t] - delivered'[t] <= meter[t] - delivered[t]
  BY <1>0, SMTT(30)
<1>4. InFlight(t)'
  <2> DEFINE r == report[t].import
             m == meter[t]
             n == meter'[t]
             d == delivered[t]
             e == delivered'[t]
             p == polled[t]
  <2>0. /\ r \in Nat /\ m \in Nat /\ n \in Nat /\ d \in Nat /\ e \in Nat /\ p \in Nat
        /\ p <= d /\ m >= Lowest
        /\ \/ n = m + 1 /\ e = d + 1
           \/ n = Lowest /\ e = d
    BY <1>0, <1>1
  <2> HIDE DEF r, m, n, d, e, p
  <2>1. (m < r => m - Lowest <= d - p) => (n < r => n - Lowest <= e - p)
    BY <1>0, <2>0
  <2>2. m <= r + (d - p) => n <= r + (e - p)
    BY <1>0, <2>0
  <2> QED BY <2>1, <2>2 DEF NoiseOf, InFlight, r, m, n, d, e, p
<1>2. CASE credit[t] = None
  <2>1. Unread(t)'
    BY <1>2 DEF NoiseOf, Unread
  <2> QED BY <1>1, <1>2, <1>4, <2>1 DEF NoiseOf
<1>3. CASE credit[t] # None
  <2> DEFINE c == services[t].counter
  <2>1. /\ services[t] # None /\ credit[t] \in Int
        /\ c.offset \in Int /\ c.source \in Int /\ c.published \in Int
        /\ c.published <= credit[t] + polled[t]
        /\ c.offset + meter[t] <= credit[t] + delivered[t]
    BY <1>3, NoiseTypes DEF NoiseOf, Running, Service, Counter
  <2> DEFINE o == c.offset
             k == credit[t]
             u == c.published
             m == meter[t]
             n == meter'[t]
             d == delivered[t]
             e == delivered'[t]
  <2>2. /\ o \in Int /\ k \in Int /\ u \in Int
        /\ m \in Nat /\ n \in Nat /\ d \in Nat /\ e \in Nat
        /\ o + m <= k + d
        /\ \/ n = m + 1 /\ e = d + 1
           \/ n = Lowest /\ e = d
        /\ Lowest <= m /\ Lowest \in Nat /\ u <= k + d
    <3>1. polled[t] \in Nat /\ polled[t] <= d /\ u <= k + polled[t]
      BY <1>0, <2>1
    <3>2. d \in Nat /\ u \in Int /\ k \in Int
      BY <1>0, <2>1
    <3> HIDE DEF o, k, u, m, n, d, e
    <3>3. u <= k + d
      BY <3>1, <3>2
    <3> QED BY <1>0, <1>1, <2>1, <3>3 DEF o, k, u, m, n, d, e
  <2> HIDE DEF o, k, u, m, n, d, e
  <2>3. o + n <= k + e
    BY <2>2, SMTT(30)
  <2>4. Fell(t)' => Room(t)'
    <3>1. CASE n = m + 1 /\ e = d + 1
      <4>1. Fell(t)' => Fell(t)
        BY <1>0, <2>1, <3>1 DEF Fell, m, n
      <4>2. u + m - Lowest <= k + d => u + n - Lowest <= k + e
        BY <2>2, <3>1, SMTT(30)
      <4> QED BY <1>3, <4>1, <4>2 DEF NoiseOf, Running, Room, u, k, m, n, d, e
    <3>2. CASE n = Lowest /\ e = d
      <4>1. u + n - Lowest <= k + e
        BY <2>2, <3>2
      <4> QED BY <4>1 DEF Room, u, k, n, e
    <3> QED BY <2>2, <3>1, <3>2
  <2>5. Running(t)'
    BY <1>3, <2>3, <2>4 DEF NoiseOf, Running, o, k, n, e
  <2> QED BY <1>1, <1>3, <1>4, <2>5 DEF NoiseOf
<1> QED BY <1>2, <1>3

\* The environment.
LEMMA NoiseEnvironment ==
    ASSUME SyncInv, NoisyMeters, NoiseInv, Environment
    PROVE  NoiseInv'
<1>1. /\ UNCHANGED <<glitches, polled, credit, shown, disk, services>>
      /\ UNCHANGED <<pc, poll, report, pos>>
  BY DEF Environment, Charge, MeterReset, LegacyPublishes, Reconfigure,
         NameTaken, NameReleased, tickVars, serviceVars, historyVars, storeVars,
         evccVars, NoisyMeters
<1>2. \A t : Due(t)' <=> Due(t)
  BY <1>1 DEF Due
<1>3. /\ meter \in [Titles -> Nat] /\ delivered \in [Titles -> 0 .. MaxDelivered]
  BY DEF SyncInv, SyncTypeOK
<1>4. ASSUME NEW u \in Titles, Charge(u) \/ MeterReset(u), NEW t \in Titles
      PROVE  NoiseOf(t)'
  <2>1. NoiseOf(t)
    BY DEF NoiseInv
  <2>2. CASE t = u
    <3>1. \/ meter'[t] = meter[t] + 1 /\ delivered'[t] = delivered[t] + 1
          \/ meter'[t] = Lowest /\ delivered'[t] = delivered[t]
      BY <1>3, <1>4, <2>2 DEF Charge, MeterReset, Lowest
    <3> QED BY <1>1, <1>2, <2>1, <3>1, MeterMoves
  <2>3. CASE t # u
    <3>1. meter'[t] = meter[t] /\ delivered'[t] = delivered[t]
      BY <1>3, <1>4, <2>3 DEF Charge, MeterReset
    <3> QED BY <1>1, <1>2, <2>1, <3>1, NoiseKept DEF SameService, SamePlace
  <2> QED BY <2>2, <2>3
<1>5. CASE \E u \in Titles : Charge(u) \/ MeterReset(u)
  BY <1>1, <1>4, <1>5 DEF NoiseInv, Answered, AtUnique, Title
<1>6. CASE ~ \E u \in Titles : Charge(u) \/ MeterReset(u)
  <2>1. UNCHANGED <<meter, delivered>>
    BY <1>6 DEF Environment, LegacyPublishes, NoisyMeters, Reconfigure,
       NameTaken, NameReleased, evccVars
  <2> QED BY <1>1, <2>1, NoiseUntouched
<1> QED BY <1>5, <1>6

\* What EVCC may answer of a meter that is not sound.
LEMMA NoisyReports ==
    ASSUME SyncInv, NoisyMeters, NEW t \in Titles, meter[t] >= Lowest,
           NEW a \in Reports(t)
    PROVE  /\ ~a.connected /\ a.import \in Nat
           /\ \/ a.import = meter[t]
              \/ a.import = 0 /\ credit[t] # None
              \/ /\ credit[t] # None /\ glitches[t] + 1 < Confirmations
                 /\ a.import >= Lowest /\ a.import < meter[t]
<1>0. meter[t] \in Nat /\ Lowest \in Nat /\ ZeroKwh \in Nat
  BY NoiseTypes
<1>1. \A v \in Nat : OfMeter(v).import = v /\ ~OfMeter(v).connected
  BY DEF OfMeter
<1>2. \/ a = SoundReport(t) \/ a \in NullReports(t) \/ a \in GlitchReports(t)
  BY DEF Reports, NoisyMeters
<1>3. CASE a = SoundReport(t)
  BY <1>0, <1>1, <1>3 DEF SoundReport
<1>4. CASE a \in NullReports(t)
  BY <1>0, <1>1, <1>4 DEF NullReports, NullReport
<1>5. CASE a \in GlitchReports(t)
  <2>1. /\ credit[t] # None /\ glitches[t] + 1 < Confirmations
        /\ \E v \in ZeroKwh + 1 .. meter[t] - 1 : a = OfMeter(v)
    BY <1>5 DEF GlitchReports
  <2>2. PICK v \in ZeroKwh + 1 .. meter[t] - 1 : a = OfMeter(v)
    BY <2>1
  <2>3. v \in Nat /\ v >= Lowest /\ v < meter[t]
    BY <1>0, <2>2 DEF Lowest
  <2> QED BY <1>1, <2>1, <2>2, <2>3
<1> QED BY <1>2, <1>3, <1>4, <1>5

\* An answer.
LEMMA NoisePoll ==
    ASSUME SyncInv, NoisyMeters, NoiseInv, PollOk
    PROVE  NoiseInv'
<1>1. /\ UNCHANGED <<meter, delivered, credit, shown, disk, services>>
      /\ polled' = delivered /\ poll' = evcc /\ pos' = 1 /\ pc = "idle"
      /\ pc' = IF evcc = <<>> THEN "sweep" ELSE "ensure"
  BY DEF PollOk, Polls, serviceVars, storeVars
<1>2. PICK f \in Answers :
        /\ report' = f
        /\ glitches' = [t \in Titles |->
              IF f[t].import = 0 THEN glitches[t]
              ELSE IF f[t].import < meter[t] THEN glitches[t] + 1
              ELSE 0]
  BY DEF PollOk
<1>3. evcc \in Seq(Titles)
  BY PollIsList
<1>4. ASSUME NEW t \in Titles
      PROVE  /\ ~f[t].connected /\ f[t].import \in Nat
             /\ t \notin Unique(evcc) => f[t].import = 0
             /\ \/ f[t].import = meter[t]
                \/ f[t].import = 0 /\ (t \in Unique(evcc) => credit[t] # None)
                \/ /\ credit[t] # None /\ glitches[t] + 1 < Confirmations
                   /\ f[t].import >= Lowest /\ f[t].import < meter[t]
  <2>1. CASE t \in Unique(evcc)
    <3>1. f[t] \in Reports(t) /\ meter[t] >= Lowest
      BY <2>1 DEF Answers, NoiseInv, NoiseOf
    <3> QED BY <2>1, <3>1, NoisyReports
  <2>2. CASE t \notin Unique(evcc)
    <3>1. f[t] = NullReport
      BY <2>2 DEF Answers
    <3>2. NullReport.import = 0 /\ ~NullReport.connected
      BY DEF NullReport, OfMeter
    <3> QED BY <2>2, <3>1, <3>2
  <2> QED BY <2>1, <2>2
<1>5. ASSUME NEW t \in Titles PROVE ~Due(t) /\ (Due(t)' <=> f[t].import # 0)
  <2>1. ~Due(t)
    BY <1>1 DEF Due
  <2>2. ASSUME f[t].import # 0 PROVE Due(t)'
    <3>1. t \in Unique(evcc)
      BY <1>4, <2>2
    <3>2. PICK i \in DOMAIN evcc : evcc[i] = t
      BY <3>1 DEF Unique
    <3>3. i \in 1 .. Len(evcc) /\ evcc # <<>>
      BY <1>3, <3>2
    <3>4. pc' = "ensure" /\ (i > 1 \/ i = 1)
      BY <1>1, <1>3, <3>3
    <3> QED BY <1>1, <1>2, <2>2, <3>2, <3>4 DEF Due
  <2>3. Due(t)' => f[t].import # 0
    BY <1>2 DEF Due
  <2> QED BY <2>1, <2>2, <2>3
<1>6. ASSUME NEW t \in Titles PROVE NoiseOf(t)'
  <2> DEFINE r == f[t].import
             m == meter[t]
             d == delivered[t]
             p == polled[t]
             k == credit[t]
             q == glitches[t]
             w == glitches'[t]
  <2>0. /\ r \in Nat /\ m \in Nat /\ d \in Nat /\ p \in Nat /\ q \in Nat
        /\ m >= Lowest /\ p <= d /\ q < Confirmations /\ Lowest \in Nat /\ Lowest > 0
        /\ NoiseOf(t) /\ Confirmations \in Nat
        /\ report'[t] = f[t] /\ ~f[t].connected /\ polled'[t] = d
    BY <1>1, <1>2, <1>4, NoiseTypes DEF NoiseInv, NoiseOf
  <2>1. w = IF r = 0 THEN q ELSE IF r < m THEN q + 1 ELSE 0
    BY <1>2
  <2>2. \/ r = m /\ w = 0
        \/ r = 0 /\ w = q
        \/ r # 0 /\ k # None /\ r >= Lowest /\ r < m /\ w = q + 1 /\ w < Confirmations
    <3>1. \/ r = m \/ r = 0
          \/ k # None /\ q + 1 < Confirmations /\ r >= Lowest /\ r < m
      BY <1>4
    <3> HIDE DEF r, m, k, q, w
    <3> QED BY <2>0, <2>1, <3>1
  <2>3. w < Confirmations /\ r <= m /\ (r # 0 => r >= Lowest)
    <3> HIDE DEF r, m, k, q, w
    <3> QED BY <2>0, <2>2
  <2>4. CASE k = None
    <3>1. q = 0
      BY <2>0, <2>4 DEF NoiseOf, Unread
    <3>2. w = 0 /\ (r # 0 => r = m)
      <4> HIDE DEF r, m, k, q, w
      <4> QED BY <2>2, <2>4, <3>1
    <3>3. Unread(t)'
      BY <1>1, <2>0, <2>4, <3>2 DEF NoiseOf, Unread
    <3>4. r # 0 => m <= r + (d - d) /\ ~(m < r)
      <4> HIDE DEF r, m, d
      <4> QED BY <2>0, <3>2
    <3>5. InFlight(t)'
      BY <1>1, <1>5, <2>0, <2>3, <2>4, <3>4 DEF InFlight
    <3> QED BY <1>1, <2>0, <2>3, <2>4, <3>3, <3>5 DEF NoiseOf
  <2>5. CASE k # None
    <3> DEFINE c == services[t].counter
               o == c.offset
               u == c.published
               v == c.source
               l == c.low
               s == shown[t]
    <3>1. /\ k \in Int /\ o \in Int /\ u \in Int /\ v \in Int /\ l \in Nat /\ s \in Int
          /\ Running(t) /\ u <= k + p /\ o + m <= k + d /\ s <= k + p
      <4>1. Running(t)
        BY <2>0, <2>5 DEF NoiseOf
      <4>2. k \in Int /\ services[t] \in Service
        BY <2>5, <4>1, NoiseTypes DEF Running
      <4>3. s \in Int
        BY <4>1, <4>2 DEF Running, Service
      <4> QED BY <4>1, <4>2, <4>3 DEF Running, Service, Counter
    <3>2. /\ m < v \/ l > q => u + m - Lowest <= k + d
      BY <1>5, <3>1 DEF Running, Fell, Room
    <3>3. /\ u <= k + d /\ s <= k + d
          /\ r + o <= k + d /\ ~(m < r)
          /\ \/ m < v
             \/ r = 0 /\ l > w
             \/ r # 0 /\ w = 0 /\ r < v
             \/ r # 0 /\ w > 0 /\ l >= w
             => u + m - Lowest <= k + d
      <4> DEFINE C == u + m - Lowest <= k + d
      <4> HIDE DEF r, m, d, p, k, q, w, o, u, v, l, s
      <4>1. u <= k + d /\ s <= k + d /\ r + o <= k + d /\ ~(m < r)
        BY <2>0, <2>3, <3>1
      <4>2. w \in Nat
        BY <2>0, <2>2
      <4> HIDE DEF C
      <4>3. m < v \/ l > q => C
        BY <3>2 DEF C
      <4>4. ASSUME \/ m < v
                   \/ r = 0 /\ l > w
                   \/ r # 0 /\ w = 0 /\ r < v
                   \/ r # 0 /\ w > 0 /\ l >= w
            PROVE  C
        <5>1. CASE r = m /\ w = 0
          BY <2>0, <3>1, <4>3, <4>4, <5>1
        <5>2. CASE r = 0 /\ w = q
          BY <2>0, <3>1, <4>3, <4>4, <5>2
        <5>3. CASE r # 0 /\ w = q + 1
          BY <2>0, <3>1, <4>3, <4>4, <5>3
        <5> QED BY <2>2, <5>1, <5>2, <5>3
      <4> QED BY <4>1, <4>4 DEF C
    <3>4. Fell(t)' => Room(t)'
      BY <1>1, <1>2, <1>5, <3>3 DEF Fell, Room
    <3>5. Running(t)'
      BY <1>1, <3>1, <3>3, <3>4 DEF Running
    <3>6. InFlight(t)'
      BY <1>1, <1>5, <2>0, <2>3, <2>5, <3>3 DEF InFlight
    <3> QED BY <1>1, <2>0, <2>3, <2>5, <3>5, <3>6 DEF NoiseOf
  <2> QED BY <2>4, <2>5
<1>7. Answered'
  <2>1. ASSUME NEW t \in Titles
        PROVE  /\ t \notin Unique(evcc) => f[t].import = 0
               /\ t \in Unique(evcc) => f[t].import # 0 \/ credit[t] # None
    <3>1. meter[t] # 0
      BY NoiseTypes DEF NoiseInv, NoiseOf
    <3> QED BY <1>4, <3>1
  <2> QED BY <1>1, <1>2, <2>1 DEF Answered
<1>8. pc' \in {"sweep", "ensure"}
  BY <1>1
<1> QED BY <1>6, <1>7, <1>8 DEF NoiseInv, AtUnique

-------------------------------------------------------------------------------
(***************************************************************************)
(* The steps that write a record or start a service.                       *)
(***************************************************************************)
\* A fresh record for a title that was never shown.
LEMMA NoiseAllocate ==
    ASSUME SyncInv, ReadsWork, NoiseInv, EnsureAllocates
    PROVE  NoiseInv'
<1>1. /\ UNCHANGED <<meter, delivered, glitches, polled, credit, shown, services>>
      /\ UNCHANGED <<poll, report, pos>> /\ pc = "ensure" /\ pc' = "register"
      /\ Title \in Unique(poll) /\ map[Title] = None /\ opened
      /\ services[Title] = None
  BY DEF EnsureAllocates, Allocate, GoTo, evccVars, historyVars, serviceVars, Present
<1>2. PICK di \in DIs :
         Flush([map EXCEPT ![Title] = di],
               [recs EXCEPT ![Title] = FreshRecord(di)], TRUE)
  BY DEF EnsureAllocates, Allocate
<1>3. recs = disk /\ map = Instances(recs) /\ disk \in [Titles -> Record \cup {None}]
  BY <1>1 DEF SyncInv, StoreInv, StoreTypeOK, Files, MemoryMirrorsDisk,
     MapOfRecords, ReadsWork
<1>4. disk' = [disk EXCEPT ![Title] = FreshRecord(di)]
  BY <1>2, <1>3 DEF Flush
<1>5. Title \in Titles
  BY <1>1, TitleType
<1>6. /\ disk'[Title] = FreshRecord(di)
      /\ \A t \in Titles : t # Title => disk'[t] = disk[t]
  BY <1>3, <1>4, <1>5
<1>7. disk[Title] = None
  <2>1. ASSUME disk[Title] # None PROVE FALSE
    <3>1. map[Title] = disk[Title].di /\ disk[Title].di \in DIs
      BY <1>3, <1>5, <2>1 DEF Instances, Record
    <3>2. disk[Title].di \in Nat
      BY <3>1, DIsAssumption
    <3>3. None \notin Nat
      BY NoneAssumption
    <3> QED BY <1>1, <3>1, <3>2, <3>3
  <2> QED BY <2>1
<1>8. \A t \in Titles : Due(t)' <=> Due(t)
  BY <1>1, StayDue
<1>9. ASSUME NEW t \in Titles, t # Title PROVE NoiseOf(t)'
  BY <1>1, <1>6, <1>8, <1>9, NoiseKept DEF NoiseInv, SameService, SamePlace
<1>10. ASSUME NEW t \in Titles, t = Title PROVE NoiseOf(t)'
  <2>1. /\ NoiseOf(t) /\ services[t] = None /\ disk[t] = None
        /\ disk'[t] = FreshRecord(di)
    BY <1>1, <1>6, <1>7, <1>10 DEF NoiseInv
  <2>2. credit[t] = None /\ shown[t] = None
    BY <2>1 DEF NoiseOf, Running, Unread
  <2>3. NeverRead(FreshRecord(di), None) /\ FreshRecord(di) # None
    <3>1. FreshRecord(di) \in Record
      BY DEF FreshRecord, Record
    <3> QED BY <3>1, NoRecordAssumption DEF NeverRead, FreshRecord
  <2>4. Unread(t)'
    BY <1>1, <2>1, <2>2, <2>3 DEF NoiseOf, Unread
  <2>5. InFlight(t)'
    BY <1>1, <1>8, <2>1, <2>2 DEF NoiseOf, InFlight
  <2> QED BY <1>1, <2>1, <2>2, <2>4, <2>5 DEF NoiseOf
<1> QED BY <1>1, <1>9, <1>10 DEF NoiseInv, Answered, AtUnique, Title

\* A new service has the counter of the file, which was not read before.
LEMMA NoiseRegister ==
    ASSUME SyncInv, TickInv, ReadsWork, NoiseInv, Register
    PROVE  NoiseInv'
<1>1. /\ UNCHANGED <<meter, delivered, glitches, polled, credit, shown, disk>>
      /\ UNCHANGED <<poll, report, pos>> /\ pc = "register" /\ pc' = "update"
      /\ services' = [services EXCEPT ![Title] = NewService(Title)]
  BY DEF Register, GoTo, evccVars, storeVars
<1>2. Title \in Titles /\ map[Title] # None /\ services[Title] = None
  BY <1>1, TitleType DEF SyncInv, Control, TickInv, TickPlace, Present
<1>3. map = Instances(recs) /\ recs = disk
  BY <1>1 DEF SyncInv, StoreInv, MapOfRecords, MemoryMirrorsDisk, Control, ReadsWork
<1>4. disk[Title] # None
  BY <1>2, <1>3 DEF Instances
<1>5. NewService(Title).counter = FromDict(disk[Title])
      /\ NewService(Title).forward = 0
  BY <1>3, <1>4 DEF NewService, EnergyCounterOf
<1> HIDE DEF NewService
<1>6. \A t \in Titles : /\ t # Title => services'[t] = services[t]
                        /\ t = Title => services'[t] = NewService(Title)
  BY <1>1, <1>2 DEF SyncInv, SyncTypeOK
<1>7. \A t \in Titles : Due(t)' <=> Due(t)
  BY <1>1, StayDue
<1>8. ASSUME NEW t \in Titles, t # Title PROVE NoiseOf(t)'
  BY <1>1, <1>6, <1>7, <1>8, NoiseKept DEF NoiseInv, SameService, SamePlace
<1>9. ASSUME NEW t \in Titles, t = Title PROVE NoiseOf(t)'
  <2>1. /\ NoiseOf(t) /\ services[t] = None /\ disk[t] # None
        /\ services'[t].counter = FromDict(disk[t]) /\ services'[t].forward = 0
    BY <1>2, <1>4, <1>5, <1>6, <1>9 DEF NoiseInv
  <2>2. credit[t] = None
    BY <2>1 DEF NoiseOf, Running
  <2>3. NeverRead(disk[t], shown[t])
    BY <2>1, <2>2 DEF NoiseOf, Unread
  <2>4. NeverRead(FromDict(disk[t]), shown[t])
        /\ FromDict(disk[t]).published = None /\ FromDict(disk[t]).low = 0
    BY <2>3 DEF NeverRead, FromDict
  <2>5. Unread(t)'
    BY <1>1, <2>1, <2>2, <2>3, <2>4 DEF NoiseOf, Unread
  <2>6. InFlight(t)'
    BY <1>1, <1>7, <2>1, <2>2 DEF NoiseOf, InFlight
  <2> QED BY <1>1, <2>1, <2>2, <2>5, <2>6 DEF NoiseOf
<1> QED BY <1>1, <1>8, <1>9 DEF NoiseInv, Answered, AtUnique, Title

\* A save touches the file, and the flag of the counter that is saved.
LEMMA NoiseSave ==
    ASSUME SyncInv, ReadsWork, NoiseInv, Save
    PROVE  NoiseInv'
<1> DEFINE c == CounterOf(Title)
           clean == [services[Title] EXCEPT !.counter.dirty = FALSE]
<1>1. /\ UNCHANGED <<meter, delivered, glitches, polled, credit, shown>>
      /\ UNCHANGED <<poll, report>> /\ pc = "save" /\ pc' \in {"ensure", "sweep"}
      /\ NextLoadpoint
  BY DEF Save, NextLoadpoint, evccVars, historyVars
<1>2. Title \in Titles /\ credit[Title] # None /\ services[Title] # None
      /\ services[Title] \in Service
  <2>1. Title \in Titles /\ credit[Title] # None
    BY <1>1, TitleType DEF NoiseInv
  <2> QED BY <2>1, SeriesTypes DEF NoiseInv, NoiseOf, Running
<1>3. ASSUME NEW t \in Titles PROVE SamePlace(t)
  BY <1>1, NextDue DEF SamePlace
<1>4. ASSUME NEW t \in Titles PROVE SameService(t) /\ (t # Title => disk'[t] = disk[t])
  <2>1. CASE services' = services /\ disk' = disk
    BY <2>1 DEF SameService
  <2>2. CASE SaveEnergy(Title, c, TRUE)
             /\ services' = [services EXCEPT ![Title] = clean]
    <3>1. disk' = [recs EXCEPT ![Title] = WithCounter(recs[Title], c)] /\ opened
      BY <2>2 DEF SaveEnergy, Flush, Saveable
    <3>2. recs = disk /\ disk \in [Titles -> Record \cup {None}]
      BY <3>1 DEF SyncInv, StoreInv, StoreTypeOK, Files, MemoryMirrorsDisk, ReadsWork
    <3>3. /\ clean.counter.offset = services[Title].counter.offset
          /\ clean.counter.adopt = services[Title].counter.adopt
          /\ clean.counter.source = services[Title].counter.source
          /\ clean.counter.published = services[Title].counter.published
          /\ clean.counter.low = services[Title].counter.low
          /\ clean.forward = services[Title].forward
          /\ clean \in Service
      BY <1>2 DEF Service, Counter
    <3> HIDE DEF c, clean
    <3>4. CASE t = Title
      <4>1. services'[t] = clean
        BY <1>2, <2>2, <3>4 DEF SyncInv, SyncTypeOK
      <4> QED BY <1>2, <3>3, <3>4, <4>1, NoServiceAssumption DEF SameService
    <3>5. CASE t # Title
      <4>1. services'[t] = services[t] /\ disk'[t] = disk[t]
        BY <2>2, <3>1, <3>2, <3>5 DEF SyncInv, SyncTypeOK
      <4> QED BY <3>5, <4>1 DEF SameService
    <3> QED BY <3>4, <3>5
  <2> QED BY <2>1, <2>2 DEF Save, SaveEnergy, Flush, AfterFailedFlush, storeVars
<1>5. ASSUME NEW t \in Titles PROVE NoiseOf(t)'
  <2>1. disk'[t] = disk[t] \/ credit[t] # None
    BY <1>2, <1>4
  <2> QED BY <1>1, <1>3, <1>4, <2>1, NoiseKept DEF NoiseInv
<1> QED BY <1>1, <1>5 DEF NoiseInv, Answered, AtUnique

-------------------------------------------------------------------------------
(***************************************************************************)
(* The update applies the reading, and the title has none due any more.    *)
(***************************************************************************)
\* The counter after the reading, and what is shown of it.
Applies(t) ==
    /\ services'[t].counter = AfterReading(services[t].counter, report[t].import)
    /\ services'[t].forward = Larger(Held(services'[t].counter), services[t].forward)
    /\ shown'[t] = services'[t].forward
    /\ credit'[t] = IF credit[t] # None THEN credit[t]
                    ELSE (IF shown[t] # None THEN shown[t] ELSE shown'[t]) - polled[t]

\* The loadpoint the walk is at, with a reading or without one; no other.
LEMMA NoiseApplies ==
    ASSUME SyncInv, NoiseInv, Update, NEW t \in Titles
    PROVE  /\ t = Title => /\ services[t] \in Service /\ services'[t] \in Service
                           /\ \/ report[t].import = 0 /\ Silent(t)
                              \/ report[t].import # 0 /\ Applies(t)
           /\ t # Title => UNCHANGED <<services[t], shown[t], credit[t]>>
<1> DEFINE svc == Updated(services[t], report[t])
           j == IF credit[t] # None THEN credit[t]
                ELSE (IF shown[t] # None THEN shown[t] ELSE svc.forward) - polled[t]
<1>1. /\ pc = "update"
      /\ services' = [services EXCEPT ![Title] = Updated(services[Title], report[Title])]
      /\ shown' = [shown EXCEPT ![Title] =
                      Updated(services[Title], report[Title]).forward]
      /\ credit' = [credit EXCEPT ![Title] =
            IF credit[Title] # None THEN credit[Title]
            ELSE (IF shown[Title] # None THEN shown[Title]
                  ELSE Updated(services[Title], report[Title]).forward)
                 - polled[Title]]
  BY DEF Update
<1>2. /\ services \in [Titles -> Service \cup {None}]
      /\ shown \in [Titles -> Int \cup {None}]
      /\ credit \in [Titles -> Int \cup {None}]
  BY DEF SyncInv, SyncTypeOK
<1>3. ASSUME t # Title PROVE UNCHANGED <<services[t], shown[t], credit[t]>>
  BY <1>1, <1>2, <1>3
<1>4. ASSUME t = Title
      PROVE  /\ services[t] \in Service /\ services'[t] \in Service
             /\ \/ report[t].import = 0 /\ Silent(t)
                \/ report[t].import # 0 /\ Applies(t)
  <2>1. /\ services[t] \in Service /\ report[t] \in Report /\ report[t].import \in Nat
        /\ ~report[t].connected /\ t \in Unique(poll)
    BY <1>1, <1>4, SeriesTypes, NoiseTypes
       DEF SyncInv, Control, Present, SyncTypeOK, NoiseInv, NoiseOf, AtUnique
  <2>2. services'[t] = svc /\ shown'[t] = svc.forward /\ credit'[t] = j
    <3> HIDE DEF svc
    <3>1. /\ services' = [services EXCEPT ![t] = svc]
          /\ shown' = [shown EXCEPT ![t] = svc.forward]
          /\ credit' = [credit EXCEPT ![t] = j]
      BY <1>1, <1>4 DEF svc
    <3> HIDE DEF j
    <3> QED BY <1>2, <3>1
  <2>3. svc \in Service
    BY <2>1, UpdatedType
  <2>4. /\ svc.counter = CounterAfter(services[t].counter, report[t])
        /\ svc.forward = IF Candidate(report[t]) = None THEN services[t].forward
                         ELSE Larger(Held(svc.counter), services[t].forward)
    BY <2>1 DEF Updated, Service
  <2> HIDE DEF svc
  <2>5. CASE report[t].import # 0
    <3>1. Candidate(report[t]) = report[t].import /\ Candidate(report[t]) # None
      BY <2>1, <2>5, NoneAssumption DEF Candidate
    <3>2. Applies(t)
      BY <2>2, <2>4, <3>1 DEF Applies, CounterAfter
    <3> QED BY <2>1, <2>2, <2>3, <2>5, <3>2
  <2>6. CASE report[t].import = 0
    <3>1. Candidate(report[t]) = None
      BY <2>1, <2>6 DEF Candidate
    <3>2. credit[t] # None
      BY <1>1, <2>1, <2>6 DEF NoiseInv, Answered
    <3>3. Silent(t)
      BY <2>2, <2>4, <3>1, <3>2 DEF Silent, CounterAfter
    <3> QED BY <2>1, <2>2, <2>3, <2>6, <3>3
  <2> QED BY <2>5, <2>6
<1> QED BY <1>3, <1>4

\* Once the walk has been at a title, no reading of it is due.
LEMMA UpdateDue ==
    ASSUME SyncInv, NoiseInv, Update, NEW t \in Titles
    PROVE  /\ t = Title => (Due(t) <=> report[t].import # 0) /\ ~Due(t)'
           /\ t # Title => (Due(t)' <=> Due(t))
<1>1. UNCHANGED <<poll, report, pos>> /\ pc = "update" /\ pc' = "save"
  BY DEF Update, GoTo
<1>2. pos \in 1 .. Len(poll) /\ poll \in Seq(Titles) /\ Title \in Unique(poll)
  BY <1>1, TitleType DEF NoiseInv, AtUnique
<1>3. pos \in DOMAIN poll /\ pos \in Nat /\ DOMAIN poll \subseteq Nat
  BY <1>2
<1>4. \A i \in DOMAIN poll : poll[i] = Title => i = pos
  BY <1>2, <1>3 DEF Unique, Title
<1>5. CASE t = Title
  <2>1. Due(t) <=> report[t].import # 0
    BY <1>1, <1>3, <1>5 DEF Due, Title
  <2>2. ~Due(t)'
    <3>1. \A i \in DOMAIN poll : poll[i] = t => ~(i > pos)
      BY <1>3, <1>4, <1>5
    <3> QED BY <1>1, <3>1 DEF Due
  <2> QED BY <1>5, <2>1, <2>2
<1>6. CASE t # Title
  BY <1>1, <1>6 DEF Due, Title
<1> QED BY <1>5, <1>6

\* The numbers of the title the reading is applied to.
LEMMA AppliedNoise ==
    ASSUME SyncInv, NEW t \in Titles, NoiseOf(t), Applies(t),
           services[t] \in Service, Due(t)
    PROVE  LET n == services'[t].counter
               d == delivered[t]
           IN  /\ credit'[t] \in Int /\ shown'[t] \in Int
               /\ Level(n, meter[t], credit'[t], polled[t], d)
               /\ shown'[t] <= credit'[t] + polled[t]
               /\ shown[t] # None => shown'[t] >= shown[t]
               /\ meter[t] < n.source \/ n.low > glitches[t]
                  => RoomFor(n, meter[t], credit'[t], d)
<1> DEFINE c == services[t].counter
           f == services[t].forward
           r == report[t].import
           m == meter[t]
           p == polled[t]
           d == delivered[t]
           q == glitches[t]
           k == credit[t]
           s == shown[t]
           n == services'[t].counter
           g == shown'[t]
           j == credit'[t]
<1>1. /\ c \in Counter /\ f \in Int /\ r \in Int /\ m \in Int /\ p \in Int /\ d \in Int
      /\ q \in Nat /\ q < Confirmations /\ k \in Int \cup {None}
      /\ s \in Int \cup {None} /\ services[t] # None
      /\ r >= Lowest /\ p <= d /\ (m < r => m - Lowest <= d - p)
  BY NoiseTypes DEF Service, NoiseOf, InFlight
<1>2. /\ n = AfterReading(c, r) /\ g = Larger(Held(n), f)
      /\ j = IF k # None THEN k ELSE (IF s # None THEN s ELSE g) - p
  BY DEF Applies
<1>3. CASE k = None
  <2>1. /\ NeverRead(c, s) /\ c.published = None /\ c.low = 0 /\ f = 0
        /\ m <= r + (d - p)
    BY <1>1, <1>3 DEF NoiseOf, Unread, InFlight
  <2> HIDE DEF c, f, r, m, p, d, q, k, s, n, g, j
  <2>2. Begins(c, r, p, s, n, g, j)
    BY <1>2, <1>3, <2>1 DEF Begins
  <2>3. /\ j \in Int /\ g \in Int /\ g <= j + p
        /\ s # None => g >= s
        /\ Level(n, m, j, p, d) /\ n.low = 0
        /\ m < n.source => RoomFor(n, m, j, d)
    <3>1. /\ c \in Counter /\ r \in Int /\ m \in Int /\ p \in Int /\ d \in Int
          /\ s \in Int \cup {None} /\ Since(r, m, p, d)
          /\ NeverRead(c, s) /\ c.published = None /\ c.low = 0
      BY <1>1, <2>1 DEF Since
    <3> QED BY <2>2, <3>1, NoisyFirst
  <2>4. ~(n.low > q)
    BY <1>1, <2>3
  <2> QED BY <2>3, <2>4 DEF c, f, r, m, p, d, q, k, s, n, g, j
<1>4. CASE k # None
  <2>1. /\ Running(t) /\ k \in Int /\ s = f /\ s <= k + p
        /\ r + c.offset <= k + p
        /\ Level(c, m, k, p, d)
    BY <1>1, <1>4, NoiseTypes DEF NoiseOf, Running, InFlight, Level
  <2>2. \/ m < c.source
        \/ q = 0 /\ r < c.source
        \/ q > 0 /\ c.low >= q
        => RoomFor(c, m, k, d)
    BY <2>1 DEF Running, Fell, Room, RoomFor
  <2> HIDE DEF c, f, r, m, p, d, q, k, s, n, g, j
  <2>3. /\ Level(n, m, k, p, d)
        /\ m < n.source \/ n.low > q => RoomFor(n, m, k, d)
    BY <1>1, <1>2, <2>1, <2>2, NoisyReading
  <2>4. n \in Counter
    BY <1>1, <1>2, AfterReadingType
  <2>5. n.published \in Int /\ n.published <= k + p
    BY <2>3, <2>4 DEF Level, Counter
  <2>6. g \in Int /\ g >= s /\ g <= k + p
    BY <1>1, <1>2, <2>1, <2>3, <2>5 DEF Larger, Held, Level
  <2>7. j = k
    BY <1>2, <1>4
  <2> QED BY <2>1, <2>3, <2>6, <2>7 DEF c, f, r, m, p, d, q, k, s, n, g, j
<1> QED BY <1>3, <1>4

\* An update.
LEMMA NoiseUpdate ==
    ASSUME SyncInv, NoiseInv, Update
    PROVE  /\ NoiseInv'
           /\ \A t \in Titles : shown[t] # None => shown'[t] >= shown[t]
<1>1. /\ UNCHANGED <<meter, delivered, glitches, polled, disk>>
      /\ UNCHANGED <<poll, report, pos>> /\ pc = "update" /\ pc' = "save"
  BY DEF Update, GoTo, evccVars, storeVars
<1>2. Title \in Titles /\ Title \in Unique(poll)
  BY <1>1, TitleType DEF NoiseInv, AtUnique
<1>3. ASSUME NEW t \in Titles, t # Title
      PROVE  /\ NoiseOf(t)' /\ credit'[t] = credit[t]
             /\ shown[t] # None => shown'[t] >= shown[t]
  <2>1. UNCHANGED <<services[t], shown[t], credit[t]>>
    BY <1>3, NoiseApplies
  <2>2. Due(t)' <=> Due(t)
    BY <1>3, UpdateDue
  <2>3. NoiseOf(t)'
    BY <1>1, <2>1, <2>2, NoiseKept DEF NoiseInv, SameService, SamePlace
  <2>4. shown[t] # None => shown[t] \in Int
    BY NoiseTypes
  <2> QED BY <2>1, <2>3, <2>4
<1>4. ASSUME NEW t \in Titles, t = Title
      PROVE  /\ NoiseOf(t)' /\ credit'[t] # None
             /\ shown[t] # None => shown'[t] >= shown[t]
  <2>1. /\ NoiseOf(t) /\ services[t] \in Service /\ services'[t] \in Service
        /\ services[t] # None /\ services'[t] # None
        /\ \/ report[t].import = 0 /\ Silent(t)
           \/ report[t].import # 0 /\ Applies(t)
    BY <1>4, NoiseApplies DEF NoiseInv
  <2>2. (Due(t) <=> report[t].import # 0) /\ ~Due(t)'
    BY <1>4, UpdateDue
  <2>3. CASE report[t].import = 0 /\ Silent(t)
    <3>1. /\ credit[t] # None /\ credit'[t] = credit[t] /\ SameService(t)
          /\ shown'[t] = services[t].forward /\ services[t].forward \in Int
      BY <2>1, <2>3 DEF Silent, SameService, Service
    <3>2. shown'[t] = shown[t] /\ shown'[t] \in Int
      BY <2>1, <3>1 DEF NoiseOf, Running
    <3>3. SamePlace(t)
      BY <2>2, <2>3 DEF SamePlace
    <3>4. NoiseOf(t)'
      BY <1>1, <2>1, <3>1, <3>2, <3>3, NoiseKept
    <3> QED BY <3>1, <3>2, <3>4
  <2>4. CASE report[t].import # 0 /\ Applies(t)
    <3> DEFINE n == services'[t].counter
    <3>1. /\ credit'[t] \in Int /\ shown'[t] \in Int
          /\ Level(n, meter[t], credit'[t], polled[t], delivered[t])
          /\ shown'[t] <= credit'[t] + polled[t]
          /\ shown[t] # None => shown'[t] >= shown[t]
          /\ meter[t] < n.source \/ n.low > glitches[t]
             => RoomFor(n, meter[t], credit'[t], delivered[t])
      BY <2>1, <2>2, <2>4, AppliedNoise
    <3>2. credit'[t] # None
      BY <3>1, NoneAssumption
    <3>3. Fell(t)' => Room(t)'
      BY <1>1, <2>2, <3>1 DEF Fell, Room, RoomFor
    <3>4. shown'[t] = services'[t].forward
      BY <2>4 DEF Applies
    <3>5. Running(t)'
      BY <1>1, <2>1, <3>1, <3>3, <3>4 DEF Running, Level
    <3>6. InFlight(t)'
      BY <2>2 DEF InFlight
    <3> QED BY <1>1, <2>1, <3>1, <3>2, <3>5, <3>6 DEF NoiseOf
  <2> QED BY <2>1, <2>3, <2>4
<1>5. Answered'
  <2>1. \A t \in Titles : credit[t] # None => credit'[t] # None
    BY <1>3, <1>4
  <2> QED BY <1>1, <2>1 DEF NoiseInv, Answered
<1>6. AtUnique' /\ credit'[Title'] # None
  BY <1>1, <1>2, <1>4 DEF AtUnique, Title
<1> QED BY <1>3, <1>4, <1>5, <1>6 DEF NoiseInv

-------------------------------------------------------------------------------
(***************************************************************************)
(* Every step of the bridge that runs on.                                  *)
(***************************************************************************)
\* At the start nothing was read.
LEMMA NoiseInitial ==
    ASSUME SyncInv, FreshFiles, NoisyMeters, SyncInit
    PROVE  NoiseInv
<1>1. /\ services = NoServices /\ pc = "idle" /\ disk \in InitialFiles
      /\ meter = [t \in Titles |-> FirstMeter]
      /\ delivered = [t \in Titles |-> 0] /\ polled = delivered
      /\ glitches = [t \in Titles |-> 0]
      /\ credit = [t \in Titles |-> None] /\ report = NoReports
      /\ shown = [t \in Titles |-> IF disk[t] = None THEN None ELSE disk[t].adopt]
  BY DEF SyncInit, StoreInit
<1>2. ASSUME NEW t \in Titles PROVE NoiseOf(t)
  <2>1. /\ services[t] = None /\ meter[t] = FirstMeter /\ delivered[t] = 0
        /\ polled[t] = 0 /\ credit[t] = None /\ glitches[t] = 0
        /\ shown[t] = IF disk[t] = None THEN None ELSE disk[t].adopt
        /\ report[t] = NullReport
    BY <1>1 DEF NoServices, NoReports
  <2>2. disk[t] # None => NeverRead(disk[t], shown[t])
    BY <1>1, <2>1 DEF FreshFiles, NeverRead
  <2>3. ~report[t].connected
    BY <2>1 DEF NullReport, OfMeter
  <2>4. meter[t] >= Lowest /\ glitches[t] < Confirmations /\ polled[t] <= delivered[t]
    BY <2>1 DEF NoisyMeters, Lowest
  <2>5. Unread(t)
    BY <2>1, <2>2 DEF Unread
  <2>6. InFlight(t)
    BY <1>1 DEF InFlight, Due
  <2> QED BY <2>1, <2>3, <2>4, <2>5, <2>6 DEF NoiseOf
<1> QED BY <1>1, <1>2 DEF NoiseInv, Answered, AtUnique

\* What does not happen to such a bridge.
LEMMA RunsOn ==
    ASSUME NoisyMeters
    PROVE  ~Crash /\ ~PollMalformed /\ ~AllocateFails
BY DEF NoisyMeters, Crash, PollMalformed, AllocateFails

\* A step keeps the noise accounted for.
LEMMA NoiseStep ==
    ASSUME SyncInv, TickInv, ReadsWork, NoisyMeters, NoiseInv, [SyncNext]_syncVars
    PROVE  NoiseInv'
<1>1. CASE Environment
  BY <1>1, NoiseEnvironment
<1>2. CASE Start \/ PollUnreachable
  <2>1. UNCHANGED <<meter, delivered, glitches, polled, credit, shown, disk,
                    services, pc, poll, report, pos>>
    BY <1>2 DEF Start, Open, OpenUnreadable, Hold, PollUnreachable, evccVars,
       historyVars, storeVars, serviceVars, tickVars
  <2> QED BY <2>1, NoiseUntouched
<1>3. CASE PollOk
  BY <1>3, NoisePoll
<1>4. CASE SkipDuplicate \/ EnsureKnown \/ EnsureExhausted \/ RegisterFails
  BY <1>4, NoiseMovesOn
<1>5. CASE EnsureAllocates
  BY <1>5, NoiseAllocate
<1>6. CASE Register
  BY <1>6, NoiseRegister
<1>7. CASE Update
  BY <1>7, NoiseUpdate
<1>8. CASE Save
  BY <1>8, NoiseSave
<1>9. CASE Sweep
  BY <1>9, NoiseSweep
<1>10. CASE UNCHANGED syncVars
  <2>1. UNCHANGED <<meter, delivered, glitches, polled, credit, shown, disk,
                    services, pc, poll, report, pos>>
    BY <1>10 DEF syncVars, evccVars, historyVars, storeVars, tickVars, serviceVars
  <2> QED BY <2>1, NoiseUntouched
<1> QED BY RunsOn, <1>1, <1>2, <1>3, <1>4, <1>5, <1>6, <1>7, <1>8, <1>9, <1>10
        DEF SyncNext, Poll, Walk

(***************************************************************************)
(* Whatever the meters answer, the counter of a bridge that runs on counts *)
(* lower readings against the last accepted one, and the reading that      *)
(* moves the offset finds the room the restart of the meter left.          *)
(***************************************************************************)
THEOREM NoiseAccounted ==
    ASSUME ReadsWork, NoisyMeters, FreshFiles
    PROVE  SyncSpec => []NoiseInv
<1>1. SyncInit /\ SyncInv => NoiseInv
  BY NoiseInitial
<1>2. NoiseInv /\ SyncInv /\ TickInv /\ [SyncNext]_syncVars => NoiseInv'
  BY NoiseStep
<1> QED BY <1>1, <1>2, SyncInvariant, TickInvariant, PTL DEF SyncSpec

(***************************************************************************)
(* VRM books no energy that was not delivered, whatever a meter answers:   *)
(* a few lower readings, none, or the readings of a meter that restarted   *)
(* (energy.py, RESET_CONFIRMATIONS and the offset of the reset branch).    *)
(***************************************************************************)
THEOREM NoiseBooksNothing ==
    ASSUME ReadsWork, NoisyMeters, FreshFiles
    PROVE  SyncSpec => []NoSpike
<1>1. SyncInv /\ NoiseInv => NoSpike
  <2>1. ASSUME SyncInv, NoiseInv, NEW t \in Titles, credit[t] # None
        PROVE  shown[t] <= credit[t] + delivered[t]
    <3>1. /\ services[t] # None /\ shown[t] = services[t].forward
          /\ shown[t] <= credit[t] + polled[t] /\ polled[t] <= delivered[t]
      BY <2>1 DEF NoiseInv, NoiseOf, Running
    <3>2. /\ delivered[t] \in Nat /\ polled[t] \in Nat
          /\ credit[t] \in Int /\ shown[t] \in Int
      BY <2>1, <3>1, NoiseTypes DEF Service
    <3> QED BY <3>1, <3>2
  <2> QED BY <2>1 DEF NoSpike
<1> QED BY <1>1, NoiseAccounted, SyncInvariant, PTL

(***************************************************************************)
(* Nor does the series fall: no glitch and no restart of the meter makes   *)
(* VRM read less than it read (energy.py, the published value that a       *)
(* reading never undercuts).                                               *)
(***************************************************************************)
THEOREM NoiseNeverFalls ==
    ASSUME ReadsWork, NoisyMeters, FreshFiles
    PROVE  SyncSpec => SeriesNeverFalls
<1> DEFINE Rises == \A t \in Titles : shown[t] # None =>
                       shown'[t] >= shown[t] \/ Readopted(t)
<1>1. SyncInv /\ NoiseInv /\ [SyncNext]_syncVars => [Rises]_syncVars
  <2>1. ASSUME SyncInv, NoiseInv, [SyncNext]_syncVars PROVE Rises
    <3>1. CASE Update
      BY <2>1, <3>1, NoiseUpdate
    <3>2. CASE ~Update
      BY <2>1, <3>2, ShownKept, NoiseTypes
    <3> QED BY <3>1, <3>2
  <2> QED BY <2>1
<1> HIDE DEF Rises
<1>2. SyncSpec => [][Rises]_syncVars
  BY <1>1, SyncInvariant, NoiseAccounted, PTL DEF SyncSpec
<1> QED BY <1>2 DEF SeriesNeverFalls, Rises
================================================================================
