----------------------------- MODULE LoadpointSync -----------------------------
(***************************************************************************)
(* The bridge process (dbus-evcc.py, sync.py, dbus_service.py, evcc_api.py)*)
(* between EVCC, the system bus and state.json.                            *)
(*                                                                         *)
(* A tick polls EVCC once and walks the loadpoints it answered: it makes   *)
(* sure each has a DeviceInstance and a D-Bus service, updates the service *)
(* and saves the energy counter; then it flags the services EVCC no longer *)
(* lists.  The tick is one thread, but EVCC charges on, other processes    *)
(* take bus names and the process may die between any two of its steps, so *)
(* each call that leaves the process is a step of its own.                 *)
(***************************************************************************)
EXTENDS StateStore, Sequences

CONSTANTS
    EvccConfigs,   \* the loadpoint lists EVCC may answer with
    BridgeRange,   \* the configured di_range
    ForeignDIs,    \* instances whose service name others may hold
    Faults,        \* what may go wrong around the bridge, see FaultKinds
    FirstMeter,    \* the meters' reading at the start
    MaxDelivered   \* bound on the energy delivered per loadpoint

FaultKinds == {"crash",        \* the process is killed or restarted
               "unreachable",  \* EVCC does not answer
               "malformed",    \* EVCC answers what the parser raises on
               "hidden",       \* a service's /DeviceInstance is unreadable
               "null",         \* no meter value, nothing plugged in
               "session",      \* no meter value while a vehicle is connected
               "glitch",       \* a few lower readings of a sound meter
               "reset",        \* an EVCC reinstall restarts the meters
               "legacy"}       \* a legacy bridge still runs after the capture

ASSUME SyncAssumption ==
    /\ EvccConfigs \subseteq Seq(Titles)
    /\ BridgeRange \in Ranges
    /\ ForeignDIs \subseteq DIs
    /\ Faults \subseteq FaultKinds
    /\ FirstMeter \in Nat
    /\ MaxDelivered \in Nat

VARIABLES
    evcc,       \* the loadpoint list in EVCC, in its order
    meter,      \* title -> chargeTotalImport
    delivered,  \* title -> energy really delivered since the start
    glitches,   \* title -> faulty readings in a row
    names,      \* instances whose service name another process holds
    loop,       \* main(): not running, in the first tick(), timer, no timer
    pc,         \* the step of tick()
    poll,       \* the titles of the last answer, in its order
    report,     \* title -> what the last answer said of it
    pos,        \* index of the loadpoint the loop is at
    services,   \* _services: title -> service, None if absent
    offline,    \* _offline_titles
    identity,   \* history: the instance a title was first shown with
    shown,      \* history: /Ac/Energy/Forward after the last update
    polled,     \* history: delivered at the moment of the last answer
    credit      \* history: shown - polled when the series began

evccVars    == <<evcc, meter, delivered, glitches>>
historyVars == <<identity, shown, polled, credit>>
tickVars    == <<pc, poll, report, pos>>
serviceVars == <<services, offline>>

syncVars == <<storeVars, evccVars, names, loop, tickVars, serviceVars,
              historyVars>>

Report == [import : Nat, connected : BOOLEAN, session : Nat]

\* A service object and what it shows on the bus.
Service == [di : DIs, connected : BOOLEAN, forward : Int, counter : Counter]

ASSUME NoServiceAssumption == None \notin Service

NoServices == [t \in Titles |-> None]
\* What an answer says of a loadpoint: the meter's value with nothing plugged
\* in (the vehicle matters only without one), or the session's energy.
OfMeter(value)   == [import |-> value, connected |-> FALSE, session |-> 0]
OfSession(value) == [import |-> 0, connected |-> TRUE, session |-> value]

NullReport == OfMeter(0)
NoReports  == [t \in Titles |-> NullReport]

Present(t) == services[t] # None

OwnNames == {services[t].di : t \in {u \in Titles : Present(u)}}

\* The titles a list names exactly once: the others are duplicates.
Unique(list) ==
    {t \in Titles : \E i \in DOMAIN list :
        /\ list[i] = t
        /\ \A j \in DOMAIN list : list[j] = t => j = i}

Larger(a, b) == IF a >= b THEN a ELSE b

-------------------------------------------------------------------------------
\* EVCC and the rest of the bus.

Charge(t) ==
    /\ delivered[t] < MaxDelivered
    /\ delivered' = [delivered EXCEPT ![t] = @ + 1]
    /\ meter' = [meter EXCEPT ![t] = @ + 1]
    /\ UNCHANGED <<evcc, glitches, storeVars, names, loop, tickVars,
                   serviceVars, historyVars>>

\* Before the first start: the counter to adopt is in the file, and the legacy
\* bridge it was read from shows the title on.
LegacyPublishes(t) ==
    /\ "legacy" \in Faults
    /\ loop = "off" /\ identity[t] = None /\ shown[t] # None
    /\ delivered[t] < MaxDelivered
    /\ delivered' = [delivered EXCEPT ![t] = @ + 1]
    /\ meter' = [meter EXCEPT ![t] = @ + 1]
    /\ shown' = [shown EXCEPT ![t] = @ + 1]
    /\ UNCHANGED <<evcc, glitches, storeVars, names, loop, tickVars,
                   serviceVars, identity, polled, credit>>

MeterReset(t) ==
    /\ "reset" \in Faults
    /\ meter[t] > ZeroKwh + 1
    /\ meter' = [meter EXCEPT ![t] = ZeroKwh + 1]
    /\ UNCHANGED <<evcc, delivered, glitches, storeVars, names, loop, tickVars,
                   serviceVars, historyVars>>

Reconfigure(list) ==
    /\ list # evcc
    /\ evcc' = list
    /\ UNCHANGED <<meter, delivered, glitches, storeVars, names, loop, tickVars,
                   serviceVars, historyVars>>

NameTaken(di) ==
    /\ di \notin names \cup OwnNames
    /\ names' = names \cup {di}
    /\ UNCHANGED <<evccVars, storeVars, loop, tickVars, serviceVars,
                   historyVars>>

NameReleased(di) ==
    /\ di \in names
    /\ names' = names \ {di}
    /\ UNCHANGED <<evccVars, storeVars, loop, tickVars, serviceVars,
                   historyVars>>

-------------------------------------------------------------------------------
\* main(): the start and the end of the process.

\* preflight_check_di_collisions: a live service inside the range stops the
\* start, unless its /DeviceInstance cannot be read.
PreflightPasses ==
    \/ "hidden" \in Faults
    \/ names \cap (BridgeRange[1] .. BridgeRange[2]) = {}

\* A file that is invalid for the range raises out of main(): loop stays off.
Start ==
    /\ loop = "off"
    /\ PreflightPasses
    /\ Open(BridgeRange) \/ OpenUnreadable(BridgeRange)
    /\ loop' = "first"
    /\ UNCHANGED <<evccVars, names, tickVars, serviceVars, historyVars>>

\* The process is gone: its connections close and its names with them.
Die ==
    /\ Close
    /\ loop' = "off"
    /\ pc' = "idle" /\ poll' = <<>> /\ report' = NoReports /\ pos' = 0
    /\ services' = NoServices
    /\ offline' = {}
    /\ UNCHANGED <<evccVars, names, historyVars>>

Crash == "crash" \in Faults /\ loop # "off" /\ Die

\* The first tick() is called by main(), the later ones by the GLib timer.
TickReturns == loop' = "armed"

\* An exception that leaves tick(): in the first call it ends main(); in a
\* timer callback GLib drops the source and the main loop runs on without it.
TickRaises ==
    \/ loop = "first" /\ Die
    \/ /\ loop = "armed"
       /\ loop' = "stopped"
       /\ pc' = "idle"
       /\ report' = NoReports
       /\ UNCHANGED <<evccVars, names, storeVars, poll, pos, serviceVars,
                      historyVars>>

-------------------------------------------------------------------------------
\* tick(): the poll.

Polls == loop \in {"first", "armed"} /\ pc = "idle"

SoundReport(t) == OfMeter(meter[t])

\* The value of a meter that was read before goes missing.
NullReports(t) == IF credit[t] # None THEN {NullReport} ELSE {}

\* The session counter is at most what was delivered.
SessionReports(t) == {OfSession(value) : value \in 0 .. delivered[t]}

\* Lower readings, too few in a row to confirm a restart, of a meter that
\* was read before.
GlitchReports(t) ==
    IF credit[t] # None /\ glitches[t] + 1 < Confirmations
    THEN {OfMeter(value) : value \in ZeroKwh + 1 .. meter[t] - 1}
    ELSE {}

Reports(t) ==
    UNION {{SoundReport(t)},
           IF "null" \in Faults THEN NullReports(t) ELSE {},
           IF "session" \in Faults THEN SessionReports(t) ELSE {},
           IF "glitch" \in Faults THEN GlitchReports(t) ELSE {}}

\* One answer, for the whole list, taken at one moment.
Answers == {f \in [Titles -> (UNION {Reports(t) : t \in Titles}) \cup {NullReport}] :
              \A t \in Titles : f[t] \in IF t \in Unique(evcc) THEN Reports(t)
                                         ELSE {NullReport}}

PollOk ==
    /\ Polls
    /\ \E f \in Answers :
          /\ report' = f
          /\ glitches' = [t \in Titles |->
                IF f[t].import = 0 THEN glitches[t]
                ELSE IF f[t].import < meter[t] THEN glitches[t] + 1
                ELSE 0]
    /\ poll' = evcc
    /\ pos' = 1
    /\ pc' = IF evcc = <<>> THEN "sweep" ELSE "ensure"
    /\ polled' = delivered
    /\ UNCHANGED <<evcc, meter, delivered, names, loop, storeVars, serviceVars,
                   identity, shown, credit>>

\* EvccUnreachable: the tick returns, everything shown stays as it was.
PollUnreachable ==
    /\ Polls
    /\ "unreachable" \in Faults
    /\ TickReturns
    /\ UNCHANGED <<evccVars, names, storeVars, tickVars, serviceVars,
                   historyVars>>

\* The parser runs outside of the try: what it raises leaves tick().
PollMalformed ==
    /\ Polls
    /\ "malformed" \in Faults
    /\ TickRaises

-------------------------------------------------------------------------------
\* tick(): one loadpoint of the answer.

Title == poll[pos]

NextLoadpoint ==
    /\ pos' = pos + 1
    /\ pc' = IF pos < Len(poll) THEN "ensure" ELSE "sweep"
    /\ UNCHANGED <<poll, report>>

GoTo(step) == pc' = step /\ UNCHANGED <<poll, report, pos>>

SkipDuplicate ==
    /\ pc = "ensure"
    /\ Title \notin Unique(poll)
    /\ NextLoadpoint
    /\ UNCHANGED <<evccVars, names, loop, storeVars, serviceVars, historyVars>>

EnsureKnown ==
    /\ pc = "ensure"
    /\ Title \in Unique(poll)
    /\ Present(Title) \/ map[Title] # None
    /\ GoTo(IF Present(Title) THEN "update" ELSE "register")
    /\ UNCHANGED <<evccVars, names, loop, storeVars, serviceVars, historyVars>>

EnsureAllocates ==
    /\ pc = "ensure"
    /\ Title \in Unique(poll)
    /\ ~Present(Title)
    /\ Allocate(Title, TRUE)
    /\ GoTo("register")
    /\ UNCHANGED <<evccVars, names, loop, serviceVars, historyVars>>

\* get_or_allocate rolled back and raised OSError: only DeviceInstance-
\* Exhausted is caught.
AllocateFails ==
    /\ pc = "ensure"
    /\ Title \in Unique(poll)
    /\ ~Present(Title)
    /\ "write" \in IoFaults
    /\ map[Title] = None
    /\ Free # {}
    /\ TickRaises

EnsureExhausted ==
    /\ pc = "ensure"
    /\ Title \in Unique(poll)
    /\ ~Present(Title)
    /\ map[Title] = None
    /\ Free = {}
    /\ NextLoadpoint
    /\ UNCHANGED <<evccVars, names, loop, storeVars, serviceVars, historyVars>>

NewService(t) ==
    [di |-> map[t], connected |-> TRUE, forward |-> 0,
     counter |-> EnergyCounterOf(t)]

Register ==
    /\ pc = "register"
    /\ map[Title] \notin names
    /\ services' = [services EXCEPT ![Title] = NewService(Title)]
    /\ identity' = [identity EXCEPT ![Title] =
                       IF @ = None THEN map[Title] ELSE @]
    /\ GoTo("update")
    /\ UNCHANGED <<evccVars, names, loop, storeVars, offline, shown, polled,
                   credit>>

\* Mutant: one failed registration ends the walk.
RegisterFailsBreaks ==
    /\ pc = "register"
    /\ map[Title] \in names
    /\ GoTo("sweep")
    /\ UNCHANGED <<evccVars, names, loop, storeVars, serviceVars, historyVars>>

\* Mutant: the constructor's exception leaves tick().
RegisterFailsRaises ==
    /\ pc = "register"
    /\ map[Title] \in names
    /\ TickRaises

\* Another process holds the name: skipped, tried again at the next tick.
RegisterFails ==
    /\ pc = "register"
    /\ map[Title] \in names
    /\ NextLoadpoint
    /\ UNCHANGED <<evccVars, names, loop, storeVars, serviceVars, historyVars>>

-------------------------------------------------------------------------------
\* LoadpointDbusService.update

\* The raw reading: the meter, else the session of a connected vehicle.
Candidate(r) ==
    IF r.import > 0 THEN r.import
    ELSE IF r.connected THEN r.session
    ELSE None

CounterAfter(c, r) ==
    IF Candidate(r) = None THEN c ELSE AfterReading(c, Candidate(r))

\* Mutant: the energy is zeroed without a reading.
UpdatedZeroing(s, r) ==
    LET c == CounterAfter(s.counter, r)
    IN  [s EXCEPT !.connected = TRUE,
                  !.counter = c,
                  !.forward = IF Candidate(r) = None THEN 0
                              ELSE Larger(Held(c), @)]

Updated(s, r) ==
    LET c == CounterAfter(s.counter, r)
    IN  [s EXCEPT !.connected = TRUE,
                  !.counter = c,
                  !.forward = IF Candidate(r) = None THEN @
                              ELSE Larger(Held(c), @)]

\* Mutant: the edge flag survives the return.
StillOffline(t) == offline

BackOnline(t) == offline \ {t}

\* The title is no longer missing; what VRM reads is the new forward value.
Update ==
    /\ pc = "update"
    /\ LET s == Updated(services[Title], report[Title])
       IN  /\ services' = [services EXCEPT ![Title] = s]
           /\ shown' = [shown EXCEPT ![Title] = s.forward]
           /\ credit' = [credit EXCEPT ![Title] =
                 IF @ # None THEN @
                 ELSE (IF shown[Title] # None THEN shown[Title] ELSE s.forward)
                      - polled[Title]]
    /\ offline' = BackOnline(Title)
    /\ GoTo("save")
    /\ UNCHANGED <<evccVars, names, loop, storeVars, identity, polled>>

-------------------------------------------------------------------------------
\* save_energy, whose exceptions tick() swallows.

CounterOf(t) == services[t].counter

Save ==
    /\ pc = "save"
    /\ \/ /\ SaveEnergy(Title, CounterOf(Title), TRUE)
          /\ services' = [services EXCEPT ![Title].counter.dirty = FALSE]
       \/ /\ SaveEnergy(Title, CounterOf(Title), FALSE)
          /\ UNCHANGED services
       \/ /\ ~Saveable(Title, CounterOf(Title))
          /\ UNCHANGED <<storeVars, services>>
    /\ NextLoadpoint
    /\ UNCHANGED <<evccVars, names, loop, offline, historyVars>>

-------------------------------------------------------------------------------
\* tick(): services EVCC no longer lists, marked on the edge only.

\* Mutant: duplicates count as seen.
GoneFromList ==
    {t \in Titles : Present(t) /\ t \notin {poll[i] : i \in DOMAIN poll} \cup offline}

Gone == {t \in Titles : Present(t) /\ t \notin Unique(poll) \cup offline}

\* Mutant: the paths are cleared to None.
MarkedUnknown(s) == [s EXCEPT !.connected = None, !.forward = None]

MarkedDisconnected(s) == [s EXCEPT !.connected = FALSE]

Sweep ==
    /\ pc = "sweep"
    /\ services' = [t \in Titles |-> IF t \in Gone
                                     THEN MarkedDisconnected(services[t])
                                     ELSE services[t]]
    /\ offline' = offline \cup Gone
    /\ TickReturns
    /\ pc' = "idle"
    /\ report' = NoReports
    /\ UNCHANGED <<evccVars, names, storeVars, poll, pos, historyVars>>

-------------------------------------------------------------------------------
SyncInit ==
    /\ StoreInit
    /\ range = BridgeRange
    /\ evcc \in EvccConfigs
    /\ meter = [t \in Titles |-> FirstMeter]
    /\ delivered = [t \in Titles |-> 0]
    /\ glitches = [t \in Titles |-> 0]
    /\ names = {}
    /\ loop = "off"
    /\ pc = "idle" /\ poll = <<>> /\ pos = 0
    /\ report = NoReports
    /\ services = NoServices
    /\ offline = {}
    /\ identity = NoMap
    \* A counter to adopt is what the legacy service showed last.
    /\ shown = [t \in Titles |-> IF disk[t] = None THEN None ELSE disk[t].adopt]
    /\ polled = delivered
    /\ credit = [t \in Titles |-> None]

Environment ==
    \/ \E t \in Titles : Charge(t) \/ MeterReset(t) \/ LegacyPublishes(t)
    \/ \E list \in EvccConfigs : Reconfigure(list)
    \/ \E di \in ForeignDIs : NameTaken(di) \/ NameReleased(di)

Poll == PollOk \/ PollUnreachable \/ PollMalformed

Walk ==
    \/ SkipDuplicate
    \/ EnsureKnown \/ EnsureAllocates \/ AllocateFails \/ EnsureExhausted
    \/ Register \/ RegisterFails
    \/ Update \/ Save

SyncNext == Environment \/ Start \/ Crash \/ Poll \/ Walk \/ Sweep

SyncSpec == SyncInit /\ [][SyncNext]_syncVars

\* daemontools restarts a bridge that ended, the timer calls tick() again,
\* EVCC answers some of the polls, and a tick runs to its end.
SyncFairness ==
    /\ WF_syncVars(Start)
    /\ WF_syncVars(PollOk)
    /\ WF_syncVars(Walk)
    /\ WF_syncVars(Sweep)

FairSyncSpec == SyncSpec /\ SyncFairness

-------------------------------------------------------------------------------
SyncTypeOK ==
    /\ StoreTypeOK
    /\ evcc \in EvccConfigs
    /\ meter \in [Titles -> Nat]
    /\ delivered \in [Titles -> 0 .. MaxDelivered]
    /\ glitches \in [Titles -> 0 .. Confirmations]
    /\ names \subseteq ForeignDIs
    /\ loop \in {"off", "first", "armed", "stopped"}
    /\ pc \in {"idle", "ensure", "register", "update", "save", "sweep"}
    /\ poll \in EvccConfigs \cup {<<>>}
    /\ report \in [Titles -> Report]
    /\ pos \in 0 .. Len(poll) + 1
    /\ services \in [Titles -> Service \cup {None}]
    /\ offline \subseteq Titles
    /\ identity \in Maps
    /\ shown \in [Titles -> Int \cup {None}]
    /\ polled \in [Titles -> 0 .. MaxDelivered]
    /\ credit \in [Titles -> Int \cup {None}]

\* The bus shows what the last completed tick found.
Settled == loop = "armed" /\ pc = "idle"

(***************************************************************************)
(* VRM knows a charger by its DeviceInstance.  Over all restarts, reorder- *)
(* ings and name collisions a title is shown under one instance only, and  *)
(* no instance was ever shown for two titles (get_or_allocate, the service *)
(* name made from its result).                                             *)
(***************************************************************************)
IdentityKept ==
    \A t \in Titles :
        /\ Present(t) => services[t].di = identity[t]
        /\ \A u \in Titles : t # u /\ identity[t] # None
                               => identity[t] # identity[u]

(***************************************************************************)
(* An instance is on disk before it is on the bus: a crash at any point    *)
(* leaves no shown service whose instance the next process could give away *)
(* (the flush inside get_or_allocate).                                     *)
(***************************************************************************)
IdentityOnDisk ==
    \A t \in Titles : identity[t] # None =>
        disk[t] # None /\ disk[t].di = identity[t]

(***************************************************************************)
(* After a completed tick a service is shown connected exactly when the    *)
(* last answer of EVCC listed its title, once; the edge-triggered marking  *)
(* of _offline_titles misses no disappearance and no return.               *)
(***************************************************************************)
BusMatchesPoll ==
    Settled => \A t \in Titles : Present(t) =>
        (services[t].connected <=> t \in Unique(poll))

(***************************************************************************)
(* Whatever the file said at the start, the services a process shows at    *)
(* one time have instances of their own, those its store would answer.     *)
(***************************************************************************)
BusDistinct ==
    \A t \in Titles : Present(t) =>
        /\ services[t].di = map[t]
        /\ \A u \in Titles : t # u /\ Present(u)
                             => services[t].di # services[u].di

(***************************************************************************)
(* One loadpoint that cannot be served costs no other its service: after a *)
(* completed tick a listed title is on the bus, unless the range was full  *)
(* or its own instance is one whose name another service claims at times   *)
(* (the continue branches); the tick in which it did is not remembered, so *)
(* such a title is excused while the name is free as well.                 *)
(***************************************************************************)
OthersServed ==
    Settled => \A t \in Unique(poll) :
        \/ Present(t)
        \/ map[t] = None /\ Free = {}
        \/ map[t] # None /\ map[t] \in ForeignDIs

(***************************************************************************)
(* The series VRM reads never falls, across restarts of the bridge and the *)
(* handover from a legacy service too (energy.py, "monotonic AND           *)
(* continuous").  The exceptions go back to the adopted value and no lower:*)
(* an adoption whose save failed is repeated after a crash, and a legacy   *)
(* bridge that ran on after the capture had shown more than was captured.  *)
(***************************************************************************)
Readopted(t) ==
    /\ "write" \in IoFaults \/ "legacy" \in Faults
    /\ Present(t) /\ CounterOf(t).adopt # None
    /\ shown'[t] >= CounterOf(t).adopt

SeriesNeverFalls ==
    [][\A t \in Titles : shown[t] # None =>
          shown'[t] >= shown[t] \/ Readopted(t)]_syncVars

(***************************************************************************)
(* VRM never books more energy for a loadpoint than was delivered since    *)
(* its series began (energy.py, "erring low never creates a spike").       *)
(***************************************************************************)
NoSpike ==
    \A t \in Titles :
        credit[t] # None => shown[t] <= credit[t] + delivered[t]

(***************************************************************************)
(* A counter that is not dirty has its offset and its adoption on disk: no *)
(* crash returns to an offset that was already replaced, and no adoption   *)
(* is consumed twice (the dirty flag set by value() and cleared only by a  *)
(* write that succeeded).                                                  *)
(***************************************************************************)
CleanIsSaved ==
    \A t \in Titles : Present(t) /\ ~CounterOf(t).dirty =>
        /\ disk[t] # None
        /\ disk[t].offset = CounterOf(t).offset
        /\ disk[t].adopt = CounterOf(t).adopt

(***************************************************************************)
(* tick() returns True so GLib keeps calling it (sync.py): no run of the   *)
(* bridge is left alive without its timer.                                 *)
(***************************************************************************)
KeepsPolling == loop # "stopped"

CrashesEnd == <>[][~Crash]_syncVars

(***************************************************************************)
(* A loadpoint that stays in EVCC under a title of its own gets its        *)
(* service for good, whatever collided or crashed before, once the names   *)
(* are free, the range has room and EVCC answers.                          *)
(***************************************************************************)
EventuallyShown ==
    \A t \in Titles :
        /\ CrashesEnd
        /\ <>[](t \in Unique(evcc) /\ names = {})
        /\ <>[](map[t] # None \/ Free # {})
        => <>[](Present(t) /\ services[t].connected)

(***************************************************************************)
(* A loadpoint removed from EVCC for good, or renamed, is not left shown   *)
(* as connected.                                                           *)
(***************************************************************************)
EventuallyOffline ==
    \A t \in Titles :
        CrashesEnd /\ <>[](t \notin Unique(evcc))
        => <>[](Present(t) => ~services[t].connected)
=============================================================================
