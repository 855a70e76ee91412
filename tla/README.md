# dbus-evcc-multi: a TLA+ model of the bridge

The bridge polls EVCC for its loadpoints and shows each of them on the D-Bus of
a Victron GX device as a charger with a DeviceInstance of its own. VRM keys its
history on that number and turns `/Ac/Energy/Forward` into energy deltas. Two
promises follow, and they are the centre of this project: a loadpoint keeps its
DeviceInstance, and its energy series neither falls nor jumps, whatever
restarts, fails or changes underneath. Around them stand the promises of the
parts that carry the bridge: the file survives what happens to it, the scripts
start and stop what they say, the tools leave the operator's settings alone, and
the VRM tunnel passes through what it should.

## 1. Inventory

| part | state it keeps | operations | talks to |
|---|---|---|---|
| energy guard, `energy.py` | offset, last accepted reading, value to adopt (saved); last published value, dirty flag, count of lower readings (memory only) | `value`, `as_dict`, `from_dict` | called by the D-Bus service, saved by the store |
| state store, `state_store.py` | `_map` title → instance, `_records` title → record; `state.json` and its `.tmp` | load and validate, `seed`, `seed_energy`, `energy_counter`, `save_energy`, `get_or_allocate`, `_flush` | opened by the bridge, `seed_state.py`, `migrate_from_lp.py` |
| sync loop, `sync.py`, `dbus-evcc.py` | `_services`, `_offline_titles`, the GLib timer | preflight, `tick` | EVCC, store, services, system bus |
| D-Bus service, `dbus_service.py` | the paths shown, its counter | constructor, `update`, `mark_disconnected` | system bus |
| EVCC client, `evcc_api.py` | session, last version | `fetch_loadpoints` | EVCC over HTTP |
| seed tool, `seed_state.py`, `bus_scan.py` | – | seed, scan the bus, adopt counters | store, system bus |
| migrator, `migrator.py`, `migrate_from_lp.py` | the run's proposals and decisions | discover, propose, decide, apply, uninstall | legacy installs, EVCC, store |
| configuration, `cli.py`, `setup_config.py`, `--plan` | `config.ini` | resolve, sync-example, set-host, set-tunnel, preview | – |
| VRM tunnel, `dbus-vrm-tunnel/` | an iptables rule, a listening socket, two threads per connection | add and remove the rule, proxy | kernel, EVCC |
| installation and supervision, `install.sh`, `uninstall.sh`, `setup.sh`, `cli.run_with_backoff` | `/service` links, `down` and `.installed` markers, x bits, `rc.local` | install, activate, boot, uninstall | daemontools |

What is hard here, and what would make each part correct:

* **Crashes.** The bridge may die between any two calls that leave the process.
  An instance must be on disk before it is on the bus; an offset or an adoption
  must be saved or repeated. `IdentityOnDisk`, `CleanIsSaved`. Below the store,
  the power may go at any line of `_flush`: `NeverTorn`.
* **Failing writes.** Every method of the store stages first and rolls back if
  the flush raises. `MapOfRecords`, `MemoryMirrorsDisk`, `AtomicSpec`.
* **Unreliable readings.** EVCC may not answer, answer nothing for a meter,
  answer a lower value for a poll or two, or restart its meters.
  `SeriesNeverFalls`, `NoSpike`.
* **Partial failure of a tick.** Duplicate titles, a full range, a name that
  another process holds: the other loadpoints are served. `OthersServed`.
* **Edge-triggered marking.** A title leaves, returns, becomes a duplicate.
  `BusMatchesPoll`, `EventuallyOffline`.
* **Several holders of one file.** Tools and bridge each keep a copy of the
  whole file. `RegistrySpec`, `MemoryMirrorsDisk` in the migration run; below the
  store, `OnlyUnseenErased`.
* **The same rule coded twice.** `--plan` predicts instances and counters with
  code of its own. `PlanStands`, `PlanPublishes`.
* **Reboots in the middle of a script**, with `/service` on a tmpfs and two
  services whose install scripts differ. `TunnelWaitsForOperator`,
  `NeverRevived`, `BridgeResumes`.
* **State in the kernel that outlives the process.** The DNAT rule after a kill.
  `NoRuleTwice`, `RulesAccountedFor`.
* **Three threads on two sockets.** `Streams`, `RedirectStaysLocal`,
  `PassesThrough`, `ResponseArrives`, `NoHalfOpen`.
* **Inheritance in config.ini.** `BootChangesNothing`, `EnterChangesNothing`,
  `ToolsKeepTunnelValid`.

`PROJECT.json` lists every hazard at its line with the properties that cover it.

## 2. Modules

```
DeviceRegistry            what is promised about instances (abstract)
EnergyCounter             energy.py, a data type without state
  StateStore              state_store.py: methods as actions; refines DeviceRegistry
    StoreCallers          the store under any sequence of calls
    LoadpointSync         main(), tick(), the service object, EVCC and the bus
      DryRun              what --plan says, against what LoadpointSync does
    Migration             migrate_from_lp.py and the bridge as second holder
AtomicFile                what the store takes the file for (abstract)
  StateFile               _flush line by line on a file system; refines AtomicFile
ConfigFile                setup_config.py, cli.py: config.ini and what it resolves to
TunnelService             the tunnel's process and the kernel's rules
  Deployment              install, setup and uninstall scripts, daemontools, reboots
ByteStream                what a direction of a connection promises (abstract)
  ProxyConnection         one connection through RewriteProxy; refines ByteStream
MC*                       instances for TLC
*Proofs                   theorems about the module they are named for
```

**EnergyCounter.** A counter is a record with the six fields of the Python
object. `AfterReading(c, r)` is `value(r)` as a function of the old object;
`Held` is what it returns when it does not accept a reading; `AsDict` and
`FromDict` are the part that survives a restart. The thresholds are constants.

**StateStore.** `map` and `recs` are `_map` and `_records` (`None` for an absent
key), `disk` is the file. `Flush(newMap, newRecs, ok)` is a staged change with
the caller's rollback; each method is an action that ends in it. `Open` loads
and validates, `OpenUnreadable` is the branch of `_load` that answers an
unreadable or unparsable file with an empty store. `Registry` maps the file to
`DeviceRegistry`: the refinement says that assignments on disk are exclusive and
only ever added to.

**StateFile.** Why `Flush` may be one step. Names point to inodes; an inode has
contents in the page cache and on the medium, the directory likewise. `OpenTmp`,
`WriteTmp`, `FsyncTmp` and the replace are the lines of `_flush`; a process may
be killed, a write may fail and the power may go between any two of them.
Contents are sets of entries (a title with its record), or `Torn` for what does
not parse. Nothing keeps two processes from holding the store at once
(`seed_state.py` and the bridge check nothing), and they share the one `.tmp`
name. `Atomic` maps this to `AtomicFile`, a file that any number of holders read
once and replace as a whole: the file is what the name in the directory reads
as, the medium what it would read as after a power loss. `overlapped` remembers
that two flushes were at the `.tmp` at once; from then on nothing is promised,
here or in `AtomicFile`. `missed` is what others wrote since a holder read the
file.

**LoadpointSync.** `loop` is where `main()` is: not running, inside the first
`tick()`, with the timer armed, or alive after the timer was lost. `pc` is the
step of `tick()`: a poll, then per loadpoint *ensure* (skip a duplicate,
allocate, or run out of instances), *register*, *update*, *save*, and at the end
the *sweep* that marks what is gone. Each step that leaves the process is one
action, so that EVCC, other processes and crashes come in between. What an
exception does is followed to where it is caught: swallowed in the loop, fatal
in the first tick (`TickRaises` ends the process, supervision restarts it), and
the end of the timer in a later one. The variables `identity`, `shown`,
`polled` and `credit` are history: the instance a title was first shown with,
what VRM reads, and what had been delivered at the last poll. `LegacyPublishes`
is the legacy bridge that runs on after its counter was captured.

**DryRun.** `Forecast` and `ForecastEnergy` are `_print_plan`: the same
decisions as the store's and the guard's, coded a second time. They are compared
with the steps `LoadpointSync` takes.

**Migration.** The tool's run as steps: checks, one decision per install,
the stops before the write, the seed, one uninstall script after the other; the
process may be killed at any of them. The variables of `StateStore` are the
tool's store; `Bridge` is a second instance of the module over the same `disk`
with the bridge's memory. Both open the file as `_load` does, an unreadable one
as an empty one. `marker` is the `down` file that the tool's check for a running
service reads, once, before the first question. `OperatorSlips` is what the
operator may do behind that check: put the service up during the questions, or
start it with `svc -u` and leave the marker. `removed` stands for a legacy bridge that is gone; the
Python process its script leaves alive is killed by the operator, as the
repository's README asks.

**ConfigFile.** `config.ini` is a set of section headers and a value per section
and key. `Resolved` is what the programs read (own section, then `[DEFAULT]`,
then the fallback of `cli.py`); `Rendered` is how the tool writes the file back
over the template. The tools are functions of the file, so that one can be
applied after another (`AfterEnter` is a whole run of `setup.sh`).

**TunnelService, Deployment.** `TunnelService` is the tunnel's process line by
line (add the rule, install the handlers, wait, remove the rule) and the chain
of rules, in their order. `Deployment` puts it and the bridge under daemontools.
A script is the list of steps it has left; each step is an action, so that
svscan, the services and a reboot come in between: the marker and the link, the
`.installed` file, the creation of `rc.local`, its mode and its line are steps
of their own, and so are the kill, the x bit, the line, the `down` file and the
marker of an uninstall. A reboot empties `/service` and the nat table, drops the
script, and runs the install scripts `rc.local` names, if that file has its
x bit (`rcMode`). `supervise` is what `sup` says: none, or the state it is told to keep.
`approved`, `wanted` and `retired` are history: what the operator asked for;
`spoilt` remembers that the tunnel's uninstall script rewrote `rc.local`.

**ProxyConnection.** The handler thread peeks until the request line is
complete, redirects or connects, replays what it read, and starts two splicing
threads, each with both sockets. An end writes and closes when it likes;
`Pauses` are the ends that may be silent for longer than any timeout. What was
written and what was received of each direction maps to `ByteStream`.

Operators whose comment begins with *Mutant* are wrong variants of the
definition that follows them. Each property of a passing run is violated when
the variant that `PROJECT.json` names takes the definition's place.

## 3. Runs

One unit of energy is half a kWh in the runs (`PersistStep = 2`), so that a
poll can move a reading by less than the step that is saved.

| run | instance | what it shows |
|---|---|---|
| store | 3 titles, 3 instances, 2 overlapping ranges, colliding seeds, reads and writes may fail | under arbitrary callers the dictionaries stay in step and valid for the range |
| migration | 4 setups of at most 2 installs, 4 EVCC lists with titles equal up to case, 4 command lines; the service stays down while the tool runs | the file is a registry that only grows, `--auto` never guesses, nothing is uninstalled without a successor |
| sync_identity | 3 titles, 2 instances, 6 lists (empty, reordered, renamed, duplicate, too long), one contended name; crash, malformed and missing answers, failed writes | identity over all restarts, the bus after each tick, the plan's instances |
| sync_restart | 1 loadpoint, 6 units delivered, fresh or with 7 or 1 to adopt; crash, no answer, failed writes, a legacy bridge that runs on | the series neither falls nor jumps, nothing clean is unsaved, the plan's first value |
| sync_noise | 1 loadpoint, 5 units, glitches of up to 2 polls, missing values, meter restarts | the confirmation count and the rebasing within one process |
| sync_live | 2 titles, 3 lists, one contended name; crash, no answer, unreadable file | distinct services even over a lost file; both liveness properties |
| state_file | 2 processes that may both hold the store, 2 entries, 4 inodes, with symmetry; up to the first overlap of two flushes | the file is never seen cut off, a flush erases only what it could not see, the lines of `_flush` implement `AtomicFile` |
| config | the template's keys, three of them in `[DEFAULT]` as well, lines of the operator's own | what each tool keeps: the boot and set-host every other line, set-tunnel what is outside of its section; boot and Enter change no setting |
| deployment | one port, tunnel off, on or invalid; iptables may fail | both services through every order of the scripts' steps, signals, kills and reboots |
| proxy | a request line in 2 chunks, 4 chunks up, 3 down, a client that may fall silent | both directions are streams, redirects stay local, no thread is left behind |
| bug_boot_activates, bug_idle_cut | as small as the effect allows | section 5 |

**Why the bounds are enough.** Identity needs more titles than instances to meet
exhaustion, and two titles for one instance to meet a collision; energy is kept
per loadpoint and loadpoints share nothing but the file, so one loadpoint shows
every interleaving of its own counter. `Confirmations` is 3 as in the code.
`MaxDelivered` is the only cap on a counter; the energy runs deliver past
several saved steps on both sides of a restart. Identity runs leave the meter at
zero. A flush tells apart an entry that was there from one the other process wrote;
directory and medium name at most four inodes at a time. The
values of `ConfigFile` are representatives of what the code tells apart (empty,
valid, loopback). The deployment has one port (749,438 states); two ports are
only needed for the order of the rules, and what is said about rules is proved
for any number. In the proxy one chunk goes with the request line, and two after
it leave one in a thread's hand while the next one waits.

The type invariants of StateStore, StateFile, ProxyConnection and ConfigFile
are in no run because they are proved for all constants (section 4).

**Fairness.** `FairSyncSpec` assumes that daemontools restarts a bridge that
ended (`Start`), that the timer fires and EVCC answers some of the polls
(`PollOk`), and that a tick that began runs to its end (`Walk`, `Sweep`): the
tick is one thread, its HTTP call has a timeout, and D-Bus calls return. Nothing
is assumed of EVCC's configuration, of other processes or of crashes.
`Deployment!FairSpec` assumes that a script that began takes its steps, that
svscan looks again, that supervise starts what it is told to keep up, that a
backoff ends and that the tunnel runs; nothing of the operator or of failures.
`ProxyConnection!FairSpec` assumes that the three threads run; the ends need not
do anything. The liveness properties state what they need beyond this as
premises.

**Deadlock** is checked in every passing run but the proxy's: a connection ends.

Some properties carry an exception that the code forces. In `SeriesNeverFalls`,
an adoption that could not be saved is repeated by the next process, which
continues from the adopted value once more, and a series that is taken over
while the legacy bridge runs on begins at what was captured, below what VRM has
seen meanwhile. In `ResponseArrives`, an EVCC that closes on a request it did
not read may have its answer cut off by the thread of the other direction.
`RulesAccountedFor` excuses the rule a killed tunnel left: nobody removes it, and
the property says that there is no other way to lose track of one.
`OthersServed` excuses a title whose instance is one that another service claims
at times, also while its name is free. `NeverTorn`, `OnlyUnseenErased` and
`AtomicSpec` end at the first overlap of two flushes; `BridgeResumes` excepts an
`rc.local` that the tunnel's uninstall script rewrote; `ValuesKept` excepts the
section that set-tunnel replaces. What happens in the last three is in section 5.

## 4. Proofs

All are safety results for every value of the constants; the assumptions are the
named ones of the modules, and those said below.

* `StateStoreProofs`: the guard's operators stay within their types; what a
  flush, an opening and the end of a process keep; each method stages a valid,
  extending change. These are the lemmas that the next three modules use.
* `StoreCallersProofs`: `StoreInv` is inductive: types, `MapOfRecords`,
  `MemoryMirrorsDisk`, `MemoryValid`, and that the instances *on disk* are
  distinct (needed because the file outlives the process that validated it).
  From it `StoreTyped`, `MapFollowsRecords`, `FailedWritesRollBack`,
  `InstancesValid`, and `StoreImplementsRegistry`: the store implements
  `DeviceRegistry`. Only the last one assumes that the file can be read.
  The module also holds the proofs about Migration, the other caller of the
  store. `DecisionInv` says where a choice of the tool can come from, and needs
  nothing of the file: `MigrationTyped`, `AutoNeverGuesses`. `HandoverInv` joins
  `StoreInv` for the tool, the same for the bridge's copy (`BridgeInv`), that
  the tool works only while the bridge is down (`ToolInv`), and that from the
  first uninstall on every choice is on disk (`AppliedOnDisk`): the file only
  grows, so no kill, rerun or failed write in between takes a successor away.
  From it `SeededBeforeRemoved`, `ToolMirrorsDisk` and
  `HandoverImplementsRegistry`. These assume `FileReadable`, that no open meets an
  unreadable file (a rerun would write it back without the earlier successors),
  and `ServiceCheckHonoured`: the tool is not run with `--ignore-running`, the
  documented way to have two processes write the file, and the service stays
  down from the check to the end of the tool (`OperatorSlips` is empty), which
  the code does not see to (`BugServiceUp.cfg`).
* `LoadpointSyncProofs`: three inductive invariants, each relative to the one
  before.
  `SyncInv` joins `StoreInv`, the types, control facts (in the steps *register*
  to *save* the title is a listed one with an instance; a service exists from
  *update* on), and the chain that makes identity hold: a service has the
  instance of `map` and, where the file can be read, `map` equals the file's and
  the history `identity` is on disk (`Identified`). `IdentityKept` alone is not
  inductive: it says nothing of the file that the next process starts from. From it `SyncTyped`, `IdentityIsPersisted`,
  `IdentityIsKept`, `BusIsDistinct`.
  `TickInv` adds what the walk has done so far: a title before the position
  is served or has its excuse (`Walked`, `Served`), the titles marked offline are
  shown so (`OfflineShown`). `BusMatchesPoll` and `OthersServed` speak of a
  finished tick only, and could not be carried through it without. From it
  `BusFollowsEvcc`, `OthersAreServed`.
  `CleanIsSaved` is inductive given `SyncInv`: `CleanCountersAreSaved`.
  `SyncTyped`, `BusIsDistinct`, `BusFollowsEvcc` and `OthersAreServed` hold
  whatever was read at the start. `IdentityIsPersisted`, `IdentityIsKept`,
  `CleanCountersAreSaved` and `BridgeImplementsRegistry` assume `ReadsWork`, that no start meets an
  unreadable file; `BugUnreadable.cfg` shows that the assumption is needed.
  Writes may fail and the process may die anywhere.
  `BridgeImplementsRegistry` carries the refinement of `DeviceRegistry` over to
  the whole bridge: every step of it is a step of the store or leaves it alone.
* `LoadpointEnergyProofs`, in three parts. The first is the series of a sound
  meter. `EnergyInv` says that the series of every loadpoint is
  sound at four places at once. A counter, in memory or in the file, is `Sound`
  when the next reading it accepts continues the series without booking more
  than was delivered: its offset (or what it would adopt) is bounded by the
  `credit`, and its saved reading is not above the meter. What was shown is
  bounded by the credit (`Ledger`), what the service shows belongs to the counter
  it has (`OnBus`), and a counter in memory is ahead of the file by at most an
  adoption (`Follows`). `NoSpike` alone says nothing of the file, from which the
  next process continues. From it `SeriesSound`, `NeverBooksTooMuch`,
  `PlanTellsTheFirstValue` and, with `Exact` (an adoption in the file is what is
  shown, until a save fails or a legacy bridge runs on), `SeriesRises`.
  These assume `ReadsWork`; `SoundMeters`: readings are above 0 and none is a
  glitch, a restarted meter or a session counter (section 5 says what these do);
  and `FreshFiles`: the first file has no history of this bridge, but may have
  counters to adopt. `SeriesRises` assumes in addition that no reading is missing,
  which `BugRestartNull.cfg` shows to be needed. Crashes, failing writes and a
  legacy bridge that runs on are all in.
  The second part is `PlanComesTrue`: the n-th free instance is still the n-th
  free one when an earlier title took the first, so that the forecast for a list
  stays what it was after `get_or_allocate` served one title of it
  (`NthWithoutLeast`, `AllocationWasPlanned`); the titles before it in the list
  are served or found the range full (`ServedBefore`, from `TickInv`).
  The third part takes the meters as they are (`NoisyMeters`): readings below the
  meter, fewer than `Confirmations` in a row, missing ones, and a meter that
  restarts at any time, between an answer and its use too. What must not happen
  is that the offset moves onto a reading although the meter did not restart.
  `NoiseInv` says why it does not. A counter that has counted more lower readings
  than were glitches, or is about to, has seen a meter that did restart (`Fell`);
  a meter that restarted shows no more than what was delivered since, so that the
  published value and the meter together are within what may be booked (`Room`):
  the offset may move onto any reading then, a glitch among them. A reading that
  was answered and is not applied yet (`Due`) is part of the evidence, and what
  happened to the meter since is bounded by `InFlight`. `NoSpike` speaks of what
  was shown only, and is far from inductive. From it `NoiseAccounted`,
  `NoiseBooksNothing`, `NoiseNeverFalls`, for one run of the bridge: a restart
  forgets the published value, and then neither holds (`BugRestartReset.cfg`).
  TLC found `NoiseInv` invariant on two loadpoints with duplicates, taken names
  and all these readings before it was proved.
* `StateFileProofs`: `FileInv` says of every inode what may be in it (an inode
  the directory or its medium names is whole, and safe once it was renamed) and
  of every writer how far its own inode has come, as long as no two flushes
  overlapped. From it `FileTyped`, `FileIsNeverTorn`, `OnlyTheUnseenIsErased`
  (a holder has in memory all of the file but what it missed), and the refinement
  `FlushIsAtomic`, the licence for `StateStore`'s single step: `Replace` is the
  flush of `AtomicFile`, an open is its open because a file that is whole is
  loaded as it is, the other lines and a failure at any of them are stutters, and
  write-back and journal move the medium to the file or show nothing. Any number
  of processes may hold the store; that their flushes do not overlap is not
  assumed but said in the properties.
* `ConfigFileProofs`: `WellFormed` (a line stands under its header) is inductive;
  on a well-formed file each tool keeps the lines outside of what it sets, resolves to the same settings
  and leaves a valid tunnel valid, by what `Rendered` does to one key. From it
  `ConfigTyped`, `ToolsKeepLines`, `BootIsNeutral`, `EnterIsNeutral`,
  `TunnelStaysValid`.
* `DeploymentProofs`: `TunnelInv` relates what the process owns to the chain at
  each of its lines, and is kept by every step of `Deployment` whatever scripts
  run: `NoRuleIsThereTwice`, `EveryRuleIsAccountedFor`.
  The other results are about the order of the steps of a script, and so about
  what a script that is running still has to do. `Preceded(script, x, e)` says
  that no step `x` is left unless a step `e` is left before it: it stays true of
  the rest of a script, and of no script. `WaitInv` explains in these terms why
  the tunnel waits (a link, or the marking of it as down is still to come before
  the link), `RetiredInv` why what was uninstalled stays away (no line of
  `rc.local`, no link or x bit, and no step left that would bring one back).
  `DeviceInv` joins them with the types. From it `DeploymentTyped`, `TunnelWaits`,
  `UninstalledStaysAway`, for a reboot after any step of any script.
* `ProxyConnectionProofs`: `ProxyInv` says that what a source wrote is, in this
  order, what was sent on, what a thread has in hand, what was peeked and not
  replayed, and what is on the wire, and that a chunk is in hand only in
  *sendall*. From it `ProxyTyped`, `LoginStaysLocal`, `DirectionsAreStreams` (the
  refinement to `ByteStream`) and `SplicedPassesThrough`, which assumes that
  EVCC is never silent for longer than the timeout its socket keeps;
  `bug_idle_cut` shows what happens otherwise.

Only model-checked: liveness (`EventuallyShown`, `EventuallyOffline`,
`BridgeResumes`, `ResponseArrives`, `NoHalfOpen`), which is beyond the prover.
Every safety property of a run is proved for all constants, under the
assumptions said above; where an assumption is needed, a configuration of
section 5 shows what happens without it. A run that goes beyond the assumptions
of a theorem (sync_live reads unreadable files, sync_noise has meters that are
not sound) checks only properties of which a theorem holds there too.

## 5. Where code and documentation disagree

Two runs expect a violation of a property that quotes the repository.

* `bug_boot_activates`: "drop a 'down' marker so supervise does not auto-start
  the bridge before the operator has run seed_state.py" (`install.sh:26-29`).
  The marker by which the script tells a reboot from a first install is written
  by the first install itself: a reboot before the activation starts an unseeded
  bridge, which gives out fresh instances.
* `bug_idle_cut`: "everything else is spliced raw (HTTP, SSE, WebSocket pass
  through)" (`vrm_tunnel.py:60-61`). The connect timeout stays on the socket to
  EVCC: a stream with nothing to say for ten seconds is cut.

The following can be reproduced with `tlc -config <cfg> <module>`.

With `MCSync`:

* `BugUnreadable.cfg`: "keeps its DI for the lifetime of the file"
  (`state_store.py:14`). A read error at the start is taken for an empty file,
  which the next allocation writes over the real one.
* `BugRestartReset.cfg`: "the series continues where the previous one stopped"
  (`energy.py:17`). If a meter restart is confirmed before a new process has
  accepted a reading, the base is the last raw reading: the old offset is lost.
* `BugSourceSwitch.cfg`: "continuous when the source field changes"
  (`CHANGELOG.md:75`). A loadpoint that began on its session counter books the
  whole lifetime total when the meter value appears.
* `BugRestartNull.cfg`: "we keep the last value so VRM history doesn't zero out"
  (`dbus_service.py:168-169`). The path starts at 0 in every process and
  stays there until a reading is accepted.
* `BugStopsPolling.cfg`: "we always return True" (`tests/test_sync.py:258`). An
  `OSError` of an allocation leaves `tick()`; in a timer callback that ends the
  timer but not the process.

With `MCMigration`:

* `BugServiceUp.cfg`: "refuse to write state.json while the bridge is running"
  (`migrate_from_lp.py:329`). The check is made before the questions, the write
  after them: a bridge put up in between holds the file as it was, and its next
  allocation writes the seeded instances away.
* `BugSilentSkip.cfg`: "seed() must reject" (`tests/test_migrate_cli.py:277-278`).
  A title with another instance keeps it, the pair is reported as applied and
  the legacy bridge is uninstalled.

With `MCStateFile`, `MCDeployment` and `MCConfig`:

* `BugTwoWriters.cfg`: "a crash never truncates it" (`state_store.py:18`). Two
  processes share the `.tmp`: one cuts to nothing what the other is about to
  rename, and a kill then leaves an empty `state.json`.
* `BugRcMode.cfg`: "The bridge now survives a reboot" (`CHANGELOG.md:96`). The
  tunnel's `uninstall.sh:16` moves a new file over `rc.local`; its x bit is gone,
  and Venus does not run it: the bridge stays off.
* `BugSurvivor.cfg`: "so a stale symlink can't accidentally come back up"
  (`uninstall.sh:54`). Where svscan started supervise again before the link was
  gone, supervise respawns the bridge between the kill and `chmod a-x`; it runs
  on after the uninstall.
* `BugTunnelKeys.cfg`: "keys or sections the template does not know are kept"
  (`setup_config.py:6-8`, `CHANGELOG.md:15-18`). `set_tunnel` replaces the whole
  section (`setup_config.py:140`); the operator's own keys in it are gone, after
  a `setup.sh` answered with Enter as well.

Further ones were met while modelling and are visible in the definitions.

* The tunnel's `install.sh:14-15` says that the service resumes after a reboot.
  `/service` is a tmpfs, so the link is gone and the `down` file is dropped again:
  an activated tunnel stays off (`Mark`, `Reboot`).
* `dbus-vrm-tunnel.py:54` says that supervise restarts on a config change. Nothing
  does; an idle tunnel stays idle until it is restarted (`EditConf`).
* An invalid `[VRM_TUNNEL]` ends the tunnel with status 1 and no backoff, so
  that supervise respawns it at once, for ever.
* A tunnel that a signal ends before its handlers stand leaves its rule; the next
  one finds it, does not own it and never removes it. If the port was changed in
  between, the old rule still comes first in the chain (`AddRule`, `orphans`).
* The tunnel's rule is added even if the proxy thread could not bind: the traffic
  goes to a port nobody listens on.
* Between `svc -dx` and the removal of the link, svscan may start supervise again
  (`Stop`, `Scan`, `Unlink`); `KillStray` ends what it brought back, unless
  supervise respawns it before `Disarm` (`BugSurvivor.cfg`).
* A legacy bridge's leftover line in `rc.local` brings it back at every boot, and
  ours refuses to start beside it, every 30 s (`StartRefused`).
* `os.replace` is not followed by an fsync of the directory: a power loss may take
  an acknowledged write back, though never tear the file (`PowerLoss` of
  `AtomicFile`). `setup_config._write` has no fsync at all.
* `setup_config.py:39` says that a value inherited from `[DEFAULT]` is what the
  bridge would see. Not where the key's own section has no header (`Hidden`).
* `--plan` gives a duplicate title an instance although `tick()` skips it, and
  knows neither the session counter nor a restarted meter: the premises of
  `PlanStands` and `PlanPublishes`.
* The save step of `energy.py:111` compares with the previous poll, so that
  increments below 1 kWh are never saved, although the comment claims "at most the
  last kWh".
* `dbus_service.py:216` puts the session energy in place of a missing meter value
  while a vehicle is connected, so that three such polls count as a meter restart,
  although `energy.py:31-33` says that such readings are dropped.
* `mark_disconnected` leaves `/Ac/Power` and the other instantaneous paths at
  their last values.

## 6. What is abstracted

* Readings are integers; rounding to six digits and NaN are not modelled.
* An exception inside `update` or `mark_disconnected` (swallowed by the loop) is
  not modelled; nor is the v1 file format, which holds the same map.
* A preflight that cannot list the names, or cannot read an instance, passes:
  both are the fault `hidden`.
* A missing or glitching value is assumed of meters that were read before; a
  first reading is taken as it comes, in the code and in the model.
* The migrator's scan and parsing are the constant `LegacySetups`. In the run the
  service is put up only while no tool runs and never with the marker left in
  place (`OperatorSlips`); what the code allows beyond that is `BugServiceUp.cfg`.
* `iptables -C` is taken to answer truly; `-A` and `-D` may fail.
* TCP's flow control, resets and half-closed connections are not modelled: an
  end that closes has read all it wants. A chunk is what one `recv` returns.
* Commands of the shell scripts do not fail, and the operator waits until svscan
  has seen a link before the next script.
* A value of `config.ini` is one of a few representatives; comments, order and
  the syntax of lines are left to `ConfigParser`.

### Not modelled

* Status and mode mapping, instantaneous and session values of the D-Bus
  service: copied from one answer, without state of their own.
* The matching of live services to titles in `bus_scan.py` and the table the
  tools print; argument parsing; the text of ini and JSON files.
* The log services, logging, and the release and deployment scripts, which run
  outside of the device.
* The bind failure of the proxy's listening thread, and the many connections of
  one proxy: each has its own sockets and threads and shares nothing.

## 7. What is left

1. An abstract history of one loadpoint's energy that LoadpointSync refines, with
   the handover from `seed_state.py --adopt-counters` as its first step.
2. Migration inside Deployment: the migrator started by `setup.sh` while a legacy
   bridge is supervised, its uninstall scripts as steps.
3. Two proxied connections and the listening thread, for the exit of the tunnel
   with connections open.
4. Proofs: the energy of a bridge that restarts between glitches, with the
   confirmations a new process has to count again; that `--plan` and the first
   walk agree on the whole table, instances and values together.
