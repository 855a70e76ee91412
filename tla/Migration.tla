------------------------------- MODULE Migration -------------------------------
(***************************************************************************)
(* The handover from legacy single-loadpoint bridges (migrator.py,         *)
(* migrate_from_lp.py): discover the installs, propose a loadpoint title   *)
(* for each, let the operator decide, seed the accepted pairs into         *)
(* state.json and uninstall what was applied.                              *)
(*                                                                         *)
(* The tool and the bridge each hold a store of their own over one file:   *)
(* the variables of StateStore are the tool's, Bridge is the other holder. *)
(* Writes are atomic in both.  What keeps them apart is the tool's check   *)
(* for a running service: one look at the down marker, before the first    *)
(* question.                                                               *)
(***************************************************************************)
EXTENDS StateStore, Sequences

CONSTANTS
    Names,         \* lower-cased names
    Lower,         \* title -> its lower-cased name
    LegacySetups,  \* the installs below /data, in the order of their paths
    EvccLists,     \* what the title lookup may answer, <<>> for nothing
    Modes,         \* the command lines the tool is started with
    BridgeRange,   \* the bridge's configured di_range
    OperatorSlips  \* what the operator may do behind the check's back:
                   \* "prompts": put the service up while the tool is at work;
                   \* "svc": start it with svc -u, the marker left in place

\* A parsed config.ini; di is None if Deviceinstance is missing or no number.
Install == [di     : DIs \cup {None},
            index  : Int \cup {None},
            name   : Names \cup {None},
            script : BOOLEAN]

Mode == [auto : BOOLEAN, dryRun : BOOLEAN, uninstallOld : BOOLEAN,
         ignoreRunning : BOOLEAN, range : Ranges]

ASSUME MigrationAssumption ==
    /\ Lower \in [Titles -> Names]
    /\ LegacySetups \subseteq Seq(Install)
    /\ EvccLists \subseteq Seq(Titles)
    /\ Modes \subseteq Mode
    /\ BridgeRange \in Ranges
    /\ None \notin Titles \cup Names
    /\ OperatorSlips \subseteq {"prompts", "svc"}

VARIABLES
    bOpened, bRange, bMap, bRecs,  \* the bridge's own store
    marker,     \* the service directory holds a 'down' file
    legacy,     \* the installs, fixed
    removed,    \* installs whose service is gone
    step,       \* where the tool is
    mode,       \* its arguments
    titles,     \* its answer from EVCC
    pos,        \* the install the loop is at
    choice,     \* accepted: install -> title, None if skipped
    overridden, \* the operator typed a title
    successor   \* history: install -> the title it was removed for

bridgeVars == <<bOpened, bRange, bMap, bRecs>>
toolVars   == <<step, mode, titles, pos, choice, overridden>>
worldVars  == <<marker, legacy, removed, successor>>
migrationVars == <<storeVars, bridgeVars, toolVars, worldVars>>

Bridge == INSTANCE StateStore
          WITH opened <- bOpened, range <- bRange, map <- bMap, recs <- bRecs

-------------------------------------------------------------------------------
\* propose_mappings

Slots(name) == {n \in DOMAIN titles : Lower[titles[n]] = name}

UniqueSlot(name) == \E n \in DOMAIN titles : Slots(name) = {n}

ByName(name) ==
    IF name # None /\ UniqueSlot(name)
    THEN titles[CHOOSE n \in DOMAIN titles : Slots(name) = {n}]
    ELSE None

\* Python counts the slots from 0.  A stale index is not replaced by a name.
ByIndex(index) ==
    IF index + 1 \in DOMAIN titles /\ UniqueSlot(Lower[titles[index + 1]])
    THEN titles[index + 1]
    ELSE None

\* Mutant: a stale index falls back to the name.
ProposedWithFallback(i) ==
    IF legacy[i].index # None /\ legacy[i].index + 1 \in DOMAIN titles
    THEN ByIndex(legacy[i].index)
    ELSE ByName(legacy[i].name)

ProposedTitle(i) ==
    IF legacy[i].index # None THEN ByIndex(legacy[i].index)
    ELSE ByName(legacy[i].name)

Proposals == {i \in DOMAIN legacy : legacy[i].di # None}

-------------------------------------------------------------------------------
\* main(): the checks before the first question, and discovery.

\* Mutant: the check for a running service is missing.
NeverRunning == FALSE

MultiServiceRunning == ~marker

NothingChosen == [i \in DOMAIN legacy |-> None]

Begin ==
    /\ step = "idle"
    /\ \E m \in Modes, list \in EvccLists :
          /\ MultiServiceRunning => m.ignoreRunning
          /\ mode' = m
          /\ titles' = list
    /\ Proposals # {}
    /\ step' = "decide"
    /\ pos' = 1
    /\ choice' = NothingChosen
    /\ overridden' = FALSE
    /\ UNCHANGED <<storeVars, bridgeVars, worldVars>>

\* The tool returns or is killed: what it held in memory is gone.
Return ==
    /\ Close
    /\ step' = "idle"
    /\ UNCHANGED <<mode, titles, pos, choice, overridden>>

-------------------------------------------------------------------------------
\* decide_proposal, for one install after the other.

Decided(title, typed) ==
    /\ choice' = [choice EXCEPT ![pos] = title]
    /\ overridden' = (overridden \/ typed)
    /\ pos' = pos + 1
    /\ UNCHANGED <<step, mode, titles, storeVars, bridgeVars, worldVars>>

Deciding == step = "decide" /\ pos \in DOMAIN legacy

SkipUnusable == Deciding /\ pos \notin Proposals /\ Decided(None, FALSE)

AcceptProposal == Deciding /\ pos \in Proposals /\ Decided(ProposedTitle(pos), FALSE)

Decline == Deciding /\ pos \in Proposals /\ ~mode.auto /\ Decided(None, FALSE)

Override ==
    /\ Deciding /\ pos \in Proposals /\ ~mode.auto
    /\ \E t \in Titles : Decided(t, TRUE)

-------------------------------------------------------------------------------
\* main(): the last stops before the write.

Chosen == {i \in DOMAIN legacy : choice[i] # None}

Decision == step = "decide" /\ pos = Len(legacy) + 1

NothingToWrite ==
    /\ Decision
    /\ Chosen = {} \/ mode.dryRun
    /\ Return
    /\ UNCHANGED <<bridgeVars, worldVars>>

\* The final question is asked after free-form titles only.
Abort ==
    /\ Decision
    /\ overridden /\ ~mode.auto
    /\ Return
    /\ UNCHANGED <<bridgeVars, worldVars>>

OpenStore ==
    /\ Decision
    /\ Chosen # {} /\ ~mode.dryRun
    /\ Open(mode.range) \/ OpenUnreadable(mode.range)
    /\ step' = "seed"
    /\ UNCHANGED <<mode, titles, pos, choice, overridden, bridgeVars, worldVars>>

\* InvalidStateFile out of the constructor.
OpenRefused ==
    /\ Decision
    /\ Chosen # {} /\ ~mode.dryRun
    /\ ~Valid(Instances(disk), mode.range)
    /\ Return
    /\ UNCHANGED <<bridgeVars, worldVars>>

-------------------------------------------------------------------------------
\* apply_to_store: of several installs for one title the first one counts.

ChosenFor(t) == {i \in Chosen : choice[i] = t}

First(S) == CHOOSE i \in S : \A j \in S : i <= j

Mapping ==
    [t \in Titles |-> IF ChosenFor(t) = {} THEN None
                      ELSE legacy[First(ChosenFor(t))].di]

Applied == {i \in Chosen : Mapping[choice[i]] = legacy[i].di}

\* Mutant: a write that failed is reported and the tool goes on.
StepAfterSeedGoesOn(ok) == "uninstall"

StepAfterSeed(ok) == IF ok THEN "uninstall" ELSE "failed"

SeedStore ==
    /\ step = "seed"
    /\ \E ok \in BOOLEAN : Seed(Mapping, ok) /\ step' = StepAfterSeed(ok)
    /\ pos' = 1
    /\ UNCHANGED <<mode, titles, choice, overridden, bridgeVars, worldVars>>

SeedStoreRejected ==
    /\ step = "seed"
    /\ ~Valid(Proposed(Mapping), range)
    /\ Return
    /\ UNCHANGED <<bridgeVars, worldVars>>

-------------------------------------------------------------------------------
\* run_uninstall_scripts: each applied install gets its turn; a script that
\* fails, hangs or crashes may have removed the service or not.

Uninstalling == step = "uninstall" /\ mode.uninstallOld /\ pos \in DOMAIN legacy

Uninstall ==
    /\ Uninstalling
    /\ pos \in Applied /\ legacy[pos].script
    /\ \/ /\ removed' = removed \cup {pos}
          /\ successor' = [successor EXCEPT ![pos] =
                              IF pos \in removed THEN @ ELSE choice[pos]]
       \/ UNCHANGED <<removed, successor>>
    /\ pos' = pos + 1
    /\ UNCHANGED <<step, mode, titles, choice, overridden, marker, legacy,
                   storeVars, bridgeVars>>

NoUninstall ==
    /\ Uninstalling
    /\ pos \notin Applied \/ ~legacy[pos].script
    /\ pos' = pos + 1
    /\ UNCHANGED <<step, mode, titles, choice, overridden, worldVars,
                   storeVars, bridgeVars>>

Finish ==
    /\ \/ step = "failed"
       \/ step = "uninstall" /\ (~mode.uninstallOld \/ pos = Len(legacy) + 1)
    /\ Return
    /\ UNCHANGED <<bridgeVars, worldVars>>

\* Ctrl-C, a closed stdin at the first question, a reboot.
Kill ==
    /\ step # "idle"
    /\ Return
    /\ UNCHANGED <<bridgeVars, worldVars>>

-------------------------------------------------------------------------------
\* The bridge, as far as the file goes: the preflight, the loading and the
\* allocations of its ticks.

BridgePreflight ==
    \A i \in DOMAIN legacy \ removed :
        legacy[i].di # None => legacy[i].di \notin BridgeRange[1] .. BridgeRange[2]

BridgeStart ==
    /\ marker => "svc" \in OperatorSlips
    /\ BridgePreflight
    /\ Bridge!Open(BridgeRange) \/ Bridge!OpenUnreadable(BridgeRange)
    /\ UNCHANGED <<memoryVars, toolVars, worldVars>>

BridgeAllocate ==
    /\ \E t \in Titles, ok \in BOOLEAN : Bridge!Allocate(t, ok)
    /\ UNCHANGED <<memoryVars, toolVars, worldVars>>

BridgeStop ==
    /\ bOpened
    /\ Bridge!Close
    /\ UNCHANGED <<memoryVars, toolVars, worldVars>>

\* The operator puts the service up (rm down) and down (touch down, stopped).
Unattended == step = "idle" \/ "prompts" \in OperatorSlips

Activate ==
    /\ Unattended /\ marker
    /\ marker' = FALSE
    /\ UNCHANGED <<storeVars, bridgeVars, toolVars, legacy, removed, successor>>

Deactivate ==
    /\ Unattended /\ ~marker /\ ~bOpened
    /\ marker' = TRUE
    /\ UNCHANGED <<storeVars, bridgeVars, toolVars, legacy, removed, successor>>

-------------------------------------------------------------------------------
MigrationInit ==
    /\ StoreInit
    /\ bOpened = FALSE /\ bRange = BridgeRange /\ bMap = NoMap /\ bRecs = NoFile
    /\ marker = TRUE
    /\ legacy \in LegacySetups
    /\ removed = {}
    /\ step = "idle"
    /\ mode \in Modes
    /\ titles = <<>>
    /\ pos = 1
    /\ choice = NothingChosen
    /\ overridden = FALSE
    /\ successor = NothingChosen

Tool ==
    \/ Begin
    \/ SkipUnusable \/ AcceptProposal \/ Decline \/ Override
    \/ NothingToWrite \/ Abort \/ OpenStore \/ OpenRefused
    \/ SeedStore \/ SeedStoreRejected
    \/ Uninstall \/ NoUninstall \/ Finish \/ Kill

Service == BridgeStart \/ BridgeAllocate \/ BridgeStop \/ Activate \/ Deactivate

MigrationNext == Tool \/ Service

MigrationSpec == MigrationInit /\ [][MigrationNext]_migrationVars

-------------------------------------------------------------------------------
MigrationTypeOK ==
    /\ StoreTypeOK
    /\ bOpened \in BOOLEAN /\ bRange \in Ranges
    /\ bMap \in Maps /\ bRecs \in Files
    /\ marker \in BOOLEAN
    /\ legacy \in LegacySetups
    /\ removed \subseteq DOMAIN legacy
    /\ step \in {"idle", "decide", "seed", "uninstall", "failed"}
    /\ mode \in Modes
    /\ titles \in EvccLists \cup {<<>>}
    /\ pos \in 1 .. Len(legacy) + 1
    /\ choice \in [DOMAIN legacy -> Titles \cup {None}]
    /\ overridden \in BOOLEAN
    /\ successor \in [DOMAIN legacy -> Titles \cup {None}]

(***************************************************************************)
(* A legacy bridge is uninstalled only for a title that has its place on   *)
(* disk: not after a seed that was refused or failed to write, whatever    *)
(* happens to the tool between the two (main, "Apply" and "Optional        *)
(* uninstall").                                                            *)
(***************************************************************************)
RemovedHasSuccessor ==
    \A i \in removed : successor[i] # None /\ disk[successor[i]] # None

(***************************************************************************)
(* --auto never guesses (propose_mappings, "Hardening"): a title it seeds  *)
(* stands in one slot of EVCC, whatever its case, and that slot is the one *)
(* the install's index names or, if it has none, the one with its name.    *)
(***************************************************************************)
AutoIsUnambiguous ==
    step # "idle" /\ mode.auto => \A i \in Chosen : \E n \in DOMAIN titles :
        /\ titles[n] = choice[i]
        /\ \A m \in DOMAIN titles : Lower[titles[m]] = Lower[titles[n]] => m = n
        /\ legacy[i].index # None => legacy[i].index = n - 1
        /\ legacy[i].index = None => legacy[i].name = Lower[titles[n]]

(***************************************************************************)
(* A legacy bridge that was uninstalled has handed its DeviceInstance, and *)
(* the VRM history behind it, to a loadpoint in state.json.                *)
(***************************************************************************)
UninstalledIsCarried ==
    \A i \in removed : \E t \in Titles :
        disk[t] # None /\ disk[t].di = legacy[i].di
===============================================================================
