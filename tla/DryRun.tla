--------------------------------- MODULE DryRun ---------------------------------
(***************************************************************************)
(* dbus-evcc.py --plan (_print_plan): what a start would do, from the file *)
(* and one answer of EVCC, with nothing written.  The same rules as in the *)
(* store and the energy guard, coded a second time.                        *)
(***************************************************************************)
EXTENDS LoadpointSync, FiniteSets

\* The free instances, and the titles of the list that have none yet up to a
\* place: each takes the next one.  A duplicate takes one too.
FreeOf(m) == (range[1] .. range[2]) \ {m[t] : t \in Titles}

NewUpTo(m, list, i) == {j \in 1 .. i : m[list[j]] = None}

NthOf(set, n) ==
    {x \in set : Cardinality({y \in set : y < x}) = n - 1}

\* The column DI of the plan; None stands for "new".
Forecast(m, list) ==
    [i \in DOMAIN list |->
        IF m[list[i]] # None THEN m[list[i]]
        ELSE LET mine == NthOf(FreeOf(m), Cardinality(NewUpTo(m, list, i)))
             IN  IF mine = {} THEN None ELSE CHOOSE di \in mine : TRUE]

\* The column PUBLISHED: the first value to be shown, None if it cannot tell.
ForecastEnergy(c, import) ==
    IF c.adopt # None THEN c.adopt
    ELSE IF import = 0 THEN None
    ELSE IF c.source = None THEN import
    ELSE import + c.offset

-------------------------------------------------------------------------------
NoDuplicates(list) == Unique(list) = {list[i] : i \in DOMAIN list}

(***************************************************************************)
(* The plan comes true: while the bridge walks a list without duplicates,  *)
(* the instances the plan names for it stand, whichever of them are given  *)
(* out already, which writes fail and which names are taken ("Show what    *)
(* the first start would do", --plan).                                     *)
(***************************************************************************)
PlanStands ==
    [][opened /\ opened' /\ poll' = poll /\ NoDuplicates(poll)
          => Forecast(map', poll) = Forecast(map, poll)]_syncVars

(***************************************************************************)
(* The first value a process shows for a loadpoint is the one the plan     *)
(* says, unless the meter is below its saved reading (EVCC was restarted). *)
(***************************************************************************)
FirstUpdate(t) ==
    /\ pc = "update" /\ pc' = "save" /\ t = Title
    /\ CounterOf(t).published = None

PlanPublishes ==
    [][\A t \in Titles :
          /\ FirstUpdate(t)
          /\ report[t].import > 0
          /\ CounterOf(t).source # None => report[t].import >= CounterOf(t).source
          => shown'[t] = ForecastEnergy(CounterOf(t), report[t].import)]_syncVars
=================================================================================
