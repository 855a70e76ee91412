---------------------------- MODULE EnergyCounter ----------------------------
(***************************************************************************)
(* The continuity guard of /Ac/Energy/Forward (energy.py, EnergyCounter):  *)
(* EVCC's raw reading plus an offset that is chosen so that the published  *)
(* series continues where it stood.  One unit of the integers below is     *)
(* whatever the instance says (an instance may take Wh or half kWh); the   *)
(* thresholds of the source are constants in the same unit.                *)
(***************************************************************************)
EXTENDS Integers

CONSTANTS
    None,          \* Python's None
    ZeroKwh,       \* a reading at or below this is "no data"
    ResetEpsilon,  \* a drop of at most this is rounding
    PersistStep,   \* a change of the reading worth a write (1.0 kWh)
    Confirmations  \* lower readings before a restart is believed

ASSUME NoneAssumption == None \notin Int
ASSUME ThresholdAssumption ==
    /\ ZeroKwh \in Nat
    /\ ResetEpsilon \in Nat
    /\ PersistStep \in Nat \ {0}
    /\ Confirmations \in Nat \ {0}

(***************************************************************************)
(* A counter object: the offset, the last accepted reading, the value to   *)
(* take over at the next reading, and the three fields that live in memory *)
(* only.                                                                   *)
(***************************************************************************)
Counter == [offset    : Int,
            source    : Int \cup {None},
            adopt     : Int \cup {None},
            published : Int \cup {None},
            dirty     : BOOLEAN,
            low       : 0 .. Confirmations - 1]

\* The persisted part of a counter, as StateStore keeps it.
AsDict(c) == [offset |-> c.offset, source |-> c.source, adopt |-> c.adopt]

\* Mutant: the offset is not read back.
FromDictNoOffset(d) == [offset    |-> 0,
                        source    |-> d.source,
                        adopt     |-> d.adopt,
                        published |-> None,
                        dirty     |-> FALSE,
                        low       |-> 0]

\* The counter a process starts with, from the persisted part.
FromDict(d) == [offset    |-> d.offset,
                source    |-> d.source,
                adopt     |-> d.adopt,
                published |-> None,
                dirty     |-> FALSE,
                low       |-> 0]

\* What value() answers when it does not accept the reading.
Held(c) == IF c.published = None THEN 0 ELSE c.published

NoData(reading) == reading <= ZeroKwh

\* The reading lies below the last accepted one by more than rounding.
Fallen(c, reading) ==
    /\ c.adopt = None
    /\ c.source # None
    /\ reading < c.source - ResetEpsilon

\* Mutant: one confirmation too few.
GlitchTooShort(c, reading) ==
    Fallen(c, reading) /\ c.low + 2 < Confirmations

\* A lower reading that too few others have confirmed: wait.
Glitch(c, reading) == Fallen(c, reading) /\ c.low + 1 < Confirmations

\* The value the series continues from once the source restarted.
ResetBase(c) == IF c.published # None THEN c.published ELSE c.source

\* Mutant: the adopted value becomes the offset itself.
RebasedOntoReading(c, reading) ==
    IF c.adopt # None
    THEN [c EXCEPT !.offset = c.adopt, !.adopt = None, !.dirty = TRUE]
    ELSE IF c.source = None
    THEN [c EXCEPT !.offset = 0, !.dirty = TRUE]
    ELSE IF Fallen(c, reading)
    THEN [c EXCEPT !.offset = ResetBase(c) - reading, !.low = 0, !.dirty = TRUE]
    ELSE [c EXCEPT !.low = 0]

(***************************************************************************)
(* The offset for a reading that is accepted: taken over from a legacy     *)
(* service, zero for a loadpoint never read before, shifted for a source   *)
(* that restarted, else as it was.                                         *)
(***************************************************************************)
Rebased(c, reading) ==
    IF c.adopt # None
    THEN [c EXCEPT !.offset = c.adopt - reading, !.adopt = None, !.dirty = TRUE]
    ELSE IF c.source = None
    THEN [c EXCEPT !.offset = 0, !.dirty = TRUE]
    ELSE IF Fallen(c, reading)
    THEN [c EXCEPT !.offset = ResetBase(c) - reading, !.low = 0, !.dirty = TRUE]
    ELSE [c EXCEPT !.low = 0]

\* The reading differs from the last accepted one by enough to be saved.
Moved(c, reading) ==
    \/ c.source = None
    \/ reading - c.source >= PersistStep
    \/ c.source - reading >= PersistStep

Accept(c, reading) ==
    LET total == reading + c.offset
    IN  [c EXCEPT !.source    = reading,
                  !.dirty     = @ \/ Moved(c, reading),
                  !.published = IF @ # None /\ total < @ THEN @ ELSE total]

\* The counter after value(reading); the value returned is Held of it.
AfterReading(c, reading) ==
    IF NoData(reading) THEN c
    ELSE IF Glitch(c, reading) THEN [c EXCEPT !.low = @ + 1]
    ELSE Accept(Rebased(c, reading), reading)
=============================================================================
