----------------------------- MODULE StoreCallers -----------------------------
(***************************************************************************)
(* The store under any sequence of calls: processes open it one after the  *)
(* other (the bridge, seed_state.py, migrate_from_lp.py), call its methods *)
(* in any order and end at any point.                                      *)
(***************************************************************************)
EXTENDS StateStore

CONSTANTS
    SeedMaps,     \* what seed may be called with
    AdoptValues,  \* what seed_energy may be called with
    Counters      \* the counters save_energy may be called with

ASSUME CallersAssumption ==
    /\ SeedMaps \subseteq Maps
    /\ AdoptValues \subseteq [Titles -> Int \cup {None}]
    /\ Counters \subseteq Counter

OpenSome       == \E r \in Ranges : Open(r)
OpenBlind      == \E r \in Ranges : OpenUnreadable(r)
AllocateSome   == \E t \in Titles, ok \in BOOLEAN : Allocate(t, ok)
SeedSome       == \E m \in SeedMaps, ok \in BOOLEAN : Seed(m, ok)
SeedRefused    == \E m \in SeedMaps : SeedRejected(m)
AdoptSome      == \E v \in AdoptValues, ok \in BOOLEAN : SeedEnergy(v, ok)
AdoptRefused   == \E v \in AdoptValues : SeedEnergyRejected(v)
SaveSome       == \E t \in Titles, c \in Counters, ok \in BOOLEAN :
                      SaveEnergy(t, c, ok)
End            == opened /\ Close

StoreNext ==
    \/ OpenSome \/ OpenBlind
    \/ AllocateSome
    \/ SeedSome \/ SeedRefused
    \/ AdoptSome \/ AdoptRefused
    \/ SaveSome
    \/ End

StoreSpec == StoreInit /\ [][StoreNext]_storeVars
=============================================================================
