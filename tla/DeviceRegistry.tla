---------------------------- MODULE DeviceRegistry ----------------------------
(***************************************************************************)
(* What the bridge promises about DeviceInstances, whatever it does inside *)
(* (state_store.py, the invariants of the module's docstring): a loadpoint *)
(* title that ever got an instance keeps it, and no instance ever belongs  *)
(* to two titles.                                                          *)
(***************************************************************************)
CONSTANTS Titles, DIs, None

VARIABLE assigned   \* title -> its DeviceInstance, None before the first

Exclusive(f) ==
    \A t, u \in Titles : t # u /\ f[t] # None => f[t] # f[u]

Assignments == {f \in [Titles -> DIs \cup {None}] : Exclusive(f)}

\* g keeps every assignment of f.
Extends(f, g) == \A t \in Titles : f[t] # None => g[t] = f[t]

Init == assigned \in Assignments

\* Titles get instances that are free; nothing is taken back or moved.
Assign ==
    /\ assigned' \in Assignments
    /\ Extends(assigned, assigned')

Spec == Init /\ [][Assign]_assigned
=============================================================================
