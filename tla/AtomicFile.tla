------------------------------ MODULE AtomicFile ------------------------------
(***************************************************************************)
(* What the store's methods take state.json for: contents that a process   *)
(* reads once, keeps in memory, adds to and replaces as a whole, whatever  *)
(* the other processes have put there since.  A power loss returns to      *)
(* contents that were there before.  Once two replacements were made at    *)
(* the same time nothing is promised any more.                             *)
(***************************************************************************)
CONSTANTS
    Contents,  \* what may be in the file
    Empty,     \* what a process without the file has in memory
    Holders    \* the processes

VARIABLES
    file,      \* what a process finds in the file
    medium,    \* what it would find after a power loss
    held,      \* the processes that have the file open
    memory,    \* their dictionaries
    broken     \* two have replaced the file at the same time

Init ==
    /\ file \in Contents
    /\ medium = file
    /\ held = {}
    /\ memory = [h \in Holders |-> Empty]
    /\ broken = FALSE

Open(h) ==
    /\ h \notin held
    /\ held' = held \cup {h}
    /\ memory' = [memory EXCEPT ![h] = file]
    /\ UNCHANGED <<file, medium, broken>>

\* Either all of it or, where the write raises, none.
Flush(h) ==
    /\ h \in held
    /\ \E contents \in Contents :
          /\ memory[h] \subseteq contents
          /\ memory' = [memory EXCEPT ![h] = contents]
          /\ file' = contents
    /\ medium' \in {medium, file'}
    /\ UNCHANGED <<held, broken>>

Sync ==
    /\ medium' = file
    /\ UNCHANGED <<file, held, memory, broken>>

Leave(h) ==
    /\ held' = held \ {h}
    /\ memory' = [memory EXCEPT ![h] = Empty]
    /\ UNCHANGED <<file, medium, broken>>

PowerLoss ==
    /\ file' = medium
    /\ held' = {}
    /\ memory' = [h \in Holders |-> Empty]
    /\ UNCHANGED <<medium, broken>>

Next ==
    \/ \E h \in Holders : Open(h) \/ Flush(h) \/ Leave(h)
    \/ Sync
    \/ PowerLoss
    \/ broken'

Spec == Init /\ [][Next]_<<file, medium, held, memory, broken>>
===============================================================================
