------------------------------ MODULE MCStateFile ------------------------------
(* Two processes, two entries; the directory and its copy on the medium name *)
(* at most four inodes.  Processes, entries and inodes are alike.  Once two  *)
(* flushes have overlapped nothing is claimed any more, and what comes after *)
(* is not explored.                                                          *)
EXTENDS StateFile, TLC

CONSTANTS bridge, tool, Carport, Garage, i1, i2, i3, i4

Symmetric == Permutations({bridge, tool}) \cup Permutations({Carport, Garage})
             \cup Permutations({i1, i2, i3, i4})

Apart == ~overlapped
================================================================================
