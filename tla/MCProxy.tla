-------------------------------- MODULE MCProxy --------------------------------
(* A request line in two pieces, two chunks after it, and an answer of three.  *)
EXTENDS ProxyConnection

MCWritten == [d \in Dirs |-> IF d = "up" THEN 4 ELSE 3]
================================================================================
