------------------------------- MODULE ByteStream -------------------------------
(* What one direction of a connection promises: the receiver has a prefix   *)
(* of what the sender wrote, and it only gets longer.                        *)
EXTENDS Naturals, Sequences

VARIABLES written,   \* chunks the sender has written: 1 to this number
          received   \* the chunks that have arrived, in their order

streamVars == <<written, received>>

\* The first n chunks, as they were written.
Chunks(n) == [i \in 1..n |-> i]

StreamInit == written = 0 /\ received = <<>>

Write == written' = written + 1 /\ UNCHANGED received

Arrive ==
    /\ \E n \in Len(received) + 1 .. written : received' = Chunks(n)
    /\ UNCHANGED written

StreamSpec == StreamInit /\ [][Write \/ Arrive]_streamVars
=================================================================================
