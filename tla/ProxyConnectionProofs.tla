------------------------- MODULE ProxyConnectionProofs -------------------------
(***************************************************************************)
(* A connection through the proxy, for a request line and answers of any   *)
(* number of pieces and for ends that close whenever they like.            *)
(***************************************************************************)
EXTENDS ProxyConnection, SequenceTheorems, TLAPS

\* The n chunks after the first k.
Run(k, n) == [i \in 1..n |-> k + i]

\* What the proxy has taken off the wire.
Read(d) == written[d] - Len(wire[d])

-------------------------------------------------------------------------------
\* The inductive invariant.

Shape ==
    /\ login \in BOOLEAN /\ redirected \in BOOLEAN
    /\ written \in [Dirs -> Nat]
    /\ \A d \in Dirs : written[d] <= Written[d]
    /\ wire \in [Dirs -> Seq(Nat)]
    /\ got \in [Dirs -> Seq(Nat)]
    /\ splice \in [Dirs -> {"recv", "sendall", "finally", "done"}]
    /\ data \in [Dirs -> Seq(Nat)]
    /\ \A d \in Dirs : data[d] \in Seq(1 .. Written[d]) /\ Len(data[d]) <= 1
    /\ closed \subseteq Ends /\ shut \subseteq Ends
    /\ handler \in {"peek", "replay", "splice", "done"}
    /\ buf \in Seq(1 .. Written["up"]) /\ Len(buf) <= FirstLine

\* What is on the wire follows what was read, and what was sent on is a part
\* of that.
InOrder ==
    \A d \in Dirs :
        /\ Len(wire[d]) <= written[d]
        /\ wire[d] = Run(Read(d), Len(wire[d]))
        /\ Len(got[d]) <= Read(d)
        /\ got[d] = Run(0, Len(got[d]))

\* Before the threads run, all that was read is in the buffer.
Peeked ==
    handler \in {"peek", "replay"} =>
        /\ buf = Run(0, Read("up"))
        /\ \A d \in Dirs : got[d] = <<>>
        /\ written["down"] = 0
        /\ shut = {}

Unspliced ==
    handler # "splice" =>
        \A d \in Dirs : data[d] = <<>> /\ splice[d] = "recv"

\* A thread at recv has sent on all it read, one at sendall all but what it
\* has in hand, as long as the sink was there.
InHand ==
    handler = "splice" =>
        \A d \in Dirs :
            /\ splice[d] = "recv" => data[d] = <<>>
            /\ splice[d] = "sendall" =>
                  data[d] = <<Read(d)>> /\ Len(got[d]) < Read(d)
            /\ Sink(d) \notin closed =>
                  /\ splice[d] = "recv" => Len(got[d]) = Read(d)
                  /\ splice[d] = "sendall" => Len(got[d]) + 1 = Read(d)

\* A request for the login page is not passed on.
Local ==
    /\ login => got["up"] = <<>> /\ handler \notin {"replay", "splice"}
    /\ redirected => login

ProxyInv == Shape /\ InOrder /\ Peeked /\ Unspliced /\ InHand /\ Local

-------------------------------------------------------------------------------
\* Sequences of consecutive chunks.

\* A run of n bytes after the k-th.
LEMMA RunParts ==
    ASSUME NEW k \in Nat, NEW n \in Nat
    PROVE  /\ Run(k, n) \in Seq(Nat)
           /\ Len(Run(k, n)) = n
           /\ \A i \in 1..n : Run(k, n)[i] = k + i
BY DEF Run

\* None of them.
LEMMA RunEmpty ==
    ASSUME NEW k \in Nat
    PROVE  Run(k, 0) = <<>>
BY DEF Run

\* One more at its end.
LEMMA RunAppended ==
    ASSUME NEW k \in Nat, NEW n \in Nat
    PROVE  /\ Append(Run(k, n), k + n + 1) = Run(k, n + 1)
           /\ Run(k, n) \o <<k + n + 1>> = Run(k, n + 1)
BY DEF Run

\* One less at its start.
LEMMA RunTaken ==
    ASSUME NEW k \in Nat, NEW n \in Nat \ {0}
    PROVE  /\ Head(Run(k, n)) = k + 1
           /\ Tail(Run(k, n)) = Run(k + 1, n - 1)
BY SMTT(30) DEF Run

\* The two directions and their ends.
LEMMA Directions ==
    /\ "up" \in Dirs /\ "down" \in Dirs
    /\ \A d \in Dirs : d = "up" \/ d = "down"
    /\ \A d \in Dirs : Source(d) \in Ends /\ Sink(d) \in Ends
    /\ Sink("up") = "evcc" /\ Sink("down") = "client"
    /\ Source("up") = "client" /\ Source("down") = "evcc"
BY DEF Dirs, Ends, Source, Sink

\* What the proxy has read is a number of chunks that were written.
LEMMA ReadBounds ==
    ASSUME ProxyInv, NEW d \in Dirs
    PROVE  /\ Len(wire[d]) \in Nat /\ Len(got[d]) \in Nat /\ written[d] \in Nat
           /\ Read(d) \in Nat
           /\ Read(d) + Len(wire[d]) = written[d]
           /\ Len(got[d]) <= Read(d)
           /\ Written[d] \in Nat /\ written[d] <= Written[d]
<1>1. wire[d] \in Seq(Nat) /\ got[d] \in Seq(Nat)
  BY DEF ProxyInv, Shape
<1>2. written[d] \in Nat /\ written[d] <= Written[d]
  BY DEF ProxyInv, Shape
<1>3. Written[d] \in Nat
  BY ProxyAssumption
<1>4. Len(wire[d]) <= written[d] /\ Len(got[d]) <= Read(d)
  BY DEF ProxyInv, InOrder
<1>5. Len(wire[d]) \in Nat /\ Len(got[d]) \in Nat
  BY <1>1
<1> QED BY <1>2, <1>3, <1>4, <1>5 DEF Read

-------------------------------------------------------------------------------
\* Each step keeps the invariant.

\* Each end writes the next byte of its own stream.
LEMMA WriteKeeps ==
    ASSUME ProxyInv, NEW d \in Dirs, EndWrites(d)
    PROVE  ProxyInv'
<1> DEFINE n == Len(wire[d])
<1>1. /\ n \in Nat /\ Read(d) \in Nat /\ written[d] \in Nat
      /\ Read(d) + n = written[d]
      /\ Written[d] \in Nat
  BY ReadBounds
<1>2. /\ written' = [written EXCEPT ![d] = @ + 1]
      /\ wire' = [wire EXCEPT ![d] = Append(@, written'[d])]
      /\ UNCHANGED <<login, closed, got, handler, buf, redirected, splice, data, shut>>
  BY DEF EndWrites, handleVars, spliceVars
<1>3. /\ written \in [Dirs -> Nat] /\ wire \in [Dirs -> Seq(Nat)]
      /\ wire[d] = Run(Read(d), n)
  BY DEF ProxyInv, Shape, InOrder
<1>4. written'[d] = written[d] + 1 /\ written'[d] = Read(d) + n + 1
  BY <1>1, <1>2, <1>3
<1>5. wire'[d] = Run(Read(d), n + 1)
  BY <1>1, <1>2, <1>3, <1>4, RunAppended
<1>6. Len(wire'[d]) = n + 1 /\ wire'[d] \in Seq(Nat)
  <2>1. n + 1 \in Nat /\ Read(d) \in Nat
    BY <1>1
  <2> HIDE DEF n
  <2> QED BY <1>5, <2>1, RunParts
<1>7. \A e \in Dirs \ {d} : written'[e] = written[e] /\ wire'[e] = wire[e]
  BY <1>2, <1>3
<1>8. \A e \in Dirs : Read(e)' = Read(e)
  <2>1. Read(d)' = Read(d)
    <3>1. Read(d)' = written'[d] - Len(wire'[d])
      BY DEF Read
    <3> HIDE DEF n
    <3> QED BY <1>1, <1>4, <1>6, <3>1
  <2>2. \A e \in Dirs \ {d} : Read(e)' = Read(e)
    BY <1>7 DEF Read
  <2> QED BY <2>1, <2>2
<1>9. Shape'
  <2>1. written' \in [Dirs -> Nat] /\ wire' \in [Dirs -> Seq(Nat)]
    BY <1>1, <1>2, <1>3, <1>4, <1>6
  <2>2. \A e \in Dirs : written'[e] <= Written[e]
    <3>1. written[d] < Written[d]
      BY DEF EndWrites
    <3>2. written'[d] <= Written[d]
      BY <1>1, <1>4, <3>1
    <3>3. \A e \in Dirs \ {d} : written'[e] <= Written[e]
      BY <1>7 DEF ProxyInv, Shape
    <3> QED BY <3>2, <3>3
  <2> QED BY <1>2, <2>1, <2>2 DEF ProxyInv, Shape
<1>10. InOrder'
  <2> SUFFICES ASSUME NEW e \in Dirs
               PROVE  /\ Len(wire'[e]) <= written'[e]
                      /\ wire'[e] = Run(Read(e)', Len(wire'[e]))
                      /\ Len(got'[e]) <= Read(e)'
                      /\ got'[e] = Run(0, Len(got'[e]))
    BY DEF InOrder
  <2>1. Len(got'[e]) <= Read(e)' /\ got'[e] = Run(0, Len(got'[e]))
    BY <1>2, <1>8 DEF ProxyInv, InOrder
  <2>2. CASE e = d
    BY <1>1, <1>4, <1>5, <1>6, <1>8, <2>1, <2>2
  <2>3. CASE e # d
    BY <1>7, <1>8, <2>1, <2>3 DEF ProxyInv, InOrder
  <2> QED BY <2>2, <2>3
<1>11. Peeked'
  <2> SUFFICES ASSUME handler \in {"peek", "replay"}
               PROVE  /\ buf = Run(0, Read("up"))
                      /\ \A e \in Dirs : got[e] = <<>>
                      /\ written'["down"] = 0
                      /\ shut = {}
    BY <1>2, <1>8, Directions DEF Peeked
  <2>1. /\ buf = Run(0, Read("up")) /\ \A e \in Dirs : got[e] = <<>>
        /\ written["down"] = 0 /\ shut = {}
    BY DEF ProxyInv, Peeked
  <2>2. d # "down"
    BY <2>1, Directions DEF EndWrites
  <2> QED BY <1>7, <2>1, <2>2, Directions
<1>12. Unspliced' /\ InHand' /\ Local'
  BY <1>2, <1>8 DEF ProxyInv, Unspliced, InHand, Local
<1> QED BY <1>9, <1>10, <1>11, <1>12 DEF ProxyInv

\* An end that closes writes no more.
LEMMA CloseKeeps ==
    ASSUME ProxyInv, NEW e \in Ends, EndCloses(e)
    PROVE  ProxyInv'
<1>1. /\ closed' = closed \cup {e}
      /\ UNCHANGED <<login, written, wire, got, handler, buf, redirected, splice,
                     data, shut>>
  BY DEF EndCloses, handleVars, spliceVars
<1>2. \A d \in Dirs : Read(d)' = Read(d)
  BY <1>1 DEF Read
<1>3. Shape' /\ Peeked' /\ Unspliced' /\ Local'
  BY <1>1, <1>2, Directions DEF ProxyInv, Shape, Peeked, Unspliced, Local
<1>4. InOrder'
  BY <1>1, <1>2 DEF ProxyInv, InOrder
<1>5. InHand'
  BY <1>1, <1>2 DEF ProxyInv, InHand
<1> QED BY <1>3, <1>4, <1>5 DEF ProxyInv

\* What taking the first chunk off a wire does to it.
LEMMA Taken ==
    ASSUME ProxyInv, NEW d \in Dirs, wire[d] # <<>>,
           wire' = [wire EXCEPT ![d] = Tail(@)], UNCHANGED <<written, got>>
    PROVE  /\ Head(wire[d]) = Read(d) + 1
           /\ Read(d) + 1 \in 1 .. Written[d]
           /\ Read(d)' = Read(d) + 1
           /\ \A e \in Dirs \ {d} : Read(e)' = Read(e)
           /\ wire' \in [Dirs -> Seq(Nat)]
           /\ InOrder'
<1> DEFINE n == Len(wire[d])
<1>1. /\ n \in Nat /\ Read(d) \in Nat /\ written[d] \in Nat
      /\ Read(d) + n = written[d]
      /\ Written[d] \in Nat /\ written[d] <= Written[d]
      /\ Len(got[d]) \in Nat /\ Len(got[d]) <= Read(d)
  BY ReadBounds
<1>2. /\ wire \in [Dirs -> Seq(Nat)] /\ wire[d] = Run(Read(d), n)
  BY DEF ProxyInv, Shape, InOrder
<1>3. n \in Nat \ {0}
  BY <1>1, <1>2, RunEmpty
<1>4. Head(wire[d]) = Read(d) + 1 /\ wire'[d] = Run(Read(d) + 1, n - 1)
  BY <1>1, <1>2, <1>3, RunTaken
<1>5. Len(wire'[d]) = n - 1 /\ wire'[d] \in Seq(Nat)
  <2>1. Read(d) + 1 \in Nat /\ n - 1 \in Nat
    BY <1>1, <1>3
  <2> HIDE DEF n
  <2> QED BY <1>4, <2>1, RunParts, ZenonT(60)
<1>6. \A e \in Dirs \ {d} : wire'[e] = wire[e]
  BY <1>2
<1>7. Read(d)' = Read(d) + 1 /\ \A e \in Dirs \ {d} : Read(e)' = Read(e)
  BY <1>1, <1>3, <1>5, <1>6 DEF Read
<1>8. wire' \in [Dirs -> Seq(Nat)]
  BY <1>2, <1>5, <1>6
<1>9. InOrder'
  <2> SUFFICES ASSUME NEW e \in Dirs
               PROVE  /\ Len(wire'[e]) <= written[e]
                      /\ wire'[e] = Run(Read(e)', Len(wire'[e]))
                      /\ Len(got[e]) <= Read(e)'
                      /\ got[e] = Run(0, Len(got[e]))
    BY DEF InOrder
  <2>1. got[e] = Run(0, Len(got[e]))
    BY DEF ProxyInv, InOrder
  <2>2. CASE e = d
    BY <1>1, <1>3, <1>4, <1>5, <1>7, <2>1, <2>2
  <2>3. CASE e # d
    BY <1>6, <1>7, <2>1, <2>3 DEF ProxyInv, InOrder
  <2> QED BY <2>2, <2>3
<1> QED BY <1>1, <1>3, <1>4, <1>7, <1>8, <1>9

\* What was peeked is held back, in order.
LEMMA PeekKeeps ==
    ASSUME ProxyInv, Peek
    PROVE  ProxyInv'
<1>1. /\ handler = "peek" /\ ~FirstLineRead(buf) /\ wire["up"] # <<>>
      /\ buf' = Append(buf, Head(wire["up"]))
      /\ wire' = [wire EXCEPT !["up"] = Tail(@)]
      /\ UNCHANGED <<login, written, closed, got, handler, redirected, splice,
                     data, shut>>
  BY DEF Peek, endVars, spliceVars
<1>2. /\ Head(wire["up"]) = Read("up") + 1
      /\ Read("up") + 1 \in 1 .. Written["up"]
      /\ Read("up")' = Read("up") + 1
      /\ wire' \in [Dirs -> Seq(Nat)]
      /\ InOrder'
  BY <1>1, Directions, Taken
<1>3. /\ buf = Run(0, Read("up")) /\ \A d \in Dirs : got[d] = <<>>
      /\ written["down"] = 0 /\ shut = {}
  BY <1>1 DEF ProxyInv, Peeked
<1>4. buf' = Run(0, Read("up")')
  <2>1. Read("up") \in Nat
    BY Directions, ReadBounds
  <2>2. Append(Run(0, Read("up")), 0 + Read("up") + 1) = Run(0, Read("up") + 1)
    BY <2>1, RunAppended
  <2>3. 0 + Read("up") + 1 = Read("up") + 1
    BY <2>1
  <2> QED BY <1>1, <1>2, <1>3, <2>2, <2>3
<1>5. buf' \in Seq(1 .. Written["up"]) /\ Len(buf') <= FirstLine
  <2>1. buf \in Seq(1 .. Written["up"]) /\ Len(buf) < FirstLine
    BY <1>1, ProxyAssumption DEF ProxyInv, Shape, FirstLineRead
  <2> QED BY <1>1, <1>2, <2>1, ProxyAssumption
<1>6. Shape'
  BY <1>1, <1>2, <1>5 DEF ProxyInv, Shape
<1>7. Peeked'
  BY <1>1, <1>3, <1>4 DEF Peeked
<1>8. Unspliced' /\ InHand' /\ Local'
  BY <1>1 DEF ProxyInv, Unspliced, InHand, Local
<1> QED BY <1>2, <1>6, <1>7, <1>8 DEF ProxyInv

\* The handler closes the client's socket and is gone.
LEMMA LeaveKeeps ==
    ASSUME ProxyInv, handler \in {"peek", "replay"}, HandlerLeaves,
           redirected' \in BOOLEAN, redirected' => login
    PROVE  ProxyInv'
<1>1. /\ handler' = "done" /\ shut' = shut \cup {"client"}
      /\ UNCHANGED <<login, written, closed, wire, got, buf, splice, data>>
  BY DEF HandlerLeaves, endVars, spliceVars
<1>2. \A d \in Dirs : Read(d)' = Read(d)
  BY <1>1 DEF Read
<1>3. Shape'
  BY <1>1 DEF ProxyInv, Shape, Ends
<1>4. InOrder'
  BY <1>1, <1>2 DEF ProxyInv, InOrder
<1>5. Peeked' /\ Unspliced' /\ InHand'
  BY <1>1 DEF ProxyInv, Peeked, Unspliced, InHand
<1>6. Local'
  BY <1>1 DEF ProxyInv, Local
<1> QED BY <1>3, <1>4, <1>5, <1>6 DEF ProxyInv

\* The decision: the redirect, or what was peeked and then the splice.
LEMMA HandleKeeps ==
    ASSUME ProxyInv, Handle
    PROVE  ProxyInv'
<1>1. redirected \in BOOLEAN /\ login \in BOOLEAN /\ (redirected => login)
  BY DEF ProxyInv, Shape, Local
<1>2. CASE Peek
  BY <1>2, PeekKeeps
<1>3. CASE PeekEnds \/ ConnectFails \/ ReplayFails
  <2>1. handler \in {"peek", "replay"} /\ HandlerLeaves /\ UNCHANGED redirected
    BY <1>3 DEF PeekEnds, ConnectFails, ReplayFails
  <2> QED BY <1>1, <2>1, LeaveKeeps
<1>4. CASE Redirect
  <2>1. handler \in {"peek", "replay"} /\ HandlerLeaves /\ redirected' = TRUE /\ login
    BY <1>4 DEF Redirect, ShouldRedirect
  <2> QED BY <2>1, LeaveKeeps
<1>5. CASE Connect
  <2>1. /\ handler = "peek" /\ handler' = "replay" /\ ~login
        /\ UNCHANGED <<login, written, closed, wire, got, buf, redirected, splice,
                       data, shut>>
    BY <1>5 DEF Connect, FirstLineRead, ShouldRedirect, endVars, spliceVars
  <2>2. \A d \in Dirs : Read(d)' = Read(d)
    BY <2>1 DEF Read
  <2>3. Shape'
    BY <2>1 DEF ProxyInv, Shape
  <2>4. InOrder'
    BY <2>1, <2>2 DEF ProxyInv, InOrder
  <2>5. Peeked'
    BY <2>1, <2>2, Directions DEF ProxyInv, Peeked
  <2>6. Unspliced' /\ InHand' /\ Local'
    BY <1>1, <2>1 DEF ProxyInv, Unspliced, InHand, Local
  <2> QED BY <2>3, <2>4, <2>5, <2>6 DEF ProxyInv
<1>6. CASE Replay
  <2>1. /\ handler = "replay" /\ handler' = "splice"
        /\ got' = [got EXCEPT !["up"] = @ \o buf]
        /\ UNCHANGED <<login, written, closed, wire, buf, redirected, splice, data,
                       shut>>
    BY <1>6 DEF Replay, endVars, spliceVars
  <2>2. \A d \in Dirs : Read(d)' = Read(d) /\ Read(d) \in Nat
    BY <2>1, ReadBounds DEF Read
  <2>3. /\ buf = Run(0, Read("up")) /\ \A d \in Dirs : got[d] = <<>>
        /\ written["down"] = 0 /\ ~login
    BY <2>1 DEF ProxyInv, Peeked, Local
  <2>4. got \in [Dirs -> Seq(Nat)]
    BY DEF ProxyInv, Shape
  <2>5. /\ got'["up"] = Run(0, Read("up")) /\ Len(got'["up"]) = Read("up")
        /\ got'["up"] \in Seq(Nat)
    <3>1. /\ Run(0, Read("up")) \in Seq(Nat)
          /\ Len(Run(0, Read("up"))) = Read("up")
      BY <2>2, Directions, RunParts
    <3>2. got'["up"] = <<>> \o Run(0, Read("up"))
      BY <2>1, <2>3, <2>4, Directions
    <3> QED BY <3>1, <3>2, ConcatEmptySeq
  <2>6. got'["down"] = <<>> /\ got' \in [Dirs -> Seq(Nat)]
    BY <2>1, <2>3, <2>4, <2>5, Directions
  <2>7. Read("down") = 0
    BY <2>3, Directions, ReadBounds
  <2>8. Shape'
    BY <2>1, <2>6 DEF ProxyInv, Shape
  <2>9. InOrder'
    <3>1. \A d \in Dirs : Len(got'[d]) = Read(d) /\ got'[d] = Run(0, Read(d))
      BY <2>5, <2>6, <2>7, Directions, RunEmpty, SMTT(30)
    <3>2. \A d \in Dirs : /\ Len(wire'[d]) <= written'[d]
                          /\ wire'[d] = Run(Read(d)', Len(wire'[d]))
      BY <2>1, <2>2 DEF ProxyInv, InOrder
    <3>3. \A d \in Dirs : /\ Len(got'[d]) <= Read(d)'
                          /\ got'[d] = Run(0, Len(got'[d]))
      BY <2>2, <3>1
    <3> QED BY <3>2, <3>3 DEF InOrder
  <2>10. InHand'
    <3>1. \A d \in Dirs : data[d] = <<>> /\ splice[d] = "recv"
      BY <2>1 DEF ProxyInv, Unspliced
    <3>2. \A d \in Dirs : Len(got'[d]) = Read(d)
      BY <2>5, <2>6, <2>7, Directions, SMTT(30)
    <3> QED BY <2>1, <2>2, <3>1, <3>2 DEF InHand
  <2>11. Peeked' /\ Unspliced' /\ Local'
    BY <1>1, <2>1, <2>3 DEF Peeked, Unspliced, Local
  <2> QED BY <2>8, <2>9, <2>10, <2>11 DEF ProxyInv
<1> QED BY <1>2, <1>3, <1>4, <1>5, <1>6 DEF Handle

\* A direction takes what is next on its wire.
LEMMA RecvKeeps ==
    ASSUME ProxyInv, NEW d \in Dirs, Recv(d)
    PROVE  ProxyInv'
<1>1. /\ handler = "splice" /\ splice[d] = "recv" /\ wire[d] # <<>>
      /\ data' = [data EXCEPT ![d] = <<Head(wire[d])>>]
      /\ wire' = [wire EXCEPT ![d] = Tail(@)]
      /\ splice' = [splice EXCEPT ![d] = "sendall"]
      /\ UNCHANGED <<login, written, closed, got, handler, buf, redirected, shut>>
  BY DEF Recv, At, Splices, endVars, handleVars
<1>2. /\ Head(wire[d]) = Read(d) + 1
      /\ Read(d) + 1 \in 1 .. Written[d]
      /\ Read(d)' = Read(d) + 1
      /\ \A e \in Dirs \ {d} : Read(e)' = Read(e)
      /\ wire' \in [Dirs -> Seq(Nat)]
      /\ InOrder'
  BY <1>1, Taken
<1>3. /\ data \in [Dirs -> Seq(Nat)]
      /\ splice \in [Dirs -> {"recv", "sendall", "finally", "done"}]
  BY DEF ProxyInv, Shape
<1>4. /\ data'[d] = <<Read(d) + 1>> /\ splice'[d] = "sendall"
      /\ \A e \in Dirs \ {d} : data'[e] = data[e] /\ splice'[e] = splice[e]
  BY <1>1, <1>2, <1>3
<1>5. Shape'
  <2>1. data' \in [Dirs -> Seq(Nat)]
    BY <1>1, <1>2, <1>3
  <2>2. splice' \in [Dirs -> {"recv", "sendall", "finally", "done"}]
    BY <1>1, <1>3
  <2>3. data'[d] \in Seq(1 .. Written[d]) /\ Len(data'[d]) <= 1
    BY <1>2, <1>4
  <2>4. \A e \in Dirs : data'[e] \in Seq(1 .. Written[e]) /\ Len(data'[e]) <= 1
    BY <1>4, <2>3 DEF ProxyInv, Shape
  <2> QED BY <1>1, <1>2, <2>1, <2>2, <2>4 DEF ProxyInv, Shape
<1>6. InHand'
  <2>1. /\ Sink(d) \notin closed => Len(got[d]) = Read(d)
        /\ Len(got[d]) \in Nat /\ Read(d) \in Nat /\ Len(got[d]) <= Read(d)
    BY <1>1, ReadBounds DEF ProxyInv, InHand
  <2> SUFFICES ASSUME NEW e \in Dirs
               PROVE  /\ splice'[e] = "recv" => data'[e] = <<>>
                      /\ splice'[e] = "sendall" =>
                            data'[e] = <<Read(e)'>> /\ Len(got[e]) < Read(e)'
                      /\ Sink(e) \notin closed =>
                            /\ splice'[e] = "recv" => Len(got[e]) = Read(e)'
                            /\ splice'[e] = "sendall" => Len(got[e]) + 1 = Read(e)'
    BY <1>1 DEF InHand
  <2>2. CASE e = d
    BY <1>2, <1>4, <2>1, <2>2
  <2>3. CASE e # d
    BY <1>1, <1>2, <1>4, <2>3 DEF ProxyInv, InHand
  <2> QED BY <2>2, <2>3
<1>7. Peeked' /\ Unspliced' /\ Local'
  BY <1>1 DEF ProxyInv, Peeked, Unspliced, Local
<1> QED BY <1>2, <1>5, <1>6, <1>7 DEF ProxyInv

\* A direction passes on what it took, once.
LEMMA SendKeeps ==
    ASSUME ProxyInv, NEW d \in Dirs, SendAll(d)
    PROVE  /\ ProxyInv'
           /\ \/ got' = got
              \/ /\ got' = [got EXCEPT ![d] = Run(0, Len(got[d]) + 1)]
                 /\ Len(got[d]) + 1 <= written[d]
<1>1. /\ handler = "splice" /\ splice[d] = "sendall"
      /\ got' = IF Sink(d) \in closed THEN got
                ELSE [got EXCEPT ![d] = @ \o data[d]]
      /\ data' = [data EXCEPT ![d] = <<>>]
      /\ splice' = [splice EXCEPT ![d] = "recv"]
      /\ UNCHANGED <<login, written, closed, wire, handler, buf, redirected, shut>>
  BY DEF SendAll, At, Splices, endVars, handleVars
<1>2. \A e \in Dirs : Read(e)' = Read(e)
  BY <1>1 DEF Read
<1>3. /\ data \in [Dirs -> Seq(Nat)] /\ got \in [Dirs -> Seq(Nat)]
      /\ splice \in [Dirs -> {"recv", "sendall", "finally", "done"}]
  BY DEF ProxyInv, Shape
<1>4. /\ Len(got[d]) \in Nat /\ Read(d) \in Nat /\ written[d] \in Nat
      /\ Len(wire[d]) \in Nat /\ Read(d) + Len(wire[d]) = written[d]
  BY ReadBounds
<1>5. /\ data[d] = <<Read(d)>> /\ Len(got[d]) < Read(d)
      /\ Sink(d) \notin closed => Len(got[d]) + 1 = Read(d)
      /\ got[d] = Run(0, Len(got[d]))
  BY <1>1 DEF ProxyInv, InHand, InOrder
<1>6. ASSUME Sink(d) \notin closed
      PROVE  /\ got' = [got EXCEPT ![d] = Run(0, Len(got[d]) + 1)]
             /\ Len(got[d]) + 1 <= written[d]
             /\ got' \in [Dirs -> Seq(Nat)]
             /\ \A e \in Dirs \ {d} : got'[e] = got[e]
             /\ Len(got'[d]) = Read(d) /\ got'[d] = Run(0, Len(got'[d]))
  <2> DEFINE m == Len(got[d])
  <2>1. m \in Nat /\ m + 1 \in Nat /\ Read(d) = m + 1 /\ m + 1 <= written[d]
    BY <1>4, <1>5, <1>6
  <2>2. got[d] = Run(0, m) /\ data[d] = <<m + 1>>
    BY <1>5, <2>1
  <2>3. got' = [got EXCEPT ![d] = got[d] \o data[d]]
    BY <1>1, <1>6
  <2> HIDE DEF m
  <2>4. got[d] \o data[d] = Run(0, m + 1)
    <3>1. Run(0, m) \o <<0 + m + 1>> = Run(0, m + 1)
      BY <2>1, RunAppended
    <3>2. 0 + m + 1 = m + 1
      BY <2>1
    <3> QED BY <2>2, <3>1, <3>2
  <2>5. Run(0, m + 1) \in Seq(Nat) /\ Len(Run(0, m + 1)) = m + 1
    BY <2>1, RunParts
  <2>6. got' = [got EXCEPT ![d] = Run(0, m + 1)]
    BY <2>3, <2>4
  <2>7. got'[d] = Run(0, m + 1) /\ got' \in [Dirs -> Seq(Nat)]
        /\ \A e \in Dirs \ {d} : got'[e] = got[e]
    BY <1>3, <2>5, <2>6
  <2> QED BY <2>1, <2>5, <2>6, <2>7 DEF m
<1>7. Sink(d) \in closed => got' = got
  BY <1>1
<1>8. /\ got' \in [Dirs -> Seq(Nat)]
      /\ \A e \in Dirs \ {d} : got'[e] = got[e]
      /\ Len(got'[d]) <= Read(d) /\ got'[d] = Run(0, Len(got'[d]))
      /\ Sink(d) \notin closed => Len(got'[d]) = Read(d)
      /\ \/ got' = got
         \/ /\ got' = [got EXCEPT ![d] = Run(0, Len(got[d]) + 1)]
            /\ Len(got[d]) + 1 <= written[d]
  BY <1>3, <1>4, <1>5, <1>6, <1>7
<1>9. /\ data'[d] = <<>> /\ splice'[d] = "recv"
      /\ \A e \in Dirs \ {d} : data'[e] = data[e] /\ splice'[e] = splice[e]
  BY <1>1, <1>3
<1>10. Shape'
  <2>1. data' \in [Dirs -> Seq(Nat)]
    BY <1>1, <1>3
  <2>2. splice' \in [Dirs -> {"recv", "sendall", "finally", "done"}]
    BY <1>1, <1>3
  <2>3. \A e \in Dirs : data'[e] \in Seq(1 .. Written[e]) /\ Len(data'[e]) <= 1
    <3>1. data'[d] \in Seq(1 .. Written[d]) /\ Len(data'[d]) <= 1
      BY <1>9
    <3>2. \A e \in Dirs : data[e] \in Seq(1 .. Written[e]) /\ Len(data[e]) <= 1
      BY DEF ProxyInv, Shape
    <3> QED BY <1>9, <3>1, <3>2
  <2> QED BY <1>1, <1>8, <2>1, <2>2, <2>3 DEF ProxyInv, Shape
<1>11. InOrder'
  <2>1. \A e \in Dirs : Len(got'[e]) <= Read(e) /\ got'[e] = Run(0, Len(got'[e]))
    BY <1>8 DEF ProxyInv, InOrder
  <2> QED BY <1>1, <1>2, <2>1 DEF ProxyInv, InOrder
<1>12. InHand'
  <2> SUFFICES ASSUME NEW e \in Dirs
               PROVE  /\ splice'[e] = "recv" => data'[e] = <<>>
                      /\ splice'[e] = "sendall" =>
                            data'[e] = <<Read(e)>> /\ Len(got'[e]) < Read(e)
                      /\ Sink(e) \notin closed =>
                            /\ splice'[e] = "recv" => Len(got'[e]) = Read(e)
                            /\ splice'[e] = "sendall" => Len(got'[e]) + 1 = Read(e)
    BY <1>1, <1>2 DEF InHand
  <2>1. CASE e = d
    BY <1>8, <1>9, <2>1
  <2>2. CASE e # d
    BY <1>1, <1>8, <1>9, <2>2 DEF ProxyInv, InHand
  <2> QED BY <2>1, <2>2
<1>13. Peeked' /\ Unspliced' /\ Local'
  BY <1>1 DEF ProxyInv, Peeked, Unspliced, Local
<1> QED BY <1>8, <1>10, <1>11, <1>12, <1>13 DEF ProxyInv

\* A direction that ends shuts both sockets.
LEMMA EndKeeps ==
    ASSUME ProxyInv, NEW d \in Dirs, RecvEnds(d) \/ SendFails(d) \/ Finally(d)
    PROVE  ProxyInv' /\ got' = got
<1>1. /\ handler = "splice"
      /\ \/ splice' = [splice EXCEPT ![d] = "finally"] /\ shut' = shut
         \/ splice' = [splice EXCEPT ![d] = "done"] /\ shut' = shut \cup Ends
      /\ UNCHANGED <<login, written, closed, wire, got, handler, buf, redirected, data>>
  BY DEF RecvEnds, SendFails, Finally, ShutDown, At, Splices, endVars, handleVars
<1>2. \A e \in Dirs : Read(e)' = Read(e)
  BY <1>1 DEF Read
<1>3. splice \in [Dirs -> {"recv", "sendall", "finally", "done"}]
  BY DEF ProxyInv, Shape
<1>4. /\ splice' \in [Dirs -> {"recv", "sendall", "finally", "done"}]
      /\ \A e \in Dirs : splice'[e] \in {"recv", "sendall"} => splice'[e] = splice[e]
  BY <1>1, <1>3
<1>5. Shape'
  BY <1>1, <1>4 DEF ProxyInv, Shape
<1>6. InOrder'
  BY <1>1, <1>2 DEF ProxyInv, InOrder
<1>7. InHand'
  BY <1>1, <1>2, <1>4 DEF ProxyInv, InHand
<1>8. Peeked' /\ Unspliced' /\ Local'
  BY <1>1 DEF ProxyInv, Peeked, Unspliced, Local
<1> QED BY <1>1, <1>5, <1>6, <1>7, <1>8 DEF ProxyInv

\* A connection starts with nothing written.
LEMMA InitHolds == Init => ProxyInv
<1> SUFFICES ASSUME Init PROVE ProxyInv
  OBVIOUS
<1>1. /\ login \in BOOLEAN /\ redirected = FALSE
      /\ handler = "peek" /\ buf = <<>> /\ closed = {} /\ shut = {}
      /\ written = [d \in Dirs |-> 0]
      /\ wire = [d \in Dirs |-> <<>>] /\ got = [d \in Dirs |-> <<>>]
      /\ splice = [d \in Dirs |-> "recv"] /\ data = [d \in Dirs |-> <<>>]
  BY DEF Init
<1>2. \A d \in Dirs : /\ written[d] = 0 /\ wire[d] = <<>> /\ got[d] = <<>>
                      /\ data[d] = <<>> /\ splice[d] = "recv"
  BY <1>1
<1>3. Run(0, 0) = <<>> /\ Len(<<>>) = 0
  BY RunEmpty
<1>4. \A d \in Dirs : Read(d) = 0
  BY <1>2, <1>3 DEF Read
<1>5. Shape
  <2>1. /\ written \in [Dirs -> Nat] /\ wire \in [Dirs -> Seq(Nat)]
        /\ got \in [Dirs -> Seq(Nat)] /\ data \in [Dirs -> Seq(Nat)]
        /\ splice \in [Dirs -> {"recv", "sendall", "finally", "done"}]
    BY <1>1
  <2>2. \A d \in Dirs : Written[d] \in Nat
    BY ProxyAssumption
  <2>3. \A d \in Dirs : /\ written[d] <= Written[d]
                        /\ data[d] \in Seq(1 .. Written[d]) /\ Len(data[d]) <= 1
    <3> TAKE d \in Dirs
    <3>1. written[d] = 0 /\ data[d] = <<>> /\ Written[d] \in Nat
      BY <1>2, <2>2
    <3>2. <<>> \in Seq(1 .. Written[d]) /\ Len(<<>>) <= 1
      BY <1>3
    <3> QED BY <3>1, <3>2
  <2>4. buf \in Seq(1 .. Written["up"]) /\ Len(buf) <= FirstLine
    BY <1>1, <1>3, ProxyAssumption
  <2> QED BY <1>1, <2>1, <2>3, <2>4 DEF Shape
<1>6. InOrder
  BY <1>2, <1>3, <1>4 DEF InOrder
<1>7. Peeked /\ Unspliced /\ InHand /\ Local
  BY <1>1, <1>2, <1>3, <1>4, Directions DEF Peeked, Unspliced, InHand, Local
<1> QED BY <1>5, <1>6, <1>7 DEF ProxyInv

\* Nothing changed.
LEMMA Stutters ==
    ASSUME ProxyInv, UNCHANGED vars
    PROVE  ProxyInv'
<1>1. UNCHANGED <<login, written, closed, wire, got, handler, buf, redirected,
                  splice, data, shut>>
  BY DEF vars, endVars, handleVars, spliceVars
<1>2. \A d \in Dirs : Read(d)' = Read(d)
  BY <1>1 DEF Read
<1>3. Shape' /\ InOrder'
  BY <1>1, <1>2 DEF ProxyInv, Shape, InOrder
<1>4. Peeked' /\ Unspliced' /\ InHand' /\ Local'
  BY <1>1, <1>2, Directions DEF ProxyInv, Peeked, Unspliced, InHand, Local
<1> QED BY <1>3, <1>4 DEF ProxyInv

\* Every reachable state of a connection.
LEMMA ProxyInvariant == Spec => []ProxyInv
<1>1. ProxyInv /\ [Next]_vars => ProxyInv'
  BY WriteKeeps, CloseKeeps, HandleKeeps, RecvKeeps, SendKeeps, EndKeeps, Stutters
     DEF Next, EndsAct, Splice
<1> QED BY <1>1, InitHolds, PTL DEF Spec

-------------------------------------------------------------------------------
\* Type correctness, for any number of pieces.
THEOREM ProxyTyped == Spec => []ProxyTypeOK
<1>1. ASSUME ProxyInv, NEW d \in Dirs
      PROVE  /\ written[d] \in 0 .. Written[d]
             /\ wire[d] \in Seq(1 .. Written[d])
             /\ got[d] \in Seq(1 .. Written[d])
  <2>1. /\ Len(wire[d]) \in Nat /\ Len(got[d]) \in Nat /\ written[d] \in Nat
        /\ Read(d) \in Nat /\ Read(d) + Len(wire[d]) = written[d]
        /\ Len(got[d]) <= Read(d)
        /\ Written[d] \in Nat /\ written[d] <= Written[d]
    BY <1>1, ReadBounds
  <2>2. /\ wire[d] = Run(Read(d), Len(wire[d]))
        /\ got[d] = Run(0, Len(got[d]))
    BY <1>1 DEF ProxyInv, InOrder
  <2>3. ASSUME NEW k \in Nat, NEW n \in Nat, k + n <= Written[d]
        PROVE  Run(k, n) \in Seq(1 .. Written[d])
    <3>1. \A i \in 1..n : k + i \in 1 .. Written[d]
      BY <2>1, <2>3
    <3> QED BY <3>1 DEF Run
  <2>4. 0 + Len(got[d]) <= Written[d] /\ Read(d) + Len(wire[d]) <= Written[d]
    BY <2>1
  <2>5. Run(Read(d), Len(wire[d])) \in Seq(1 .. Written[d])
    BY <2>1, <2>3, <2>4
  <2>6. Run(0, Len(got[d])) \in Seq(1 .. Written[d])
    BY <2>1, <2>3, <2>4
  <2> QED BY <2>1, <2>2, <2>5, <2>6
<1>2. ProxyInv => ProxyTypeOK
  BY <1>1 DEF ProxyInv, Shape, ProxyTypeOK
<1> QED BY <1>2, ProxyInvariant, PTL

\* A request for the login page never reaches EVCC and nothing else is
\* redirected, in however many pieces the request line comes.
THEOREM LoginStaysLocal == Spec => []RedirectStaysLocal
<1>1. ProxyInv => RedirectStaysLocal
  BY DEF ProxyInv, Local, RedirectStaysLocal
<1> QED BY <1>1, ProxyInvariant, PTL

-------------------------------------------------------------------------------
\* Each direction implements the byte stream.

\* What a step does to the two streams.
LEMMA StreamStep ==
    ASSUME ProxyInv, [Next]_vars, NEW d \in Dirs
    PROVE  \/ written'[d] = written[d] + 1 /\ got'[d] = got[d]
           \/ /\ written'[d] = written[d]
              /\ \E n \in Len(got[d]) + 1 .. written[d] : got'[d] = Run(0, n)
           \/ written'[d] = written[d] /\ got'[d] = got[d]
<1>1. written \in [Dirs -> Nat] /\ got \in [Dirs -> Seq(Nat)]
  BY DEF ProxyInv, Shape
<1>2. /\ Len(got[d]) \in Nat /\ written[d] \in Nat /\ Read(d) \in Nat
      /\ Len(wire[d]) \in Nat /\ Read(d) + Len(wire[d]) = written[d]
  BY ReadBounds
<1>3. ASSUME NEW e \in Dirs, EndWrites(e)
      PROVE  /\ got'[d] = got[d]
             /\ written'[d] \in {written[d], written[d] + 1}
  <2>1. written' = [written EXCEPT ![e] = @ + 1] /\ got' = got
    BY <1>3 DEF EndWrites
  <2> QED BY <1>1, <2>1
<1>4. ASSUME NEW e \in Ends, EndCloses(e)
      PROVE  UNCHANGED <<written, got>>
  BY <1>4 DEF EndCloses
<1>5. CASE Handle
  <2>1. CASE Replay
    <3>1. /\ got' = [got EXCEPT !["up"] = @ \o buf] /\ UNCHANGED written
          /\ handler = "replay"
      BY <2>1 DEF Replay, endVars
    <3>2. buf = Run(0, Read("up")) /\ \A e \in Dirs : got[e] = <<>>
      BY <3>1 DEF ProxyInv, Peeked
    <3>3. CASE d = "up"
      <4>1. Run(0, Read(d)) \in Seq(Nat)
        BY <1>2, RunParts
      <4>2. got'[d] = <<>> \o Run(0, Read(d))
        BY <1>1, <3>1, <3>2, <3>3
      <4>3. got'[d] = Run(0, Read(d)) /\ Len(got[d]) = 0
        BY <3>2, <4>1, <4>2, ConcatEmptySeq
      <4>4. CASE Read(d) = 0
        BY <3>1, <3>2, <4>3, <4>4, RunEmpty
      <4>5. CASE Read(d) # 0
        <5>1. Read(d) \in Len(got[d]) + 1 .. written[d]
          BY <1>2, <4>3, <4>5
        <5> QED BY <3>1, <4>3, <5>1
      <4> QED BY <4>4, <4>5
    <3>4. CASE d # "up"
      BY <1>1, <3>1, <3>4
    <3> QED BY <3>3, <3>4
  <2>2. CASE ~Replay
    <3>1. UNCHANGED <<written, got>>
      BY <1>5, <2>2 DEF Handle, Peek, PeekEnds, Redirect, Connect, ConnectFails,
         ReplayFails, HandlerLeaves, endVars
    <3> QED BY <3>1
  <2> QED BY <2>1, <2>2
<1>6. ASSUME NEW e \in Dirs, SendAll(e)
      PROVE  /\ UNCHANGED written
             /\ \/ got'[d] = got[d]
                \/ \E n \in Len(got[d]) + 1 .. written[d] : got'[d] = Run(0, n)
  <2>1. UNCHANGED written
    BY <1>6 DEF SendAll, endVars
  <2>2. \/ got' = got
        \/ /\ got' = [got EXCEPT ![e] = Run(0, Len(got[e]) + 1)]
           /\ Len(got[e]) + 1 <= written[e]
    BY <1>6, SendKeeps
  <2>3. CASE e = d /\ got' # got
    <3>1. /\ got'[d] = Run(0, Len(got[d]) + 1)
          /\ Len(got[d]) + 1 \in Len(got[d]) + 1 .. written[d]
      BY <1>1, <1>2, <2>2, <2>3
    <3> QED BY <2>1, <3>1
  <2>4. CASE ~(e = d /\ got' # got)
    <3>1. got'[d] = got[d]
      BY <1>1, <2>2, <2>4
    <3> QED BY <2>1, <3>1
  <2> QED BY <2>3, <2>4
<1>7. ASSUME NEW e \in Dirs, Recv(e) \/ RecvEnds(e) \/ SendFails(e) \/ Finally(e)
      PROVE  UNCHANGED <<written, got>>
  BY <1>7 DEF Recv, RecvEnds, SendFails, Finally, endVars
<1>8. CASE UNCHANGED vars
  BY <1>8 DEF vars, endVars
<1> QED BY <1>3, <1>4, <1>5, <1>6, <1>7, <1>8 DEF Next, EndsAct, Splice

\* Nothing is lost from the middle of either direction, sent twice or
\* overtaken, the peeked bytes included, for answers of any length.
THEOREM DirectionsAreStreams == Spec => Streams
<1>1. Init => Up!StreamInit /\ Down!StreamInit
  BY Directions DEF Init, Up!StreamInit, Down!StreamInit
<1>2. ASSUME ProxyInv, [Next]_vars
      PROVE  [Up!Write \/ Up!Arrive]_(Up!streamVars)
  <2>1. \A n \in Nat : Up!Chunks(n) = Run(0, n)
    BY DEF Up!Chunks, Run
  <2>2. Len(got["up"]) \in Nat /\ written["up"] \in Nat
    BY <1>2, Directions, ReadBounds
  <2>3. \A n \in Len(got["up"]) + 1 .. written["up"] : n \in Nat
    BY <2>2
  <2> QED BY <1>2, <2>1, <2>3, Directions, StreamStep
          DEF Up!Write, Up!Arrive, Up!streamVars
<1>3. ASSUME ProxyInv, [Next]_vars
      PROVE  [Down!Write \/ Down!Arrive]_(Down!streamVars)
  <2>1. \A n \in Nat : Down!Chunks(n) = Run(0, n)
    BY DEF Down!Chunks, Run
  <2>2. Len(got["down"]) \in Nat /\ written["down"] \in Nat
    BY <1>3, Directions, ReadBounds
  <2>3. \A n \in Len(got["down"]) + 1 .. written["down"] : n \in Nat
    BY <2>2
  <2> QED BY <1>3, <2>1, <2>3, Directions, StreamStep
          DEF Down!Write, Down!Arrive, Down!streamVars
<1> QED BY <1>1, <1>2, <1>3, ProxyInvariant, PTL
        DEF Spec, Streams, Up!StreamSpec, Down!StreamSpec

-------------------------------------------------------------------------------
\* A thread that is past its loop, and a socket that is shut, come after an
\* end that closed.
CutByAnEnd ==
    handler = "splice" =>
        /\ shut # {} => closed # {}
        /\ \A d \in Dirs : splice[d] \in {"finally", "done"} => closed # {}

\* Once spliced, a connection whose EVCC does not fall silent for longer than
\* the 10 s left on its socket is cut only after one of its ends closed it.
THEOREM SplicedPassesThrough ==
    ASSUME "evcc" \notin Pauses
    PROVE  Spec => []PassesThrough
<1>1. Init => CutByAnEnd
  BY DEF Init, CutByAnEnd
<1>2. ASSUME ProxyInv, CutByAnEnd, [Next]_vars
      PROVE  CutByAnEnd'
  <2>1. ASSUME NEW d \in Dirs, EndWrites(d)
        PROVE  CutByAnEnd'
    BY <1>2, <2>1 DEF EndWrites, CutByAnEnd, handleVars, spliceVars
  <2>2. ASSUME NEW e \in Ends, EndCloses(e)
        PROVE  CutByAnEnd'
    BY <1>2, <2>2 DEF EndCloses, CutByAnEnd, handleVars, spliceVars
  <2>3. CASE Replay
    <3>1. handler = "replay" /\ UNCHANGED <<closed, shut, splice>>
      BY <2>3 DEF Replay, endVars, spliceVars
    <3>2. shut = {} /\ \A d \in Dirs : splice[d] = "recv"
      BY <1>2, <3>1 DEF ProxyInv, Peeked, Unspliced
    <3> QED BY <3>1, <3>2 DEF CutByAnEnd
  <2>4. CASE Handle /\ ~Replay
    <3>1. handler' # "splice"
      BY <2>4 DEF Handle, Peek, PeekEnds, Redirect, Connect, ConnectFails,
         ReplayFails, HandlerLeaves
    <3> QED BY <3>1 DEF CutByAnEnd
  <2>5. ASSUME NEW d \in Dirs, Recv(d) \/ SendAll(d)
        PROVE  CutByAnEnd'
    <3>1. /\ handler = "splice" /\ UNCHANGED <<closed, shut, handler>>
          /\ \/ splice' = [splice EXCEPT ![d] = "sendall"]
             \/ splice' = [splice EXCEPT ![d] = "recv"]
      BY <2>5 DEF Recv, SendAll, At, Splices, endVars, handleVars
    <3>2. splice \in [Dirs -> {"recv", "sendall", "finally", "done"}]
      BY <1>2 DEF ProxyInv, Shape
    <3>3. \A e \in Dirs : splice'[e] \in {"finally", "done"} => splice'[e] = splice[e]
      BY <3>1, <3>2
    <3> QED BY <1>2, <3>1, <3>3 DEF CutByAnEnd
  <2>6. ASSUME NEW d \in Dirs, RecvEnds(d) \/ SendFails(d) \/ Finally(d)
        PROVE  CutByAnEnd'
    <3>1. handler = "splice" /\ closed' = closed
      BY <2>6 DEF RecvEnds, SendFails, Finally, At, Splices, endVars
    <3>2. closed # {}
      BY <1>2, <2>6, <3>1 DEF RecvEnds, SendFails, Finally, At, Splices, Timed,
         CutByAnEnd
    <3> QED BY <3>1, <3>2 DEF CutByAnEnd
  <2>7. CASE UNCHANGED vars
    BY <1>2, <2>7 DEF vars, endVars, handleVars, spliceVars, CutByAnEnd
  <2> QED BY <1>2, <2>1, <2>2, <2>3, <2>4, <2>5, <2>6, <2>7
          DEF Next, EndsAct, Splice
<1>3. CutByAnEnd => PassesThrough
  BY DEF CutByAnEnd, PassesThrough
<1> QED BY <1>1, <1>2, <1>3, ProxyInvariant, PTL DEF Spec
================================================================================
