---------------------------- MODULE ProxyConnection ----------------------------
(***************************************************************************)
(* One connection through the rewrite proxy of the VRM tunnel              *)
(* (RewriteProxy in vrm_tunnel.py): the thread of _handle peeks at the     *)
(* request line and connects to EVCC, then two threads splice, each with   *)
(* sockets the other one uses as well.                                     *)
(*                                                                         *)
(* A direction is named for where it goes: "up" to EVCC, "down" to the     *)
(* client.  A socket of the proxy is named for the end it faces.  What an  *)
(* end writes are chunks, numbered in their order; one is what one recv    *)
(* returns.  An end that closes has read all it wants.                     *)
(***************************************************************************)
EXTENDS Naturals, Sequences, SequencesExt

CONSTANTS
    FirstLine,   \* chunks until the request line is complete (or 8192 bytes)
    Written,     \* bound: chunks written in each direction
    Pauses       \* ends that may be silent for longer than any timeout

Dirs == {"up", "down"}
Ends == {"client", "evcc"}

Source(d) == IF d = "up" THEN "client" ELSE "evcc"
Sink(d)   == IF d = "up" THEN "evcc" ELSE "client"

ASSUME ProxyAssumption ==
    /\ FirstLine \in Nat \ {0}
    /\ Written \in [Dirs -> Nat]
    /\ Pauses \subseteq Ends

VARIABLES
    login,       \* the request is for /login.htm
    written,     \* chunks each source has written
    wire,        \* chunks on their way to the proxy
    got,         \* chunks the proxy has sent on to each sink
    closed,      \* ends that have closed their connection
    handler,     \* the line _handle is at
    buf,         \* what it has peeked
    redirected,  \* the client was sent the 302
    splice,      \* the line each _splice is at
    data,        \* the chunk it has in hand, if any
    shut         \* sockets of the proxy that are shut down or closed

endVars    == <<login, written, closed>>
handleVars == <<handler, buf, redirected>>
spliceVars == <<splice, data>>
vars == <<endVars, wire, got, handleVars, spliceVars, shut>>

-------------------------------------------------------------------------------
\* The two ends.  EVCC answers what it has received; what is written to a
\* closed connection is gone.

Connected == handler \in {"replay", "splice"}

EndWrites(d) ==
    /\ written[d] < Written[d]
    /\ Source(d) \notin closed
    /\ d = "down" => Connected /\ got["up"] # <<>>
    /\ written' = [written EXCEPT ![d] = @ + 1]
    /\ wire' = [wire EXCEPT ![d] = Append(@, written'[d])]
    /\ UNCHANGED <<login, closed, got, handleVars, spliceVars, shut>>

EndCloses(e) ==
    /\ e \notin closed
    /\ e = "evcc" => Connected
    /\ closed' = closed \cup {e}
    /\ UNCHANGED <<login, written, wire, got, handleVars, spliceVars, shut>>

-------------------------------------------------------------------------------
\* _handle.

\* Mutant: it decides on what the first recv brought.
FirstRecv(b) == b # <<>>

FirstLineRead(b) == Len(b) >= FirstLine

Peek ==
    /\ handler = "peek" /\ ~FirstLineRead(buf)
    /\ wire["up"] # <<>>
    /\ buf' = Append(buf, Head(wire["up"]))
    /\ wire' = [wire EXCEPT !["up"] = Tail(@)]
    /\ UNCHANGED <<endVars, got, handler, redirected, spliceVars, shut>>

\* The client is closed: end of stream, the 15 s timeout, or an error.
HandlerLeaves ==
    /\ handler' = "done"
    /\ shut' = shut \cup {"client"}
    /\ UNCHANGED <<endVars, wire, got, buf, spliceVars>>

PeekEnds ==
    /\ handler = "peek" /\ ~FirstLineRead(buf)
    /\ wire["up"] = <<>>
    /\ "client" \in closed \cup Pauses
    /\ HandlerLeaves
    /\ UNCHANGED redirected

\* A line that is not complete does not show the path.
ShouldRedirect == login /\ Len(buf) >= FirstLine

Redirect ==
    /\ handler = "peek" /\ FirstLineRead(buf)
    /\ ShouldRedirect
    /\ redirected' = TRUE
    /\ HandlerLeaves

Connect ==
    /\ handler = "peek" /\ FirstLineRead(buf)
    /\ ~ShouldRedirect
    /\ handler' = "replay"
    /\ UNCHANGED <<endVars, wire, got, buf, redirected, spliceVars, shut>>

ConnectFails ==
    /\ handler = "peek" /\ FirstLineRead(buf)
    /\ ~ShouldRedirect
    /\ HandlerLeaves
    /\ UNCHANGED redirected

Replay ==
    /\ handler = "replay"
    /\ "evcc" \notin closed
    /\ got' = [got EXCEPT !["up"] = @ \o buf]
    /\ handler' = "splice"
    /\ UNCHANGED <<endVars, wire, buf, redirected, spliceVars, shut>>

ReplayFails ==
    /\ handler = "replay"
    /\ "evcc" \in closed
    /\ HandlerLeaves
    /\ UNCHANGED redirected

-------------------------------------------------------------------------------
\* _splice: recv, sendall, and the shutdown of both sockets.

\* Mutant: the thread is started before the replay.
SplicesEarly(d) ==
    \/ handler = "splice"
    \/ d = "up" /\ handler = "replay"

\* Mutant: no thread, one direction after the other.
SplicesInTurn(d) ==
    /\ handler = "splice"
    /\ d = "down" => splice["up"] = "done"

Splices(d) == handler = "splice"

At(d, line) == Splices(d) /\ splice[d] = line

Recv(d) ==
    /\ At(d, "recv")
    /\ wire[d] # <<>>
    /\ data' = [data EXCEPT ![d] = <<Head(wire[d])>>]
    /\ wire' = [wire EXCEPT ![d] = Tail(@)]
    /\ splice' = [splice EXCEPT ![d] = "sendall"]
    /\ UNCHANGED <<endVars, got, handleVars, shut>>

\* create_connection leaves its timeout of 10 s on the socket to EVCC; the
\* client's was reset after the peek.

\* Mutant: it was not.
BothTimed == Ends

Timed == {"evcc"}

RecvEnds(d) ==
    /\ At(d, "recv")
    /\ wire[d] = <<>>
    /\ \/ Source(d) \in closed \cup shut
       \/ Source(d) \in Timed \cap Pauses
    /\ splice' = [splice EXCEPT ![d] = "finally"]
    /\ UNCHANGED <<endVars, wire, got, handleVars, data, shut>>

\* Left to the kernel: a sink that has closed lets some writes pass.
SendAll(d) ==
    /\ At(d, "sendall")
    /\ Sink(d) \notin shut
    /\ got' = IF Sink(d) \in closed THEN got
              ELSE [got EXCEPT ![d] = @ \o data[d]]
    /\ data' = [data EXCEPT ![d] = <<>>]
    /\ splice' = [splice EXCEPT ![d] = "recv"]
    /\ UNCHANGED <<endVars, wire, handleVars, shut>>

SendFails(d) ==
    /\ At(d, "sendall")
    /\ Sink(d) \in closed \cup shut
    /\ splice' = [splice EXCEPT ![d] = "finally"]
    /\ UNCHANGED <<endVars, wire, got, handleVars, data, shut>>

\* Mutant: only the socket it reads.
ShutSource(d) == {Source(d)}

ShutDown(d) == Ends

Finally(d) ==
    /\ At(d, "finally")
    /\ shut' = shut \cup ShutDown(d)
    /\ splice' = [splice EXCEPT ![d] = "done"]
    /\ UNCHANGED <<endVars, wire, got, handleVars, data>>

-------------------------------------------------------------------------------
Init ==
    /\ login \in BOOLEAN
    /\ written = [d \in Dirs |-> 0]
    /\ wire = [d \in Dirs |-> <<>>]
    /\ got = [d \in Dirs |-> <<>>]
    /\ closed = {}
    /\ handler = "peek" /\ buf = <<>> /\ redirected = FALSE
    /\ splice = [d \in Dirs |-> "recv"]
    /\ data = [d \in Dirs |-> <<>>]
    /\ shut = {}

Handle ==
    \/ Peek \/ PeekEnds \/ Redirect
    \/ Connect \/ ConnectFails \/ Replay \/ ReplayFails

Splice(d) == Recv(d) \/ RecvEnds(d) \/ SendAll(d) \/ SendFails(d) \/ Finally(d)

EndsAct ==
    \/ \E d \in Dirs : EndWrites(d)
    \/ \E e \in Ends : EndCloses(e)

Next == Handle \/ (\E d \in Dirs : Splice(d)) \/ EndsAct

Spec == Init /\ [][Next]_vars

\* The threads run; the ends need not do anything.
FairSpec == Spec /\ WF_vars(Handle) /\ \A d \in Dirs : WF_vars(Splice(d))

-------------------------------------------------------------------------------
ProxyTypeOK ==
    /\ login \in BOOLEAN /\ redirected \in BOOLEAN
    /\ \A d \in Dirs :
          /\ written[d] \in 0 .. Written[d]
          /\ wire[d] \in Seq(1 .. Written[d])
          /\ got[d] \in Seq(1 .. Written[d])
          /\ splice[d] \in {"recv", "sendall", "finally", "done"}
          /\ data[d] \in Seq(1 .. Written[d]) /\ Len(data[d]) <= 1
    /\ closed \subseteq Ends /\ shut \subseteq Ends
    /\ handler \in {"peek", "replay", "splice", "done"}
    /\ buf \in Seq(1 .. Written["up"]) /\ Len(buf) <= FirstLine

Up   == INSTANCE ByteStream WITH written <- written["up"], received <- got["up"]
Down == INSTANCE ByteStream WITH written <- written["down"], received <- got["down"]

(***************************************************************************)
(* Each direction is a byte stream: nothing is lost from the middle, sent  *)
(* twice or overtaken, the peeked bytes included ("replay the bytes we     *)
(* already read", "everything else is spliced raw", vrm_tunnel.py).        *)
(***************************************************************************)
Streams == Up!StreamSpec /\ Down!StreamSpec

(***************************************************************************)
(* A request for /login.htm never reaches EVCC, in however many pieces it  *)
(* comes; no other request is redirected (should_redirect).                *)
(***************************************************************************)
RedirectStaysLocal ==
    /\ login => got["up"] = <<>>
    /\ redirected => login

(***************************************************************************)
(* Once spliced, a connection is cut only after one of its ends closed it  *)
(* ("HTTP, SSE, WebSocket pass through", RewriteProxy).                    *)
(***************************************************************************)
PassesThrough ==
    handler = "splice" /\ shut # {} => closed # {}

(***************************************************************************)
(* What EVCC wrote arrives, an answer it ended by closing included, if the *)
(* client stays and EVCC did not close on a request it had not read (then  *)
(* the thread of the other direction may cut the answer off).              *)
(***************************************************************************)
Overtaken == "evcc" \in closed /\ Len(got["up"]) < written["up"]

ResponseArrives ==
    \A n \in 1 .. Written["down"] :
        written["down"] >= n
            ~> \/ Len(got["down"]) >= n
               \/ "client" \in closed
               \/ Overtaken

(***************************************************************************)
(* A connection one end has closed ends: no thread is left waiting for the *)
(* other end (the shutdown of both sockets in _splice).                    *)
(***************************************************************************)
Ended == handler = "done" \/ \A d \in Dirs : splice[d] = "done"

NoHalfOpen == closed # {} ~> Ended
===============================================================================
