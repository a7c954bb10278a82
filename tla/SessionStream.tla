--------------------------- MODULE SessionStream ---------------------------
(***************************************************************************)
(* Each standard stream of a session is a Stream: what Stream.tla shows of  *)
(* a source, a sink and a FIFO in each direction holds of the session,       *)
(* where the streams share the queues, the connection, and a receiver task   *)
(* that waits for one stream while the others wait for it.                   *)
(***************************************************************************)
EXTENDS Session

\* What a receiver holds while it waits for room in a task's channel.
Held(sd) == receiver[sd].msg

\* The messages on their way from a side to the receiver of the other.
\* What has not been handed to a lost connection will never arrive.
Path(sd) ==
    Held(Peer(sd)) \o net[sd] \o
    (IF conn = "up" THEN sender[sd].msg \o queue[sd] ELSE <<>>)

Forward(s) == Actions(Path(SourceSide(s)), s, {"Data", "SourceClosed"})
Backward(s) == Actions(Path(SinkSide(s)), s, {"Ack", "SinkClosed"})

\* What the receiver of a side still does for a stream.  A serve() that has failed
\* keeps no router: after the receiver, even one that has ended in good order, nobody
\* tells the tasks anything.
ReceiverFor(sd, s) ==
    LET r == receiver[sd]
        left == sd = "server" /\ serve.pc = "err" /\ r.pc = "done" /\ ~r.failed
    IN
    CASE r.pc = "failed" \/ left -> "failed"
      [] r.pc # "failed" /\ ~left /\ ~r.failed -> "route"
      [] OTHER -> IF \E i \in 1..Len(r.todo) : r.todo[i] = s THEN "closing" ELSE "gone"

Link == IF conn = "up" THEN "up" ELSE "down"

\* serve() has sent a SinkClosed of its own, which only the input gets.
Served(s) == s = "Stdin" /\ serve.status # NoStatus /\ serve.pc # "sinkclosed"

In == INSTANCE Stream WITH
    MaxPackets <- Packets["Stdin"],
    WriteResults <- IoResult,
    Faults <- {"link", "receiver"},
    src <- src["Stdin"], srcRx <- srcRx["Stdin"],
    snk <- snk["Stdin"], snkRx <- snkRx["Stdin"],
    out <- out["Stdin"],
    fwd <- Forward("Stdin"), back <- Backward("Stdin"),
    link <- Link,
    srcRcv <- ReceiverFor(SourceSide("Stdin"), "Stdin"),
    snkRcv <- ReceiverFor(SinkSide("Stdin"), "Stdin"),
    served <- Served("Stdin")

Out == INSTANCE Stream WITH
    MaxPackets <- Packets["Stdout"],
    WriteResults <- IoResult,
    Faults <- {"link", "receiver"},
    src <- src["Stdout"], srcRx <- srcRx["Stdout"],
    snk <- snk["Stdout"], snkRx <- snkRx["Stdout"],
    out <- out["Stdout"],
    fwd <- Forward("Stdout"), back <- Backward("Stdout"),
    link <- Link,
    srcRcv <- ReceiverFor(SourceSide("Stdout"), "Stdout"),
    snkRcv <- ReceiverFor(SinkSide("Stdout"), "Stdout"),
    served <- Served("Stdout")

\* The standard input is a Stream whatever the outputs, the child and the end of
\* the session do to the queues and the receivers they share.
StdinIsStream == In!Spec

\* The standard output is a Stream, likewise.
StdoutIsStream == Out!Spec

=============================================================================
