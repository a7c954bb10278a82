------------------------------- MODULE Stream -------------------------------
(***************************************************************************)
(* One stream of a session: its source task, its sink task, and the path    *)
(* between them.  The path of one direction is the send_msg queue, the      *)
(* sender task, the TCP connection and the receiver task of the other side; *)
(* messages of one stream stay in order on it, so it is one FIFO here       *)
(* (Session.tla has its parts).  The receiver takes a message from the path *)
(* and awaits room in the task's channel (RecvRouter).                      *)
(* Faults: the output pipe breaks or returns another error, the connection  *)
(* is lost, and the receiver task of either side fails.                     *)
(***************************************************************************)
EXTENDS StreamTasks

CONSTANTS
    MaxPackets,   \* bound on the packets read from the input
    WriteResults, \* outcomes of write_all and flush that the environment produces
    Faults        \* what else may fail: "link" the connection, "receiver" a receiver task

ASSUME StreamAssumption ==
    /\ MaxPackets \in Nat
    /\ WriteResults \subseteq IoResult
    /\ Faults \subseteq {"link", "receiver"}

VARIABLES
    src,    \* the source task
    srcRx,  \* its channel of SinkActions
    snk,    \* the sink task
    snkRx,  \* its channel of SourceActions
    fwd,    \* path from the source to the receiver at the sink
    back,   \* path from the sink to the receiver at the source
    out,    \* packets accepted by the output pipe
    link,   \* the connection
    srcRcv, \* what the receiver on the source's side does for this stream
    snkRcv, \* what the receiver on the sink's side does for this stream
    served  \* whether serve() has sent its own SinkClosed

vars == <<src, srcRx, snk, snkRx, fwd, back, out, link, srcRcv, snkRcv, served>>

\* route: delivers messages; closing: RecvRouter::shutdown has drained the maps
\* and owes the task its close message; gone: has sent it; failed: ended by an
\* error, without a close message.  The last two send the task nothing any more.
ReceiverState == {"route", "closing", "gone", "failed"}
Silent == {"gone", "failed"}

TypeOK ==
    /\ src \in SourceState
    /\ snk \in SinkState
    /\ srcRx \in Seq(SinkAction) /\ Len(srcRx) <= ChanCap
    /\ snkRx \in Seq(SourceAction) /\ Len(snkRx) <= ChanCap
    /\ back \in Seq(SinkAction)
    /\ fwd \in Seq(SourceAction)
    /\ out \in Seq(Nat)
    /\ link \in {"up", "down"}
    /\ srcRcv \in ReceiverState
    /\ snkRcv \in ReceiverState
    /\ served \in BOOLEAN

Init ==
    /\ src = SourceNew
    /\ snk = SinkNew
    /\ srcRx = <<>>
    /\ snkRx = <<>>
    /\ fwd = <<>>
    /\ back = <<>>
    /\ out = <<>>
    /\ link = "up"
    /\ srcRcv = "route"
    /\ snkRcv = "route"
    /\ served = FALSE

\* Mutant: a message overtakes the ones before it.
SentFirst(path, msg) == IF link = "up" THEN <<msg>> \o path ELSE path

\* A message sent after the connection is lost never arrives.
Sent(path, msg) == IF link = "up" THEN Append(path, msg) ELSE path

-----------------------------------------------------------------------------
(* The source task.                                                        *)

Read ==
    /\ src.pc = "select"
    /\ src.n < MaxPackets
    /\ src' = SourceRead(src)
    /\ UNCHANGED <<srcRx, snk, snkRx, fwd, back, out, link, srcRcv, snkRcv, served>>

EndOfInput ==
    /\ src.pc = "select"
    /\ src' = SourceBreak(src)
    /\ UNCHANGED <<srcRx, snk, snkRx, fwd, back, out, link, srcRcv, snkRcv, served>>

SourceSend ==
    /\ SourceSending(src)
    /\ fwd' = Sent(fwd, SourceMsg(src))
    /\ src' = SourceSent(src)
    /\ UNCHANGED <<srcRx, snk, snkRx, back, out, link, srcRcv, snkRcv, served>>

SourceTake ==
    /\ SourceListening(src)
    /\ srcRx # <<>>
    /\ src' = SourceRecv(src, Head(srcRx))
    /\ srcRx' = Tail(srcRx)
    /\ UNCHANGED <<snk, snkRx, fwd, back, out, link, srcRcv, snkRcv, served>>

\* The router went away together with the channel's last sender.
SourceNone ==
    /\ SourceListening(src)
    /\ srcRx = <<>>
    /\ srcRcv \in Silent
    /\ src' = SourceRecvNone(src)
    /\ UNCHANGED <<srcRx, snk, snkRx, fwd, back, out, link, srcRcv, snkRcv, served>>

-----------------------------------------------------------------------------
(* The sink task.                                                          *)

SinkTake ==
    /\ snk.pc = "recv"
    /\ snkRx # <<>>
    /\ snk' = SinkRecv(snk, Head(snkRx))
    /\ snkRx' = Tail(snkRx)
    /\ UNCHANGED <<src, srcRx, fwd, back, out, link, srcRcv, snkRcv, served>>

SinkNone ==
    /\ snk.pc = "recv"
    /\ snkRx = <<>>
    /\ snkRcv \in Silent
    /\ snk' = SinkRecvNone(snk)
    /\ UNCHANGED <<src, srcRx, snkRx, fwd, back, out, link, srcRcv, snkRcv, served>>

Write(res) ==
    /\ snk.pc = "write"
    /\ snk' = SinkIo(snk, res)
    /\ out' = IF res = "ok" THEN Append(out, snk.n) ELSE out
    /\ UNCHANGED <<src, srcRx, snkRx, fwd, back, link, srcRcv, snkRcv, served>>

Flush(res) ==
    /\ snk.pc = "flush"
    /\ snk' = SinkIo(snk, res)
    /\ UNCHANGED <<src, srcRx, snkRx, fwd, back, out, link, srcRcv, snkRcv, served>>

SinkSend ==
    /\ SinkSending(snk)
    /\ back' = Sent(back, SinkMsg(snk))
    /\ snk' = SinkSent(snk)
    /\ UNCHANGED <<src, srcRx, snkRx, fwd, out, link, srcRcv, snkRcv, served>>

SinkFinish ==
    /\ snk.pc = "shutdown"
    /\ snk' = SinkShutdown(snk)
    /\ UNCHANGED <<src, srcRx, snkRx, fwd, back, out, link, srcRcv, snkRcv, served>>

-----------------------------------------------------------------------------
(* The receivers, routing with RecvRouter::send_stream_action.             *)

\* send_source_action awaits room in the sink's channel; when the sink has
\* ended, the send fails and the error ends the receiver task.
RouteToSink ==
    /\ snkRcv = "route"
    /\ fwd # <<>>
    /\ fwd' = Tail(fwd)
    /\ \/ /\ ~SinkEnded(snk)
          /\ HasRoom(snkRx)
          /\ snkRx' = Append(snkRx, Head(fwd))
          /\ UNCHANGED snkRcv
       \/ /\ SinkEnded(snk)
          /\ snkRcv' = "failed"
          /\ UNCHANGED snkRx
    /\ UNCHANGED <<src, srcRx, snk, back, out, link, srcRcv, served>>

\* send_sink_action: a source that has ended is not an error.
RouteToSource ==
    /\ srcRcv = "route"
    /\ back # <<>>
    /\ back' = Tail(back)
    /\ \/ /\ ~SourceEnded(src)
          /\ HasRoom(srcRx)
          /\ srcRx' = Append(srcRx, Head(back))
       \/ /\ SourceEnded(src)
          /\ UNCHANGED srcRx
    /\ UNCHANGED <<src, snk, snkRx, fwd, out, link, srcRcv, snkRcv, served>>

\* serve() tells the client's stdin source that the child process has exited.
ServeSinkClosed ==
    /\ ~served
    /\ served' = TRUE
    /\ back' = Sent(back, SinkClosed)
    /\ UNCHANGED <<src, srcRx, snk, snkRx, fwd, out, link, srcRcv, snkRcv>>

-----------------------------------------------------------------------------
(* Faults.                                                                 *)

\* The connection is lost, with any suffix of what is under way.
LinkDown ==
    /\ "link" \in Faults
    /\ link = "up"
    /\ link' = "down"
    /\ \E i \in 0..Len(fwd) : fwd' = SubSeq(fwd, 1, i)
    /\ \E i \in 0..Len(back) : back' = SubSeq(back, 1, i)
    /\ UNCHANGED <<src, srcRx, snk, snkRx, out, srcRcv, snkRcv, served>>

\* The receiver's read fails, or its sender reports a failed write: it stops
\* receiving and RecvRouter::shutdown drains the maps.
BeginShutdownAtSink ==
    /\ link = "down"
    /\ snkRcv = "route"
    /\ snkRcv' = "closing"
    /\ fwd' = <<>>
    /\ UNCHANGED <<src, srcRx, snk, snkRx, back, out, link, srcRcv, served>>

BeginShutdownAtSource ==
    /\ link = "down"
    /\ srcRcv = "route"
    /\ srcRcv' = "closing"
    /\ back' = <<>>
    /\ UNCHANGED <<src, srcRx, snk, snkRx, fwd, out, link, snkRcv, served>>

\* Mutant: the sink is forgotten without its close message.
ShutdownSinkSilent ==
    /\ snkRcv = "closing"
    /\ snkRcv' = "gone"
    /\ UNCHANGED <<src, srcRx, snk, snkRx, fwd, back, out, link, srcRcv, served>>

\* sink::Sender::shutdown; its error is ignored when the sink has ended.
ShutdownSink ==
    /\ snkRcv = "closing"
    /\ snkRcv' = "gone"
    /\ \/ /\ ~SinkEnded(snk)
          /\ HasRoom(snkRx)
          /\ snkRx' = Append(snkRx, SourceClosed)
       \/ /\ SinkEnded(snk)
          /\ UNCHANGED snkRx
    /\ UNCHANGED <<src, srcRx, snk, fwd, back, out, link, srcRcv, served>>

\* source::Sender::shutdown.
ShutdownSource ==
    /\ srcRcv = "closing"
    /\ srcRcv' = "gone"
    /\ \/ /\ ~SourceEnded(src)
          /\ HasRoom(srcRx)
          /\ srcRx' = Append(srcRx, SinkClosed)
       \/ /\ SourceEnded(src)
          /\ UNCHANGED srcRx
    /\ UNCHANGED <<src, snk, snkRx, fwd, back, out, link, snkRcv, served>>

\* The receiver task of a side ends with an error of another stream: messages
\* that wait for it are never read.
ReceiverFails ==
    /\ "receiver" \in Faults
    /\ \/ /\ snkRcv = "route"
          /\ snkRcv' = "failed"
          /\ UNCHANGED srcRcv
       \/ /\ srcRcv = "route"
          /\ srcRcv' = "failed"
          /\ UNCHANGED snkRcv
    /\ UNCHANGED <<src, srcRx, snk, snkRx, fwd, back, out, link, served>>

-----------------------------------------------------------------------------

SourceStep == SourceSend \/ SourceTake
SinkStep ==
    \/ SinkTake \/ SinkSend \/ SinkFinish
    \/ \E res \in WriteResults : Write(res) \/ Flush(res)
ShutdownAtSink == BeginShutdownAtSink \/ ShutdownSink
ShutdownAtSource == BeginShutdownAtSource \/ ShutdownSource

Terminated ==
    /\ SourceEnded(src)
    /\ SinkEnded(snk)
    /\ UNCHANGED vars

Next ==
    \/ Read \/ EndOfInput \/ SourceStep \/ SourceNone
    \/ SinkStep \/ SinkNone
    \/ RouteToSink \/ RouteToSource
    \/ ServeSinkClosed
    \/ LinkDown \/ ShutdownAtSink \/ ShutdownAtSource \/ ReceiverFails
    \/ Terminated

Spec == Init /\ [][Next]_vars

\* Tokio polls every task that is ready, and a write to the output returns.
\* Input need not arrive or end, and nothing has to fail.
Fairness ==
    /\ WF_vars(SourceStep)
    /\ WF_vars(SinkStep)
    /\ WF_vars(RouteToSink)
    /\ WF_vars(RouteToSource)
    /\ WF_vars(ShutdownAtSink)
    /\ WF_vars(ShutdownAtSource)

FairSpec == Spec /\ Fairness

-----------------------------------------------------------------------------
(* Properties.                                                             *)

\* The stream is disturbed by more than a closed output.
Faulty == link = "down" \/ srcRcv # "route" \/ snkRcv # "route"

\* A packet is under way as Data up to the write, and as its Ack after it.
DataIn(chan) == \E i \in 1..Len(chan) : chan[i].act = "Data"
AckIn(chan) == \E i \in 1..Len(chan) : chan[i] = Ack

DataUnderWay == DataIn(fwd) \/ DataIn(snkRx) \/ snk.pc = "write"
AckUnderWay == snk.pc = "ack" \/ AckIn(back) \/ AckIn(srcRx)

\* A channel holds at most one Data, of packet n; and at most one Ack.
OnlyData(chan, n) ==
    \A i, j \in 1..Len(chan) :
        (chan[i].act = "Data" /\ chan[j].act = "Data") => i = j /\ chan[i].n = n
OneAck(chan) == \A i, j \in 1..Len(chan) : chan[i] = Ack /\ chan[j] = Ack => i = j

\* The packet that was read last is under way in one place at most, and what it
\* is there tells how far the output is.  While the source reads or sends, nothing
\* of an earlier packet is left anywhere.
OnePacket ==
    /\ src.pc \in {"select", "send"} =>
         /\ ~DataUnderWay /\ ~AckUnderWay
         /\ src.n = Len(out) + (IF src.pc = "select" THEN 0 ELSE 1)
    /\ DataUnderWay => src.n = Len(out) + 1 /\ ~AckUnderWay
    /\ AckUnderWay => src.n = Len(out)
    /\ OnlyData(fwd, src.n) /\ OnlyData(snkRx, src.n)
    /\ snk.pc = "write" => snk.n = src.n
    /\ DataIn(fwd) => ~DataIn(snkRx) /\ snk.pc # "write"
    /\ DataIn(snkRx) => snk.pc # "write"
    /\ OneAck(back)
    /\ AckIn(back) => ~AckIn(srcRx) /\ snk.pc # "ack"
    /\ AckIn(srcRx) => snk.pc # "ack"

\* The source never meets `panic!("invalid message received")': no Ack arrives
\* while it is not waiting for one, whatever was closed, lost or shut down.
NoPanic == src.pc # "panicked"

\* The output is the input, in order and without repetition, and at most one
\* packet that was read is missing from it, even when the connection is lost.
OneBehind ==
    /\ \A i \in 1..Len(out) : out[i] = i
    /\ src.n - Len(out) \in {0, 1}

\* A sink that ends in good order has written everything that was read.
Complete ==
    (snk.pc = "done" /\ ~snk.closed /\ ~Faulty) => src.n = Len(out)

\* The receiver is never made to wait by an output that does not accept data:
\* no message is ever stuck behind a full channel while the sink is writing, and
\* RecvRouter::shutdown can only be held up there once the child has exited.
NeverStalls ==
    (~HasRoom(snkRx) /\ snk.pc = "write") =>
        /\ fwd = <<>>
        /\ snkRcv = "closing" => served

\* The receiver is not ended by a message for a sink that has finished: the
\* only sink it can find gone is one that failed on a write.
NoStraySourceAction ==
    (fwd # <<>> /\ snkRcv = "route" /\ SinkEnded(snk)) => snk.pc = "failed"

\* The source goes on to the next packet only when the pipe took the last one.
AckedIsWritten ==
    [][(src.pc = "ack" /\ src'.pc = "select") => Len(out) = src.n]_vars

\* A close at either end closes the other: a sink whose pipe is broken stops the
\* source, and the close message of a source ends the sink.
CloseEndsBoth ==
    /\ snk.closed ~> (SourceEnded(src) \/ Faulty)
    /\ src.pc = "done" ~> (SinkEnded(snk) \/ Faulty)

\* When the connection is lost both tasks end, unless a receiver has failed: the
\* router of a failed one tells its tasks nothing.
LostLinkEndsTasks ==
    link = "down" ~> \/ SourceEnded(src) /\ SinkEnded(snk)
                     \/ "failed" \in {srcRcv, snkRcv}

-----------------------------------------------------------------------------
(* The stream implements a pipe of one packet.                             *)

P == INSTANCE Pipe WITH
    taken <- src.n,
    written <- out,
    cut <- snk.closed \/ snk.pc = "failed" \/ Faulty,
    ended <- snk.pc \in {"shutdown", "done", "failed"}

\* Whatever closes, fails or is lost, the two tasks and the receivers between
\* them behave as a pipe that holds one packet.
ImplementsPipe == P!Spec

=============================================================================
