---------------------------- MODULE StreamTasks ----------------------------
(***************************************************************************)
(* The two tasks that carry one byte stream of a session, as transitions   *)
(* of their local state.  A source task reads a pipe or socket and sends    *)
(* each packet to its peer; a sink task writes the packets it receives.     *)
(* The tasks run on a current_thread tokio runtime, so a task is only       *)
(* interrupted where it awaits: `pc' names the await the task is parked at  *)
(* and each operator below is the code from one await to the next.          *)
(* A packet (at most MAX_STREAM_PACKET_SIZE bytes) is its index 1, 2, ...   *)
(***************************************************************************)
EXTENDS Naturals, Sequences

\* Every stream channel is an mpsc::channel(1).
ChanCap == 1

\* Mutant: one message more than the channel holds.
HasRoomSlack(chan) == Len(chan) <= ChanCap

HasRoom(chan) == Len(chan) < ChanCap

Data(n) == [act |-> "Data", n |-> n]
SourceClosed == [act |-> "SourceClosed", n |-> 0]
Ack == [act |-> "Ack", n |-> 0]
SinkClosed == [act |-> "SinkClosed", n |-> 0]

\* What a source task sends, and what a sink task sends.
SourceAction == [act : {"Data", "SourceClosed"}, n : Nat]
SinkAction == {Ack, SinkClosed}

\* A message of a stream without the id of the stream.
ActionOf(m) == [act |-> m.act, n |-> m.n]

\* What the messages msgs say to the source or to the sink of one stream.
Actions(msgs, id, acts) ==
    LET kept[i \in 0..Len(msgs)] ==
          IF i = 0 THEN <<>>
          ELSE IF msgs[i].id = id /\ msgs[i].act \in acts
               THEN Append(kept[i - 1], ActionOf(msgs[i]))
               ELSE kept[i - 1]
    IN  kept[Len(msgs)]

-----------------------------------------------------------------------------
(* source::Task::handle.                                                   *)
(*   select  the select! over reader.read and rx.recv                       *)
(*   send    tx.send(Data) after a non-empty read                           *)
(*   ack     rx.recv after the packet has been queued                       *)
(*   close   tx.send(SourceClosed) after the loop                           *)

SourceState ==
    [pc : {"select", "send", "ack", "close", "done", "failed", "panicked"}, n : Nat]

SourceNew == [pc |-> "select", n |-> 0]

SourceRead(t) == [pc |-> "send", n |-> t.n + 1]

\* Read of zero bytes, or a read error: leave the loop.
SourceBreak(t) == [t EXCEPT !.pc = "close"]

SourceSending(t) == t.pc \in {"send", "close"}

SourceMsg(t) == IF t.pc = "send" THEN Data(t.n) ELSE SourceClosed

\* Mutant: the next packet is read without waiting for the acknowledgement.
SourceSentNoWait(t) == [t EXCEPT !.pc = IF t.pc = "send" THEN "select" ELSE "done"]

SourceSent(t) == [t EXCEPT !.pc = IF t.pc = "send" THEN "ack" ELSE "done"]

SourceListening(t) == t.pc \in {"select", "ack"}

\* A message from the sink: an Ack is only legal after a Data was sent.
SourceRecv(t, a) ==
    [t EXCEPT !.pc = CASE a = SinkClosed -> "close"
                       [] a = Ack /\ t.pc = "ack" -> "select"
                       [] OTHER -> "panicked"]

\* Every sender of the channel was dropped: rx.recv() is None.
SourceRecvNone(t) == [t EXCEPT !.pc = "failed"]

SourceEnded(t) == t.pc \in {"done", "failed", "panicked"}

-----------------------------------------------------------------------------
(* sink::Task::handle.                                                     *)
(*   recv      rx.recv                                                      *)
(*   write     writer.write_all                                             *)
(*   ack       tx.send(Ack)                                                 *)
(*   flush     writer.flush                                                 *)
(*   notify    tx.send(SinkClosed)                                          *)
(*   shutdown  writer.shutdown after the loop                               *)

SinkState ==
    [pc : {"recv", "write", "ack", "flush", "notify", "shutdown", "done", "failed"},
     n : Nat, closed : BOOLEAN]

SinkNew == [pc |-> "recv", n |-> 0, closed |-> FALSE]

\* Mutant: a packet is acknowledged instead of being written first.
SinkRecvAckFirst(t, a) ==
    CASE a.act = "SourceClosed" -> [t EXCEPT !.pc = "shutdown"]
      [] a.act # "SourceClosed" /\ t.closed -> [t EXCEPT !.pc = "notify", !.n = a.n]
      [] OTHER -> [t EXCEPT !.pc = "ack", !.n = a.n]

SinkRecv(t, a) ==
    CASE a.act = "SourceClosed" -> [t EXCEPT !.pc = "shutdown"]
      [] a.act # "SourceClosed" /\ t.closed -> [t EXCEPT !.pc = "notify", !.n = a.n]
      [] OTHER -> [t EXCEPT !.pc = "write", !.n = a.n]

\* rx.recv() is None: the loop ends as after SourceClosed.
SinkRecvNone(t) == [t EXCEPT !.pc = "shutdown"]

\* What a write or a flush may return: success, BrokenPipe, any other error.
IoResult == {"ok", "broken", "other"}

\* Mutant: a broken pipe is noted, but the source is not told.
SinkIoSilent(t, res) ==
    CASE res = "ok" -> [t EXCEPT !.pc = IF t.pc = "write" THEN "ack" ELSE "recv"]
      [] res = "broken" -> [t EXCEPT !.pc = "recv", !.closed = TRUE]
      [] OTHER -> [t EXCEPT !.pc = "failed"]

\* Mutant: the packet that found the pipe broken is acknowledged all the same.
SinkIoAcks(t, res) ==
    CASE res = "ok" -> [t EXCEPT !.pc = IF t.pc = "write" THEN "ack" ELSE "recv"]
      [] res = "broken" -> [t EXCEPT !.pc = "ack"]
      [] OTHER -> [t EXCEPT !.pc = "failed"]

\* Mutant: a broken pipe ends the sink before its source has closed.
SinkIoEnds(t, res) ==
    CASE res = "ok" -> [t EXCEPT !.pc = IF t.pc = "write" THEN "ack" ELSE "recv"]
      [] res = "broken" -> [t EXCEPT !.pc = "shutdown", !.closed = TRUE]
      [] OTHER -> [t EXCEPT !.pc = "failed"]

\* do_if_not_closed around write_all and around flush.
SinkIo(t, res) ==
    CASE res = "ok" -> [t EXCEPT !.pc = IF t.pc = "write" THEN "ack" ELSE "recv"]
      [] res = "broken" -> [t EXCEPT !.pc = "notify", !.closed = TRUE]
      [] OTHER -> [t EXCEPT !.pc = "failed"]

SinkSending(t) == t.pc \in {"ack", "notify"}

SinkMsg(t) == IF t.pc = "ack" THEN Ack ELSE SinkClosed

\* Mutant: the packet is written once more instead of being flushed.
SinkSentAgain(t) == [t EXCEPT !.pc = IF t.pc = "ack" THEN "write" ELSE "recv"]

SinkSent(t) == [t EXCEPT !.pc = IF t.pc = "ack" THEN "flush" ELSE "recv"]

SinkShutdown(t) == [t EXCEPT !.pc = "done"]

SinkEnded(t) == t.pc \in {"done", "failed"}

=============================================================================
