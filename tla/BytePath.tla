------------------------------ MODULE BytePath ------------------------------
(***************************************************************************)
(* The way of the bytes that a user types: from the client's standard input *)
(* (Stdin), in packets of what one read returns, as messages cut into       *)
(* pieces by TCP, to the pseudo-terminal of the child (PtyMaster), which    *)
(* takes as many as it has room for.  Stream.tla takes a packet as a whole; *)
(* here it is bytes, and each of the reads and writes may do a part.         *)
(* Bytes are numbered as they are typed.                                    *)
(***************************************************************************)
EXTENDS Framing, Readiness, FiniteSetsExt

CONSTANTS
    Total,     \* bound on the bytes that are typed
    MaxPacket, \* MAX_STREAM_PACKET_SIZE
    InCap,     \* bytes the pipe of the standard input holds
    NetCap,    \* bytes the TCP buffers hold
    PtyCap     \* bytes the pseudo-terminal holds for the child

ASSUME BytePathAssumption ==
    /\ Total \in Nat
    /\ {MaxPacket, InCap, NetCap, PtyCap} \subseteq Nat \ {0}
    /\ MaxPacket < SizeLimit

VARIABLES
    typed,   \* number of bytes typed
    closed,  \* the standard input has ended
    input,   \* bytes in its pipe
    stdin,   \* its AsyncFd
    source,  \* the source task: it reads, awaits the Ack, or has closed
    tx,      \* what send_message still has to write
    net,     \* bytes in the TCP buffers
    link,    \* the connection
    reader,  \* recv_message
    sink,    \* the packet write_all is writing, or the close message
    pty,     \* bytes in the pseudo-terminal
    master,  \* its AsyncFd, for writing
    got      \* bytes the child has read

inVars == <<typed, closed, input, stdin>>
netVars == <<tx, net, link, reader>>
outVars == <<pty, master, got>>
vars == <<inVars, source, netVars, sink, outVars>>

DataTag == 0
ClosedTag == 1

Init ==
    /\ typed = 0
    /\ closed = FALSE
    /\ input = <<>>
    /\ stdin = Polled(Registered(FALSE))
    /\ source = "read"
    /\ tx = <<>>
    /\ net = <<>>
    /\ link = "up"
    /\ reader = NewReader
    /\ sink = [pc |-> "recv", left |-> <<>>]
    /\ pty = <<>>
    /\ master = Registered(TRUE)
    /\ got = <<>>

FirstOf(chan, n) == SubSeq(chan, 1, n)
Without(chan, n) == SubSeq(chan, n + 1, Len(chan))
UpTo(n, m) == 1..Min({n, m})

-----------------------------------------------------------------------------
(* The standard input and the source task.                                 *)

Type ==
    /\ ~closed /\ typed < Total /\ Len(input) < InCap
    /\ typed' = typed + 1
    /\ input' = Append(input, typed + 1)
    /\ stdin' = IF input = <<>> THEN BecomesUsable(stdin) ELSE stdin
    /\ UNCHANGED <<closed, source, netVars, sink, outVars>>

EndOfInput ==
    /\ ~closed
    /\ closed' = TRUE
    /\ stdin' = BecomesUsable(stdin)
    /\ UNCHANGED <<typed, input, source, netVars, sink, outVars>>

\* Stdin::poll_read up to and after the call of read(2).
StdinPoll ==
    /\ \/ DriverRuns(stdin) /\ stdin' = Driven(stdin)
       \/ stdin.pc = "poll" /\ stdin' = PollReady(stdin)
       \/ stdin.pc = "io" /\ input = <<>> /\ ~closed /\ stdin' = WouldBlock(stdin)
       \/ stdin.pc = "clear" /\ stdin' = Cleared(stdin)
    /\ UNCHANGED <<typed, closed, input, source, netVars, sink, outVars>>

\* read(2) returns some bytes, at most a packet, or the end of the input; the
\* source hands them to the sender task.
StdinRead ==
    /\ stdin.pc = "io"
    /\ \/ /\ \E n \in UpTo(Len(input), MaxPacket) :
                /\ tx' = Frame(<<DataTag>> \o FirstOf(input, n))
                /\ input' = Without(input, n)
          /\ source' = "ack"
       \/ /\ input = <<>> /\ closed
          /\ tx' = Frame(<<ClosedTag>>)
          /\ source' = "closed"
          /\ UNCHANGED input
    /\ stdin' = Completed(stdin)
    /\ UNCHANGED <<typed, closed, net, link, reader, sink, outVars>>

-----------------------------------------------------------------------------
(* The connection: send_message and recv_message.                          *)

SendSome ==
    /\ link = "up"
    /\ \E n \in UpTo(Len(tx), NetCap - Len(net)) :
          /\ net' = net \o FirstOf(tx, n)
          /\ tx' = Without(tx, n)
    /\ UNCHANGED <<inVars, source, link, reader, sink, outVars>>

ReceiveSome ==
    /\ reader.pc \in {"size", "body"}
    /\ \E n \in UpTo(Len(net), reader.need - Len(reader.got)) :
          /\ reader' = ReadSome(reader, FirstOf(net, n))
          /\ net' = Without(net, n)
    /\ UNCHANGED <<inVars, source, tx, link, sink, outVars>>

\* The message is routed to the sink, and the next one awaited.
Deliver ==
    /\ HasMessage(reader)
    /\ sink.pc = "recv"
    /\ reader' = NewReader
    /\ \/ /\ Head(reader.got) = DataTag
          /\ sink' = [pc |-> "write", left |-> Tail(reader.got)]
          /\ master' = Polled(master)
       \/ /\ Head(reader.got) = ClosedTag
          /\ sink' = [sink EXCEPT !.pc = "closed"]
          /\ UNCHANGED master
    /\ UNCHANGED <<inVars, source, tx, net, link, pty, got>>

\* The connection is lost with the last bytes under way.
LinkLost ==
    /\ link = "up"
    /\ link' = "down"
    /\ \E i \in 0..Len(net) : net' = FirstOf(net, i)
    /\ tx' = <<>>
    /\ UNCHANGED <<inVars, source, reader, sink, outVars>>

\* read_exact finds the end of the connection, or select! drops recv_message for
\* the error that the sender reports, at any byte of a message.  What it had
\* read is lost, and the receiver stops reading for good.
ReceiveFails ==
    /\ link = "down" /\ ~HasMessage(reader)
    /\ reader.pc # "failed"
    /\ reader' = [reader EXCEPT !.pc = "failed"]
    /\ UNCHANGED <<inVars, source, tx, net, link, sink, outVars>>

-----------------------------------------------------------------------------
(* The sink task and the pseudo-terminal.                                  *)

\* PtyMaster::poll_write up to and after the call of write(2).
PtyPoll ==
    /\ \/ DriverRuns(master) /\ master' = Driven(master)
       \/ master.pc = "poll" /\ master' = PollReady(master)
       \/ master.pc = "io" /\ Len(pty) = PtyCap /\ master' = WouldBlock(master)
       \/ master.pc = "clear" /\ master' = Cleared(master)
    /\ UNCHANGED <<inVars, source, netVars, sink, pty, got>>

\* Mutant: write instead of write_all.
LeftByOneWrite(n) == <<>>

\* write_all goes on with what write(2) did not take.
LeftByWriteAll(n) == Without(sink.left, n)

\* When the packet is written the sink acknowledges it and the source reads on.
PtyWrite ==
    /\ master.pc = "io"
    /\ \E n \in UpTo(Len(sink.left), PtyCap - Len(pty)) :
          /\ pty' = pty \o FirstOf(sink.left, n)
          /\ sink' = [sink EXCEPT !.left = LeftByWriteAll(n),
                                 !.pc = IF LeftByWriteAll(n) = <<>> THEN "recv" ELSE "write"]
    /\ IF sink'.pc = "write"
       THEN master' = Polled(master) /\ UNCHANGED <<source, stdin>>
       ELSE /\ master' = Completed(master)
            /\ source' = IF link = "up" THEN "read" ELSE source
            /\ stdin' = IF link = "up" THEN Polled(stdin) ELSE stdin
    /\ UNCHANGED <<typed, closed, input, netVars, got>>

ChildReads ==
    /\ \E n \in UpTo(Len(pty), PtyCap) :
          /\ got' = got \o FirstOf(pty, n)
          /\ pty' = Without(pty, n)
    /\ master' = IF Len(pty) = PtyCap THEN BecomesUsable(master) ELSE master
    /\ UNCHANGED <<inVars, source, netVars, sink>>

-----------------------------------------------------------------------------

\* The close message has arrived and the child has read everything, or nothing
\* can arrive any more.
Terminated ==
    /\ sink.pc = "closed" \/ link = "down"
    /\ UNCHANGED vars

Next ==
    \/ Type \/ EndOfInput
    \/ StdinPoll \/ StdinRead
    \/ SendSome \/ ReceiveSome \/ Deliver \/ LinkLost \/ ReceiveFails
    \/ PtyPoll \/ PtyWrite \/ ChildReads
    \/ Terminated

Spec == Init /\ [][Next]_vars

\* The runtimes poll what is ready, TCP delivers, and the child reads.  Nobody
\* has to type, and the input need not end.
Fairness ==
    /\ WF_vars(StdinPoll \/ StdinRead)
    /\ WF_vars(SendSome)
    /\ WF_vars(ReceiveSome)
    /\ WF_vars(Deliver)
    /\ WF_vars(PtyPoll \/ PtyWrite)
    /\ WF_vars(ChildReads)

FairSpec == Spec /\ Fairness

-----------------------------------------------------------------------------
(* Properties.                                                             *)

\* The bytes of the packet that is between the two tasks.
UnderWay ==
    LET bytes == reader.got \o net \o tx
    IN  IF reader.pc = "size" THEN Without(bytes, SizeBytes + 1) ELSE Without(bytes, 1)

Numbered(n) == [i \in 1..n |-> i]

\* However reads and writes cut them, the bytes reach the child in order, once
\* and without those of the size or of a tag, and none is lost on the way; a
\* lost connection loses the last ones only, and nothing else makes the
\* receiver refuse a message.
InOrder ==
    /\ link = "up" => got \o pty \o sink.left \o UnderWay \o input = Numbered(typed)
    /\ LET arrived == got \o pty \o sink.left IN arrived = Numbered(Len(arrived))
    /\ reader.pc = "failed" => link = "down"

\* A task that waits for a descriptor is woken: an event that comes between the
\* call that would block and the end of the poll is not lost.
NoLostWakeup ==
    /\ WillWake(stdin, input # <<>> \/ closed)
    /\ WillWake(master, Len(pty) < PtyCap)

\* What is typed reaches a child that reads.
BytesArrive ==
    \A n \in 1..Total : typed >= n ~> (Len(got) >= n \/ link = "down")

=============================================================================
