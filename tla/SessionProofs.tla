---------------------------- MODULE SessionProofs ----------------------------
(***************************************************************************)
(* Proofs about a session, for every number of packets, capacity of the     *)
(* queues and of the connection, outcome of the writes and set of failures: *)
(* Session.tla says what the properties mean.                               *)
(***************************************************************************)
EXTENDS SessionStream, StreamTasksProofs, FiniteSetTheorems

-----------------------------------------------------------------------------
(* The inductive invariant.                                                *)

\* The messages a side sends about its sources and its sinks.
StreamMsgs(sd) ==
    [id : {s \in Streams : SourceSide(s) = sd}, act : {"Data", "SourceClosed"}, n : Nat]
    \cup [id : Sinks(sd), act : {"Ack", "SinkClosed"}, n : {0}]

\* The status to report, once the child has exited by itself.
Reported == Statuses \cap {child}

\* What a side says is true: a size is one that its terminal has had, a status is
\* that of the child.
MainMsgs(sd) ==
    {Finished} \cup
    IF sd = "client" THEN {WindowSizeChange(n) : n \in 0..term}
                     ELSE {Exit(st) : st \in Reported}

Msgs(sd) == StreamMsgs(sd) \cup MainMsgs(sd)

SenderState(sd) ==
    [pc : {"recv", "write", "notified", "done"}, msg : Seq(Msgs(sd)), failed : BOOLEAN]

ReceiverState(sd) ==
    [pc : {"recv", "route", "shutdown", "done", "failed"},
     msg : Seq(StreamMsgs(Peer(sd))), failed : BOOLEAN, todo : Seq(Streams)]

\* The tasks of the streams and their channels.
TaskTypes ==
    /\ src \in [Streams -> SourceState]
    /\ snk \in [Streams -> SinkState]
    /\ srcRx \in [Streams -> Seq(SinkAction)]
    /\ snkRx \in [Streams -> Seq(SourceAction)]
    /\ \A s \in Streams : Len(srcRx[s]) <= ChanCap /\ Len(snkRx[s]) <= ChanCap

\* The way of the messages that a side sends: q its queue, c the connection, t the
\* sender; r is its receiver.
Way(sd, q, c, t, r) ==
    /\ q \in Seq(Msgs(sd)) /\ Len(q) <= QueueCap
    /\ c \in Seq(Msgs(sd)) /\ Len(c) <= NetCap
    /\ t \in SenderState(sd)
    /\ Len(t.msg) = IF t.pc = "write" THEN 1 ELSE 0
    /\ r \in ReceiverState(sd)
    /\ Len(r.msg) = IF r.pc = "route" THEN 1 ELSE 0

LinkTypes ==
    /\ DOMAIN queue = Sides /\ DOMAIN net = Sides
    /\ DOMAIN sender = Sides /\ DOMAIN receiver = Sides
    /\ \A sd \in Sides : Way(sd, queue[sd], net[sd], sender[sd], receiver[sd])

MainTypes ==
    /\ conn \in {"up", "down", "closed"}
    /\ killed \subseteq Sides
    /\ error \in [Sides -> BOOLEAN]
    /\ child \in Statuses \cup {Running, SigKill}
    /\ serve = [pc |-> serve.pc, status |-> serve.status]
    /\ serve.pc \in {"wait", "sinkclosed", "exit", "join", "ok", "err"}
    /\ client \in {"status", "stdio", "join", "ok", "err"}
    /\ exit \in Reported \cup {NoStatus, <<"Lost", 0>>}
    /\ term \in Nat /\ pty \in 0..term
    /\ winch = [pc |-> winch.pc, n |-> winch.n] /\ winch.n \in 0..term

\* Who knows the status: serve() has it from the child, main() of the client from
\* serve().
StatusKnown ==
    /\ serve.pc = "wait" => child \in Statuses \cup {Running}
    /\ serve.pc \in {"sinkclosed", "exit"} => serve.status \in Reported
    /\ client \in {"stdio", "join", "ok"} => exit \in Reported
    /\ client = "ok" => code = ExitCode(exit)

Inv == TaskTypes /\ LinkTypes /\ MainTypes /\ StatusKnown

-----------------------------------------------------------------------------
(* Constants.                                                              *)

\* The two sides, and what belongs to them.
LEMMA SideFacts ==
    /\ \A sd \in Sides : Peer(sd) \in Sides /\ Peer(sd) # sd /\ Peer(Peer(sd)) = sd
    /\ \A sd \in Sides : \A other \in Sides : other = sd \/ other = Peer(sd)
    /\ \A s \in Streams : /\ SourceSide(s) \in Sides /\ SinkSide(s) \in Sides
                          /\ SinkSide(s) = Peer(SourceSide(s))
                          /\ SourceSide(s) = Peer(SinkSide(s))
    /\ \A sd \in Sides : Sources(sd) \subseteq Streams /\ Sinks(sd) \subseteq Streams
  BY DEF Sides, Peer, Streams, SourceSide, SinkSide, Sources, Sinks

\* No status that a child can have stands for its absence.
LEMMA StatusFacts ==
    /\ Running \notin Statuses /\ NoStatus \notin Statuses /\ <<"Lost", 0>> \notin Statuses
    /\ \A st \in Statuses : st[1] # "Lost"
  BY SessionAssumption DEF Running, NoStatus

\* What a task of a stream sends is a message of its side.
LEMMA TaskMsgs ==
    ASSUME NEW s \in Streams
    PROVE  /\ \A a \in SourceAction : StreamMsg(s, a) \in StreamMsgs(SourceSide(s))
           /\ \A a \in SinkAction : StreamMsg(s, a) \in StreamMsgs(SinkSide(s))
           /\ \A t \in SourceState : SourceMsg(t) \in SourceAction
           /\ \A t \in SinkState : SinkMsg(t) \in SinkAction
  <1>1. ASSUME NEW a \in SourceAction
        PROVE  StreamMsg(s, a) \in StreamMsgs(SourceSide(s))
    BY DEF StreamMsg, StreamMsgs, SourceAction
  <1>2. ASSUME NEW a \in SinkAction
        PROVE  StreamMsg(s, a) \in StreamMsgs(SinkSide(s))
    BY DEF StreamMsg, StreamMsgs, SinkAction, Ack, SinkClosed, Sinks
  <1>3. ASSUME NEW t \in SourceState
        PROVE  SourceMsg(t) \in SourceAction
    BY DEF SourceState, SourceMsg, SourceAction, Data, SourceClosed
  <1>4. ASSUME NEW t \in SinkState
        PROVE  SinkMsg(t) \in SinkAction
    BY DEF SinkMsg, SinkAction
  <1> QED
    BY <1>1, <1>2, <1>3, <1>4

\* The messages to a sink come from the other side, those to a source likewise.
LEMMA RoutedMsgs ==
    ASSUME NEW sd \in Sides, NEW m \in StreamMsgs(sd)
    PROVE  /\ m.id \in Streams
           /\ ForSink(m) => SourceSide(m.id) = sd /\ ActionOf(m) \in SourceAction
           /\ ~ForSink(m) => SinkSide(m.id) = sd /\ ActionOf(m) \in SinkAction
  <1>1. CASE m \in [id : {s \in Streams : SourceSide(s) = sd},
                    act : {"Data", "SourceClosed"}, n : Nat]
    BY <1>1 DEF ForSink, ActionOf, SourceAction
  <1>2. CASE m \in [id : Sinks(sd), act : {"Ack", "SinkClosed"}, n : {0}]
    BY <1>2 DEF ForSink, ActionOf, SinkAction, Ack, SinkClosed, Sinks
  <1> QED
    BY <1>1, <1>2 DEF StreamMsgs

\* The messages of main() are not those of a stream.
LEMMA MainMsgFacts ==
    ASSUME NEW sd \in Sides, NEW m \in Msgs(sd)
    PROVE  /\ m.id \in Streams => m \in StreamMsgs(sd)
           /\ m \in StreamMsgs(sd) =>
                m.act \notin {"Exit", "WindowSizeChange", "Finished"} /\ m.id \in Streams
           /\ m.act = "Exit" => sd = "server" /\ m.n \in Reported /\ m = Exit(m.n)
           /\ m.act = "WindowSizeChange" => sd = "client" /\ m.n \in 0..term
           /\ m.act = "Finished" => m = Finished
  <1>1. CASE m \in StreamMsgs(sd)
    BY <1>1 DEF StreamMsgs, Sinks
  <1>2. CASE m = Finished
    BY <1>2 DEF Finished, Streams, StreamMsgs
  <1>3. CASE sd = "client" /\ m \in {WindowSizeChange(n) : n \in 0..term}
    BY <1>3 DEF WindowSizeChange, Streams, StreamMsgs
  <1>4. CASE sd = "server" /\ m \in {Exit(st) : st \in Reported}
    BY <1>4 DEF Exit, Streams, StreamMsgs
  <1> QED
    BY <1>1, <1>2, <1>3, <1>4 DEF Msgs, MainMsgs, Sides

-----------------------------------------------------------------------------
(* The steps.                                                              *)

\* What the steps of a task leave alone.
LEMMA TaskFrames ==
    ASSUME NEW s \in Streams, SourceIn(s) \/ SourceStep(s) \/ SinkStep(s) \/ SinkWrite(s)
    PROVE  /\ UNCHANGED <<net, conn, killed, sender, error, receiver>>
           /\ UNCHANGED <<serverVars, clientVars, windowVars>>
           /\ \/ UNCHANGED queue
              \/ SourceSending(src[s]) /\ Enqueue(SourceSide(s), StreamMsg(s, SourceMsg(src[s])))
              \/ SinkSending(snk[s]) /\ Enqueue(SinkSide(s), StreamMsg(s, SinkMsg(snk[s])))
  <1> USE DEF linkVars
  <1>1. CASE SourceIn(s)
    BY <1>1 DEF SourceIn, ReadPacket, EndOfInput
  <1>2. CASE SourceStep(s)
    BY <1>2 DEF SourceStep, SourceSend, SourceTake, Enqueue
  <1>3. CASE SinkStep(s)
    BY <1>3 DEF SinkStep, SinkTake, SinkSend, SinkFinish, Enqueue
  <1>4. CASE SinkWrite(s)
    BY <1>4 DEF SinkWrite
  <1> QED
    BY <1>1, <1>2, <1>3, <1>4

\* What the steps of the window_change task, and the user, leave alone.
LEMMA WindowFrames ==
    ASSUME Resize \/ WindowStep
    PROVE  /\ UNCHANGED <<streamVars, net, conn, killed, sender, error, receiver>>
           /\ UNCHANGED <<serverVars, clientVars, pty>>
           /\ \/ UNCHANGED <<queue, term>>
              \/ UNCHANGED queue /\ term' = term + 1
              \/ UNCHANGED term /\ winch.pc = "send" /\ Enqueue("client", WindowSizeChange(winch.n))
  BY DEF Resize, WindowStep, WindowSignal, WindowSend, WindowEnd, Enqueue, linkVars

\* What the sender tasks leave alone.
LEMMA SenderFrames ==
    ASSUME (\E sd \in Sides : SenderStep(sd)) \/ SenderNotified
    PROVE  UNCHANGED <<conn, killed, receiver, streamVars, child, serve, kill, clientVars, windowVars>>
  BY DEF SenderStep, SenderTake, SenderWrite, SenderDrained, SenderNotified, serverVars

\* What the receiver tasks leave alone.
LEMMA ReceiverFrames ==
    ASSUME NEW sd \in Sides, ReceiverStep(sd)
    PROVE  /\ UNCHANGED <<queue, conn, killed, sender, src, snk, out, child, serve>>
           /\ UNCHANGED <<client, code, term, sig, winch>>
  <1> USE DEF streamVars, serverVars, clientVars, windowVars
  <1>1. CASE ReceiverRecv(sd)
    BY <1>1 DEF ReceiverRecv
  <1>2. CASE ReceiverRoute(sd)
    BY <1>2 DEF ReceiverRoute
  <1>3. CASE ReceiverError(sd)
    BY <1>3 DEF ReceiverError
  <1>4. CASE ReceiverShutdown(sd)
    BY <1>4 DEF ReceiverShutdown
  <1>5. CASE ReceiverShutdownEnd(sd)
    BY <1>5 DEF ReceiverShutdownEnd
  <1> QED
    BY <1>1, <1>2, <1>3, <1>4, <1>5 DEF ReceiverStep

\* What serve() of the server and the child leave alone.
LEMMA ServerFrames ==
    ASSUME ChildExit \/ ServeStep
    PROVE  /\ UNCHANGED <<streamVars, net, conn, killed, sender, error, receiver>>
           /\ UNCHANGED <<notify, clientVars, windowVars>>
           /\ \/ UNCHANGED queue
              \/ serve.pc = "sinkclosed" /\ Enqueue("server", StreamMsg("Stdin", SinkClosed))
              \/ serve.pc = "exit" /\ Enqueue("server", Exit(serve.status))
  <1> USE DEF linkVars
  <1>1. CASE ChildExit
    BY <1>1 DEF ChildExit
  <1>2. CASE ServeStep
    BY <1>2 DEF ServeStep, ServeWait, ServeKill, ServeSinkClosed, ServeExit, ServeJoin, Enqueue
  <1> QED
    BY <1>1, <1>2

\* What main() of the client and a loss of the connection leave alone.
LEMMA ClientFrames ==
    ASSUME ClientStep \/ ConnectionLost
    PROVE  /\ UNCHANGED <<streamVars, queue, sender, error, receiver, serverVars, exit, windowVars>>
           /\ UNCHANGED <<conn, net>> \/ (conn = "up" /\ Disconnect(conn') /\ conn' # "up")
  BY DEF ClientStep, ClientStatus, ClientStdio, ClientJoin, ClientExits, ConnectionLost,
         Disconnect, clientVars

-----------------------------------------------------------------------------
(* Types.                                                                  *)

\* A sequence of one element.
LEMMA OneElement ==
    ASSUME NEW S, NEW q \in Seq(S), Len(q) = 1
    PROVE  q[1] \in S /\ q = <<q[1]>>
  <1>1. q[1] \in S
    OBVIOUS
  <1> DEFINE t == <<q[1]>>
  <1>2. t \in Seq(S) /\ Len(t) = 1 /\ t[1] = q[1]
    BY <1>1
  <1> HIDE DEF t
  <1>3. \A i \in 1..Len(q) : q[i] = t[i]
    BY <1>2
  <1>4. q = t
    BY <1>2, <1>3, SeqEqual
  <1> QED
    BY <1>1, <1>4 DEF t

\* The message that a task has in hand.
LEMMA InHand ==
    ASSUME LinkTypes, NEW sd \in Sides
    PROVE  /\ receiver[sd].pc = "route" =>
                /\ receiver[sd].msg[1] \in StreamMsgs(Peer(sd))
                /\ receiver[sd].msg = <<receiver[sd].msg[1]>>
           /\ sender[sd].pc = "write" =>
                /\ sender[sd].msg[1] \in Msgs(sd)
                /\ sender[sd].msg = <<sender[sd].msg[1]>>
           /\ receiver[sd].pc # "route" => receiver[sd].msg = <<>>
           /\ sender[sd].pc # "write" => sender[sd].msg = <<>>
  <1>1. /\ receiver[sd].msg \in Seq(StreamMsgs(Peer(sd))) /\ sender[sd].msg \in Seq(Msgs(sd))
        /\ Len(receiver[sd].msg) = IF receiver[sd].pc = "route" THEN 1 ELSE 0
        /\ Len(sender[sd].msg) = IF sender[sd].pc = "write" THEN 1 ELSE 0
    BY DEF LinkTypes, Way, ReceiverState, SenderState
  <1>2. receiver[sd].pc # "route" => receiver[sd].msg = <<>>
    BY <1>1
  <1>3. sender[sd].pc # "write" => sender[sd].msg = <<>>
    BY <1>1
  <1> QED
    BY <1>1, <1>2, <1>3, OneElement

\* Every step keeps the types of the streams' tasks; a receiver only sends where
\* there is room.
LEMMA TaskTypesNext == TaskTypes /\ LinkTypes /\ [Next]_vars => TaskTypes'
  <1> SUFFICES ASSUME TaskTypes, LinkTypes, [Next]_vars PROVE TaskTypes'
    OBVIOUS
  <1>1. CASE UNCHANGED streamVars
    BY <1>1 DEF streamVars, TaskTypes
  <1>2. ASSUME NEW s \in Streams, SourceIn(s) PROVE TaskTypes'
    <2>1. src' \in [Streams -> SourceState]
      <3>1. \/ src' = [src EXCEPT ![s] = SourceRead(@)]
            \/ src' = [src EXCEPT ![s] = SourceBreak(@)]
        BY <1>2 DEF SourceIn, ReadPacket, EndOfInput
      <3>2. src[s] \in SourceState
        BY DEF TaskTypes
      <3>3. SourceRead(src[s]) \in SourceState /\ SourceBreak(src[s]) \in SourceState
        BY <3>2, SourceTypes
      <3> QED
        BY <3>1, <3>3 DEF TaskTypes
    <2> QED
      BY <1>2, <2>1 DEF TaskTypes, SourceIn, ReadPacket, EndOfInput
  <1>3. ASSUME NEW s \in Streams, SourceSend(s) PROVE TaskTypes'
    <2>1. src' \in [Streams -> SourceState]
      BY <1>3, SourceTypes DEF TaskTypes, SourceSend
    <2> QED
      BY <1>3, <2>1 DEF TaskTypes, SourceSend
  <1>4. ASSUME NEW s \in Streams, SourceTake(s) PROVE TaskTypes'
    <2>1. CASE srcRx[s] # <<>> /\ src' = [src EXCEPT ![s] = SourceRecv(@, Head(srcRx[s]))]
                               /\ srcRx' = [srcRx EXCEPT ![s] = Tail(@)]
      <3>1. srcRx[s] \in Seq(SinkAction) /\ Len(srcRx[s]) <= ChanCap
        BY DEF TaskTypes
      <3>2. /\ Head(srcRx[s]) \in SinkAction /\ Tail(srcRx[s]) \in Seq(SinkAction)
            /\ Len(Tail(srcRx[s])) <= ChanCap
        BY <2>1, <3>1, TailFacts DEF ChanCap
      <3>3. src' \in [Streams -> SourceState]
        BY <2>1, <3>2, SourceTypes DEF TaskTypes
      <3> QED
        BY <1>4, <2>1, <3>2, <3>3 DEF TaskTypes, SourceTake
    <2>2. CASE src' = [src EXCEPT ![s] = SourceRecvNone(@)] /\ UNCHANGED srcRx
      <3>1. src' \in [Streams -> SourceState]
        BY <2>2, SourceTypes DEF TaskTypes
      <3> QED
        BY <1>4, <2>2, <3>1 DEF TaskTypes, SourceTake
    <2> QED
      BY <1>4, <2>1, <2>2 DEF SourceTake
  <1>5. ASSUME NEW s \in Streams, SinkTake(s) PROVE TaskTypes'
    <2>1. CASE snkRx[s] # <<>> /\ snk' = [snk EXCEPT ![s] = SinkRecv(@, Head(snkRx[s]))]
                               /\ snkRx' = [snkRx EXCEPT ![s] = Tail(@)]
      <3>1. snkRx[s] \in Seq(SourceAction) /\ Len(snkRx[s]) <= ChanCap
        BY DEF TaskTypes
      <3>2. /\ Head(snkRx[s]) \in SourceAction /\ Tail(snkRx[s]) \in Seq(SourceAction)
            /\ Len(Tail(snkRx[s])) <= ChanCap
        BY <2>1, <3>1, TailFacts DEF ChanCap
      <3>3. snk' \in [Streams -> SinkState]
        BY <2>1, <3>2, SinkTypes DEF TaskTypes
      <3> QED
        BY <1>5, <2>1, <3>2, <3>3 DEF TaskTypes, SinkTake
    <2>2. CASE snk' = [snk EXCEPT ![s] = SinkRecvNone(@)] /\ UNCHANGED snkRx
      <3>1. snk' \in [Streams -> SinkState]
        BY <2>2, SinkTypes DEF TaskTypes
      <3> QED
        BY <1>5, <2>2, <3>1 DEF TaskTypes, SinkTake
    <2> QED
      BY <1>5, <2>1, <2>2 DEF SinkTake
  <1>6. ASSUME NEW s \in Streams, SinkWrite(s) PROVE TaskTypes'
    <2>1. PICK res \in WriteResults[s] : snk' = [snk EXCEPT ![s] = SinkIo(@, res)]
      BY <1>6 DEF SinkWrite
    <2>2. res \in IoResult
      BY SessionAssumption
    <2>3. snk' \in [Streams -> SinkState]
      BY <2>1, <2>2, SinkTypes DEF TaskTypes
    <2> QED
      BY <1>6, <2>3 DEF TaskTypes, SinkWrite
  <1>7. ASSUME NEW s \in Streams, SinkSend(s) \/ SinkFinish(s) PROVE TaskTypes'
    <2>1. snk' \in [Streams -> SinkState]
      <3>1. \/ snk' = [snk EXCEPT ![s] = SinkSent(@)]
            \/ snk' = [snk EXCEPT ![s] = SinkShutdown(@)]
        BY <1>7 DEF SinkSend, SinkFinish
      <3>2. snk[s] \in SinkState
        BY DEF TaskTypes
      <3>3. SinkSent(snk[s]) \in SinkState /\ SinkShutdown(snk[s]) \in SinkState
        BY <3>2, SinkTypes
      <3> QED
        BY <3>1, <3>3 DEF TaskTypes
    <2> QED
      BY <1>7, <2>1 DEF TaskTypes, SinkSend, SinkFinish
  <1>8. ASSUME NEW sd \in Sides, ReceiverRoute(sd) PROVE TaskTypes'
    <2> DEFINE m == receiver[sd].msg[1]
    <2>1. m \in StreamMsgs(Peer(sd))
      BY <1>8, InHand DEF ReceiverRoute
    <2>2. m.id \in Streams /\ (ForSink(m) => ActionOf(m) \in SourceAction)
                           /\ (~ForSink(m) => ActionOf(m) \in SinkAction)
      BY <2>1, SideFacts, RoutedMsgs
    <2>3. UNCHANGED <<src, snk>>
      BY <1>8 DEF ReceiverRoute
    <2> HIDE DEF m
    <2>4. CASE UNCHANGED <<snkRx, srcRx>>
      BY <2>3, <2>4 DEF TaskTypes
    <2>5. CASE /\ ForSink(m) /\ HasRoom(snkRx[m.id]) /\ UNCHANGED srcRx
               /\ snkRx' = [snkRx EXCEPT ![m.id] = Append(@, ActionOf(m))]
      <3>1. /\ Append(snkRx[m.id], ActionOf(m)) \in Seq(SourceAction)
            /\ Len(Append(snkRx[m.id], ActionOf(m))) <= ChanCap
        BY <2>2, <2>5, AppendFacts DEF TaskTypes, HasRoom, ChanCap
      <3> QED
        BY <2>2, <2>3, <2>5, <3>1 DEF TaskTypes
    <2>6. CASE /\ ~ForSink(m) /\ HasRoom(srcRx[m.id]) /\ UNCHANGED snkRx
               /\ srcRx' = [srcRx EXCEPT ![m.id] = Append(@, ActionOf(m))]
      <3>1. /\ Append(srcRx[m.id], ActionOf(m)) \in Seq(SinkAction)
            /\ Len(Append(srcRx[m.id], ActionOf(m))) <= ChanCap
        BY <2>2, <2>6, AppendFacts DEF TaskTypes, HasRoom, ChanCap
      <3> QED
        BY <2>2, <2>3, <2>6, <3>1 DEF TaskTypes
    <2> QED
      BY <1>8, <2>4, <2>5, <2>6 DEF ReceiverRoute, m
  <1>9. ASSUME NEW sd \in Sides, ReceiverShutdown(sd) PROVE TaskTypes'
    <2> DEFINE s == Head(receiver[sd].todo)
    <2>1. SourceClosed \in SourceAction /\ SinkClosed \in SinkAction
      BY DEF SourceClosed, SourceAction, SinkAction
    <2>2. UNCHANGED <<src, snk>>
      BY <1>9 DEF ReceiverShutdown
    <2> HIDE DEF s
    <2>3. CASE UNCHANGED <<snkRx, srcRx>>
      BY <2>2, <2>3 DEF TaskTypes
    <2>4. CASE /\ s \in Streams /\ HasRoom(snkRx[s]) /\ UNCHANGED srcRx
               /\ snkRx' = [snkRx EXCEPT ![s] = Append(@, SourceClosed)]
      <3>1. /\ Append(snkRx[s], SourceClosed) \in Seq(SourceAction)
            /\ Len(Append(snkRx[s], SourceClosed)) <= ChanCap
        BY <2>1, <2>4, AppendFacts DEF TaskTypes, HasRoom, ChanCap
      <3> QED
        BY <2>2, <2>4, <3>1 DEF TaskTypes
    <2>5. CASE /\ s \in Streams /\ HasRoom(srcRx[s]) /\ UNCHANGED snkRx
               /\ srcRx' = [srcRx EXCEPT ![s] = Append(@, SinkClosed)]
      <3>1. /\ Append(srcRx[s], SinkClosed) \in Seq(SinkAction)
            /\ Len(Append(srcRx[s], SinkClosed)) <= ChanCap
        BY <2>1, <2>5, AppendFacts DEF TaskTypes, HasRoom, ChanCap
      <3> QED
        BY <2>2, <2>5, <3>1 DEF TaskTypes
    <2> QED
      BY <1>9, <2>3, <2>4, <2>5, SideFacts DEF ReceiverShutdown, s
  <1>10. ASSUME NEW sd \in Sides, ReceiverRecv(sd) \/ ReceiverError(sd) \/ ReceiverShutdownEnd(sd)
         PROVE  UNCHANGED streamVars
    BY <1>10 DEF ReceiverRecv, ReceiverError, ReceiverShutdownEnd
  <1>11. UNCHANGED vars => UNCHANGED streamVars
    BY DEF vars
  <1> QED
    BY <1>1, <1>2, <1>3, <1>4, <1>5, <1>6, <1>7, <1>8, <1>9, <1>10, <1>11,
       WindowFrames, SenderFrames, ServerFrames, ClientFrames, Zenon
       DEF Next, SourceStep, SinkStep, ReceiverStep, Terminated

\* What is known grows: a message that was true stays true.
LEMMA KnownGrows ==
    ASSUME MainTypes, [Next]_vars
    PROVE  /\ Reported \subseteq Reported' /\ (child \in Statuses => child' = child)
           /\ term' \in Nat /\ 0..term \subseteq 0..term'
           /\ \A sd \in Sides : Msgs(sd) \subseteq Msgs(sd)'
  <1>1. child' = child \/ child = Running
    <2>1. ServeStep => child' = child \/ child = Running
      BY DEF ServeStep, ServeWait, ServeKill, ServeSinkClosed, ServeExit, ServeJoin
    <2>2. ChildExit => child = Running
      BY DEF ChildExit
    <2>3. UNCHANGED <<serverVars>> \/ UNCHANGED vars => child' = child
      BY DEF vars, serverVars
    <2>4. \A sd \in Sides : ReceiverStep(sd) => child' = child
      BY ReceiverFrames
    <2> QED
      BY <2>1, <2>2, <2>3, <2>4, TaskFrames, WindowFrames, SenderFrames, ClientFrames
         DEF Next, Terminated
  <1>2. Reported \subseteq Reported' /\ (child \in Statuses => child' = child)
    BY <1>1, StatusFacts DEF Reported
  <1>3. term' = term \/ term' = term + 1
    <2>1. UNCHANGED <<windowVars>> \/ UNCHANGED vars => term' = term
      BY DEF vars, windowVars
    <2>2. \A sd \in Sides : ReceiverStep(sd) => term' = term
      BY ReceiverFrames
    <2> QED
      BY <2>1, <2>2, TaskFrames, WindowFrames, SenderFrames, ServerFrames, ClientFrames
         DEF Next, Terminated
  <1>4. term' \in Nat /\ 0..term \subseteq 0..term'
    BY <1>3 DEF MainTypes
  <1>5. \A sd \in Sides : Msgs(sd) \subseteq Msgs(sd)'
    BY <1>2, <1>4 DEF Msgs, MainMsgs, StreamMsgs, Finished, WindowSizeChange, Exit
  <1> QED
    BY <1>2, <1>4, <1>5

\* A message that fits into the queue.
LEMMA EnqueueWay ==
    ASSUME LinkTypes, NEW sd \in Sides, NEW m \in Msgs(sd), Enqueue(sd, m)
    PROVE  /\ DOMAIN queue' = Sides /\ UNCHANGED <<net, sender, receiver>>
           /\ queue'[sd] = Append(queue[sd], m) /\ queue'[Peer(sd)] = queue[Peer(sd)]
           /\ \A e \in Sides : Way(e, queue'[e], net'[e], sender'[e], receiver'[e])
  <1>1. /\ DOMAIN queue' = Sides /\ UNCHANGED <<net, sender, receiver>>
        /\ queue'[sd] = Append(queue[sd], m) /\ queue'[Peer(sd)] = queue[Peer(sd)]
        /\ \A e \in Sides : e # sd => queue'[e] = queue[e]
    BY SideFacts DEF Enqueue, LinkTypes
  <1>2. Append(queue[sd], m) \in Seq(Msgs(sd)) /\ Len(Append(queue[sd], m)) <= QueueCap
    <2>1. queue[sd] \in Seq(Msgs(sd)) /\ Len(queue[sd]) < QueueCap /\ QueueCap \in Nat
      BY SessionAssumption DEF LinkTypes, Way, Enqueue
    <2> QED
      BY <2>1, AppendFacts
  <1>3. ASSUME NEW e \in Sides PROVE Way(e, queue'[e], net'[e], sender'[e], receiver'[e])
    BY <1>1, <1>2 DEF LinkTypes, Way
  <1> QED
    BY <1>1, <1>3

\* The sender tasks keep the types of the messages on their way.
LEMMA SenderWay ==
    ASSUME LinkTypes, (\E sd \in Sides : SenderStep(sd)) \/ SenderNotified
    PROVE  /\ DOMAIN queue' = Sides /\ DOMAIN net' = Sides /\ DOMAIN sender' = Sides
           /\ \A e \in Sides : Way(e, queue'[e], net'[e], sender'[e], receiver[e])
  <1>1. ASSUME NEW sd \in Sides
        PROVE  /\ queue[sd] \in Seq(Msgs(sd)) /\ Len(queue[sd]) <= QueueCap
               /\ net[sd] \in Seq(Msgs(sd)) /\ Len(net[sd]) <= NetCap
               /\ sender[sd] \in SenderState(sd)
               /\ sender[sd].msg \in Seq(Msgs(sd))
    BY DEF LinkTypes, Way, SenderState
  <1>2. ASSUME NEW sd \in Sides, NEW m \in Msgs(sd)
        PROVE  <<m>> \in Seq(Msgs(sd)) /\ Len(<<m>>) = 1
    OBVIOUS
  <1>3. \A sd \in Sides : Finished \in Msgs(sd) /\ <<>> \in Seq(Msgs(sd))
    BY DEF Msgs, MainMsgs
  <1>4. ASSUME NEW sd \in Sides
        PROVE  /\ FinishWith(sender[sd]) \in SenderState(sd)
               /\ sender[sd].pc = "recv" \/ sender[sd].pc = "notified" =>
                    Len(FinishWith(sender[sd]).msg) =
                        IF FinishWith(sender[sd]).pc = "write" THEN 1 ELSE 0
               /\ Written(sender[sd]) \in SenderState(sd)
               /\ Len(Written(sender[sd]).msg) = 0 /\ Written(sender[sd]).pc # "write"
    <2>1. sender[sd] = [pc |-> sender[sd].pc, msg |-> sender[sd].msg, failed |-> sender[sd].failed]
      BY <1>1 DEF SenderState
    <2>2. /\ Written(sender[sd]).msg = <<>> /\ Written(sender[sd]).failed = sender[sd].failed
          /\ Written(sender[sd]).pc \in {"done", "recv"}
          /\ Written(sender[sd]) = [pc |-> Written(sender[sd]).pc, msg |-> <<>>,
                                    failed |-> sender[sd].failed]
      <3>1. PICK p \in {"done", "recv"} :
              Written(sender[sd]) = [sender[sd] EXCEPT !.pc = p, !.msg = <<>>]
        BY Zenon DEF Written
      <3> HIDE DEF Written
      <3>2. Written(sender[sd]) = [pc |-> p, msg |-> <<>>, failed |-> sender[sd].failed]
        BY <2>1, <3>1
      <3> QED
        BY <3>2
    <2>3. Len(<<>>) = 0 /\ sender[sd].failed \in BOOLEAN
      BY <1>1 DEF SenderState
    <2>4. Written(sender[sd]) \in SenderState(sd)
      BY <1>3, <2>2, <2>3 DEF SenderState
    <2>5. CASE sender[sd].failed
      BY <1>1, <2>2, <2>3, <2>4, <2>5 DEF FinishWith, SenderState, LinkTypes, Way
    <2>6. CASE ~sender[sd].failed
      <3>1. FinishWith(sender[sd]) = [pc |-> "write", msg |-> <<Finished>>, failed |-> sender[sd].failed]
        BY <2>1, <2>6 DEF FinishWith
      <3> QED
        BY <1>2, <1>3, <2>2, <2>3, <2>4, <3>1 DEF SenderState
    <2> QED
      BY <2>5, <2>6
  <1>5. ASSUME NEW sd \in Sides, SenderTake(sd)
        PROVE  /\ DOMAIN queue' = Sides /\ DOMAIN net' = Sides /\ DOMAIN sender' = Sides
               /\ \A e \in Sides : Way(e, queue'[e], net'[e], sender'[e], receiver[e])
    <2>1. /\ Head(queue[sd]) \in Msgs(sd) /\ Tail(queue[sd]) \in Seq(Msgs(sd))
          /\ Len(Tail(queue[sd])) <= QueueCap
      <3>1. /\ Head(queue[sd]) \in Msgs(sd) /\ Tail(queue[sd]) \in Seq(Msgs(sd))
            /\ Len(Tail(queue[sd])) = Len(queue[sd]) - 1 /\ Len(queue[sd]) \in Nat
        BY <1>1, <1>5, TailFacts DEF SenderTake
      <3> QED
        BY <1>1, <3>1, SessionAssumption
    <2>2. /\ queue'[sd] = Tail(queue[sd]) /\ UNCHANGED net
          /\ DOMAIN queue' = Sides /\ DOMAIN sender' = Sides
          /\ \A e \in Sides : e # sd => queue'[e] = queue[e] /\ sender'[e] = sender[e]
      BY <1>5 DEF SenderTake, LinkTypes
    <2>3. sender'[sd] \in SenderState(sd)
          /\ Len(sender'[sd].msg) = IF sender'[sd].pc = "write" THEN 1 ELSE 0
      <3>1. CASE sender[sd].failed
        BY <1>5, <3>1 DEF SenderTake, LinkTypes, Way
      <3>2. CASE ~sender[sd].failed
        <4>1. sender'[sd] = [pc |-> "write", msg |-> <<Head(queue[sd])>>, failed |-> sender[sd].failed]
          BY <1>1, <1>5, <3>2 DEF SenderTake, LinkTypes, SenderState
        <4> QED
          BY <1>1, <1>2, <2>1, <4>1 DEF SenderState
      <3> QED
        BY <3>1, <3>2
    <2>4. ASSUME NEW e \in Sides PROVE Way(e, queue'[e], net'[e], sender'[e], receiver[e])
      BY <2>1, <2>2, <2>3 DEF LinkTypes, Way
    <2> QED
      BY <2>2, <2>4 DEF LinkTypes
  <1>6. ASSUME NEW sd \in Sides, SenderWrite(sd)
        PROVE  /\ DOMAIN queue' = Sides /\ DOMAIN net' = Sides /\ DOMAIN sender' = Sides
               /\ \A e \in Sides : Way(e, queue'[e], net'[e], sender'[e], receiver[e])
    <2>1. /\ sender[sd].pc = "write" /\ UNCHANGED queue
          /\ DOMAIN net' = Sides /\ DOMAIN sender' = Sides
          /\ \A e \in Sides : e # sd => net'[e] = net[e] /\ sender'[e] = sender[e]
          /\ \/ net'[sd] = net[sd]
             \/ Len(net[sd]) < NetCap /\ net'[sd] = Append(net[sd], sender[sd].msg[1])
          /\ \/ sender'[sd] = Written(sender[sd])
             \/ sender'[sd] = [Written(sender[sd]) EXCEPT !.failed = TRUE]
      BY <1>6 DEF SenderWrite, LinkTypes
    <2>2. net'[sd] \in Seq(Msgs(sd)) /\ Len(net'[sd]) <= NetCap
      <3>1. sender[sd].msg[1] \in Msgs(sd)
        BY <2>1, InHand
      <3>2. CASE Len(net[sd]) < NetCap /\ net'[sd] = Append(net[sd], sender[sd].msg[1])
        BY <1>1, <3>1, <3>2, AppendFacts, SessionAssumption
      <3> QED
        BY <1>1, <2>1, <3>2
    <2>3. /\ sender'[sd] \in SenderState(sd)
          /\ Len(sender'[sd].msg) = IF sender'[sd].pc = "write" THEN 1 ELSE 0
      BY <1>4, <2>1 DEF SenderState
    <2>4. ASSUME NEW e \in Sides PROVE Way(e, queue'[e], net'[e], sender'[e], receiver[e])
      BY <2>1, <2>2, <2>3 DEF LinkTypes, Way
    <2> QED
      BY <2>1, <2>4 DEF LinkTypes
  <1>7. ASSUME NEW sd \in Sides, SenderDrained(sd) \/ (sd = "server" /\ SenderNotified)
        PROVE  /\ DOMAIN queue' = Sides /\ DOMAIN net' = Sides /\ DOMAIN sender' = Sides
               /\ \A e \in Sides : Way(e, queue'[e], net'[e], sender'[e], receiver[e])
    <2>1. /\ sender[sd].pc \in {"recv", "notified"} /\ UNCHANGED <<queue, net>>
          /\ DOMAIN sender' = Sides
          /\ \A e \in Sides : e # sd => sender'[e] = sender[e]
          /\ \/ sender'[sd] = FinishWith(sender[sd])
             \/ sender'[sd] = [sender[sd] EXCEPT !.pc = "notified"]
      BY <1>7 DEF SenderDrained, SenderNotified, LinkTypes
    <2>2. /\ sender'[sd] \in SenderState(sd)
          /\ Len(sender'[sd].msg) = IF sender'[sd].pc = "write" THEN 1 ELSE 0
      <3>1. CASE sender'[sd] = FinishWith(sender[sd])
        BY <1>4, <2>1, <3>1
      <3>2. CASE sender'[sd] = [sender[sd] EXCEPT !.pc = "notified"]
        BY <1>1, <2>1, <3>2 DEF SenderState, LinkTypes, Way
      <3> QED
        BY <2>1, <3>1, <3>2
    <2>3. ASSUME NEW e \in Sides PROVE Way(e, queue'[e], net'[e], sender'[e], receiver[e])
      BY <2>1, <2>2 DEF LinkTypes, Way
    <2> QED
      BY <2>1, <2>3 DEF LinkTypes
  <1>8. "server" \in Sides
    BY DEF Sides
  <1> QED
    BY <1>5, <1>6, <1>7, <1>8 DEF SenderStep

\* There are finitely many streams.
LEMMA StreamsFinite == IsFiniteSet(Streams)
  <1>1. Streams = (({} \cup {"Stdin"}) \cup {"Stdout"}) \cup {"Stderr"}
    BY DEF Streams
  <1>2. IsFiniteSet({} \cup {"Stdin"})
    BY FS_EmptySet, FS_AddElement
  <1>3. IsFiniteSet(({} \cup {"Stdin"}) \cup {"Stdout"})
    BY <1>2, FS_AddElement
  <1> QED
    BY <1>1, <1>3, FS_AddElement

\* The streams of a set, in some order.
LEMMA OrderedStreams ==
    ASSUME NEW T \in SUBSET Streams, NEW f \in SetToSeqs(T)
    PROVE  /\ f \in Seq(Streams)
           /\ f \in Injection(1..Len(f), T) /\ f \in Surjection(1..Len(f), T)
  <1> DEFINE n == Cardinality(T)
  <1>1. IsFiniteSet(T) /\ n \in Nat
    BY StreamsFinite, FS_Subset, FS_CardinalityType
  <1>2. f \in [1..n -> T] /\ \A i, j \in 1..n : i # j => f[i] # f[j]
    BY DEF SetToSeqs
  <1>3. f \in Injection(1..n, T)
    BY <1>2 DEF Injection, IsInjective
  <1>4. Cardinality(1..n) = n
    BY <1>1, FS_Interval
  <1>5. f \in Surjection(1..n, T)
    BY <1>1, <1>3, <1>4, FS_Injection
  <1> HIDE DEF n
  <1>6. f \in Seq(Streams) /\ Len(f) = n
    <2>1. f \in [1..n -> Streams]
      BY <1>2
    <2> QED
      BY <1>1, <2>1
  <1> QED
    BY <1>3, <1>5, <1>6

\* The tasks that a shutdown has to close, in some order.
LEMMA TodoFacts ==
    ASSUME NEW sd \in Sides, NEW p \in SetToSeqs(Sinks(sd)), NEW q \in SetToSeqs(Sources(sd))
    PROVE  p \o q \in Seq(Streams)
  <1>1. p \in Seq(Streams) /\ q \in Seq(Streams)
    BY SideFacts, OrderedStreams
  <1> QED
    BY <1>1

\* The receiver tasks keep the types of the messages on their way.
LEMMA ReceiverWay ==
    ASSUME LinkTypes, NEW sd \in Sides, ReceiverStep(sd)
    PROVE  /\ DOMAIN net' = Sides /\ DOMAIN receiver' = Sides
           /\ \A e \in Sides : Way(e, queue[e], net'[e], sender[e], receiver'[e])
  <1> USE SideFacts
  <1>1. /\ receiver[sd] \in ReceiverState(sd)
        /\ Len(receiver[sd].msg) = IF receiver[sd].pc = "route" THEN 1 ELSE 0
        /\ net[Peer(sd)] \in Seq(Msgs(Peer(sd))) /\ Len(net[Peer(sd)]) <= NetCap
    BY DEF LinkTypes, Way
  <1>2. /\ receiver[sd] = [pc |-> receiver[sd].pc, msg |-> receiver[sd].msg,
                           failed |-> receiver[sd].failed, todo |-> receiver[sd].todo]
        /\ receiver[sd].failed \in BOOLEAN /\ receiver[sd].todo \in Seq(Streams)
        /\ receiver[sd].msg \in Seq(StreamMsgs(Peer(sd)))
    BY <1>1 DEF ReceiverState
  <1>3. ASSUME DOMAIN net' = Sides, DOMAIN receiver' = Sides,
               \A e \in Sides : e # Peer(sd) => net'[e] = net[e],
               \A e \in Sides : e # sd => receiver'[e] = receiver[e],
               net'[Peer(sd)] \in Seq(Msgs(Peer(sd))), Len(net'[Peer(sd)]) <= NetCap,
               receiver'[sd] \in ReceiverState(sd),
               Len(receiver'[sd].msg) = IF receiver'[sd].pc = "route" THEN 1 ELSE 0
        PROVE  \A e \in Sides : Way(e, queue[e], net'[e], sender[e], receiver'[e])
    <2> SUFFICES ASSUME NEW e \in Sides
                 PROVE  Way(e, queue[e], net'[e], sender[e], receiver'[e])
      OBVIOUS
    <2>1. CASE e = sd
      BY <1>3, <2>1 DEF LinkTypes, Way
    <2>2. CASE e = Peer(sd)
      BY <1>3, <2>2 DEF LinkTypes, Way
    <2> QED
      BY <2>1, <2>2
  <1>4. Len(<<>>) = 0 /\ <<>> \in Seq(StreamMsgs(Peer(sd))) /\ <<>> \in Seq(Msgs(Peer(sd)))
    OBVIOUS
  <1>5. CASE ReceiverRecv(sd)
    <2> DEFINE m == Head(net[Peer(sd)])
    <2>1. /\ m \in Msgs(Peer(sd)) /\ Tail(net[Peer(sd)]) \in Seq(Msgs(Peer(sd)))
          /\ Len(Tail(net[Peer(sd)])) <= NetCap
      <3>1. /\ m \in Msgs(Peer(sd)) /\ Tail(net[Peer(sd)]) \in Seq(Msgs(Peer(sd)))
            /\ Len(Tail(net[Peer(sd)])) = Len(net[Peer(sd)]) - 1
            /\ Len(net[Peer(sd)]) \in Nat
        BY <1>1, <1>5, TailFacts DEF ReceiverRecv
      <3> QED
        BY <1>1, <3>1, SessionAssumption
    <2>2. /\ receiver[sd].pc = "recv"
          /\ net' = [net EXCEPT ![Peer(sd)] = Tail(@)]
          /\ \/ /\ m.id \in Streams
                /\ receiver' = [receiver EXCEPT ![sd].pc = "route", ![sd].msg = <<m>>]
             \/ receiver' = receiver
             \/ receiver' = [receiver EXCEPT ![sd].pc = "failed"]
             \/ receiver' = [receiver EXCEPT ![sd].pc = "done"]
      BY <1>5 DEF ReceiverRecv
    <2> HIDE DEF m
    <2>3. /\ DOMAIN net' = Sides /\ net'[Peer(sd)] = Tail(net[Peer(sd)])
          /\ \A e \in Sides : e # Peer(sd) => net'[e] = net[e]
      BY <2>2 DEF LinkTypes
    <2>4. DOMAIN receiver' = Sides /\ \A e \in Sides : e # sd => receiver'[e] = receiver[e]
      BY <2>2 DEF LinkTypes
    <2>5. /\ receiver'[sd] \in ReceiverState(sd)
          /\ Len(receiver'[sd].msg) = IF receiver'[sd].pc = "route" THEN 1 ELSE 0
      <3>1. CASE /\ m.id \in Streams
                 /\ receiver' = [receiver EXCEPT ![sd].pc = "route", ![sd].msg = <<m>>]
        <4>1. m \in StreamMsgs(Peer(sd))
          BY <2>1, <3>1, MainMsgFacts
        <4>2. receiver'[sd] = [pc |-> "route", msg |-> <<m>>,
                               failed |-> receiver[sd].failed, todo |-> receiver[sd].todo]
          BY <1>2, <3>1 DEF LinkTypes
        <4>3. <<m>> \in Seq(StreamMsgs(Peer(sd))) /\ Len(<<m>>) = 1
          BY <4>1
        <4> QED
          BY <1>2, <4>2, <4>3 DEF ReceiverState
      <3>2. CASE receiver' = receiver
        BY <1>1, <3>2
      <3>3. ASSUME NEW p \in {"failed", "done"}, receiver' = [receiver EXCEPT ![sd].pc = p]
            PROVE  /\ receiver'[sd] \in ReceiverState(sd)
                   /\ Len(receiver'[sd].msg) = IF receiver'[sd].pc = "route" THEN 1 ELSE 0
        <4>1. receiver'[sd] = [pc |-> p, msg |-> receiver[sd].msg,
                               failed |-> receiver[sd].failed, todo |-> receiver[sd].todo]
          BY <1>2, <3>3 DEF LinkTypes
        <4> QED
          BY <1>1, <1>2, <2>2, <4>1 DEF ReceiverState
      <3> QED
        BY <2>2, <3>1, <3>2, <3>3
    <2> QED
      BY <1>3, <2>1, <2>3, <2>4, <2>5
  <1>6. CASE ReceiverRoute(sd)
    <2> DEFINE Routed(p) ==
                 receiver' = [receiver EXCEPT ![sd] = [receiver[sd] EXCEPT !.pc = p, !.msg = <<>>]]
    <2>1. net' = net /\ \E p \in {"recv", "failed"} : Routed(p)
      <3>1. net' = net
        BY <1>6 DEF ReceiverRoute
      <3>2. \/ receiver' = [receiver EXCEPT ![sd].pc = "recv", ![sd].msg = <<>>]
            \/ receiver' = [[receiver EXCEPT ![sd].pc = "recv", ![sd].msg = <<>>]
                               EXCEPT ![sd].pc = "failed"]
        BY <1>6 DEF ReceiverRoute
      <3>3. DOMAIN receiver = Sides
        BY DEF LinkTypes
      <3>4. Routed("recv") \/ Routed("failed")
        <4>1. CASE receiver' = [receiver EXCEPT ![sd].pc = "recv", ![sd].msg = <<>>]
          BY <3>3, <4>1
        <4>2. CASE receiver' = [[receiver EXCEPT ![sd].pc = "recv", ![sd].msg = <<>>]
                                  EXCEPT ![sd].pc = "failed"]
          BY <1>2, <3>3, <4>2
        <4> QED
          BY <3>2, <4>1, <4>2
      <3> QED
        BY <3>1, <3>4
    <2>2. PICK p \in {"recv", "failed"} :
               receiver' = [receiver EXCEPT ![sd] = [receiver[sd] EXCEPT !.pc = p, !.msg = <<>>]]
      BY <2>1
    <2>3. /\ DOMAIN receiver' = Sides /\ \A e \in Sides : e # sd => receiver'[e] = receiver[e]
          /\ receiver'[sd] = [pc |-> p, msg |-> <<>>,
                              failed |-> receiver[sd].failed, todo |-> receiver[sd].todo]
      BY <1>2, <2>2 DEF LinkTypes
    <2>4. /\ receiver'[sd] \in ReceiverState(sd)
          /\ Len(receiver'[sd].msg) = IF receiver'[sd].pc = "route" THEN 1 ELSE 0
      BY <1>2, <1>4, <2>3 DEF ReceiverState
    <2> QED
      BY <1>1, <1>3, <2>1, <2>3, <2>4 DEF LinkTypes
  <1>7. CASE ReceiverError(sd)
    <2>1. PICK p \in SetToSeqs(Sinks(sd)), q \in SetToSeqs(Sources(sd)) :
            receiver' = [receiver EXCEPT ![sd].pc = "shutdown", ![sd].failed = TRUE,
                                         ![sd].todo = p \o q]
      BY <1>7 DEF ReceiverError
    <2>2. p \o q \in Seq(Streams)
      BY TodoFacts
    <2>3. /\ DOMAIN receiver' = Sides /\ \A e \in Sides : e # sd => receiver'[e] = receiver[e]
          /\ receiver'[sd] = [pc |-> "shutdown", msg |-> receiver[sd].msg,
                              failed |-> TRUE, todo |-> p \o q]
      BY <1>2, <2>1 DEF LinkTypes
    <2>4. /\ DOMAIN net' = Sides /\ net'[Peer(sd)] = <<>>
          /\ \A e \in Sides : e # Peer(sd) => net'[e] = net[e]
      BY <1>7 DEF LinkTypes, ReceiverError
    <2>5. receiver[sd].pc = "recv"
      BY <1>7 DEF ReceiverError
    <2>6. /\ receiver'[sd] \in ReceiverState(sd)
          /\ Len(receiver'[sd].msg) = IF receiver'[sd].pc = "route" THEN 1 ELSE 0
      BY <1>1, <1>2, <2>2, <2>3, <2>5 DEF ReceiverState
    <2> QED
      BY <1>3, <1>4, <2>3, <2>4, <2>6, SessionAssumption
  <1>8. CASE ReceiverShutdown(sd)
    <2>1. /\ net' = net /\ receiver[sd].pc = "shutdown" /\ receiver[sd].todo # <<>>
          /\ DOMAIN receiver' = Sides /\ \A e \in Sides : e # sd => receiver'[e] = receiver[e]
          /\ receiver'[sd] = [pc |-> receiver[sd].pc, msg |-> receiver[sd].msg,
                              failed |-> receiver[sd].failed, todo |-> Tail(receiver[sd].todo)]
      BY <1>2, <1>8 DEF ReceiverShutdown, LinkTypes
    <2>2. Tail(receiver[sd].todo) \in Seq(Streams)
      BY <1>2, <2>1, TailFacts
    <2>3. /\ receiver'[sd] \in ReceiverState(sd)
          /\ Len(receiver'[sd].msg) = IF receiver'[sd].pc = "route" THEN 1 ELSE 0
      BY <1>1, <1>2, <2>1, <2>2 DEF ReceiverState
    <2> QED
      BY <1>1, <1>3, <2>1, <2>3 DEF LinkTypes
  <1>9. CASE ReceiverShutdownEnd(sd)
    <2>1. /\ net' = net /\ receiver[sd].pc = "shutdown"
          /\ DOMAIN receiver' = Sides /\ \A e \in Sides : e # sd => receiver'[e] = receiver[e]
          /\ receiver'[sd] = [pc |-> "done", msg |-> receiver[sd].msg,
                              failed |-> receiver[sd].failed, todo |-> receiver[sd].todo]
      BY <1>2, <1>9 DEF ReceiverShutdownEnd, LinkTypes
    <2>2. /\ receiver'[sd] \in ReceiverState(sd)
          /\ Len(receiver'[sd].msg) = IF receiver'[sd].pc = "route" THEN 1 ELSE 0
      BY <1>1, <1>2, <2>1 DEF ReceiverState
    <2> QED
      BY <1>1, <1>3, <2>1, <2>2 DEF LinkTypes
  <1> QED
    BY <1>5, <1>6, <1>7, <1>8, <1>9 DEF ReceiverStep

\* A loss of the connection keeps a prefix of what is under way.
LEMMA DisconnectWay ==
    ASSUME LinkTypes, NEW how, Disconnect(how)
    PROVE  /\ DOMAIN net' = Sides
           /\ \A e \in Sides :
                /\ Way(e, queue[e], net'[e], sender[e], receiver[e])
                /\ \E k \in 0..Len(net[e]) : net'[e] = SubSeq(net[e], 1, k)
  <1>1. PICK i \in 0..Len(net["client"]), j \in 0..Len(net["server"]) :
          net' = [sd \in Sides |-> SubSeq(net[sd], 1, IF sd = "client" THEN i ELSE j)]
    BY DEF Disconnect
  <1>2. ASSUME NEW e \in Sides
        PROVE  \E k \in 0..Len(net[e]) : net'[e] = SubSeq(net[e], 1, k)
    BY <1>1 DEF Sides
  <1>3. ASSUME NEW e \in Sides, NEW k \in 0..Len(net[e]), net'[e] = SubSeq(net[e], 1, k)
        PROVE  Way(e, queue[e], net'[e], sender[e], receiver[e])
    <2>1. net[e] \in Seq(Msgs(e)) /\ Len(net[e]) <= NetCap /\ Len(net[e]) \in Nat
      BY DEF LinkTypes, Way
    <2>2. net'[e] \in Seq(Msgs(e)) /\ Len(net'[e]) <= NetCap
      <3>1. net'[e] \in Seq(Msgs(e)) /\ Len(net'[e]) = k
        BY <1>3, <2>1, PrefixFacts
      <3> QED
        BY <2>1, <3>1, SessionAssumption
    <2> QED
      BY <2>2 DEF LinkTypes, Way
  <1> QED
    BY <1>1, <1>2, <1>3

\* Every step keeps the types of the messages on their way.
LEMMA LinkTypesNext ==
    TaskTypes /\ LinkTypes /\ MainTypes /\ StatusKnown /\ [Next]_vars => LinkTypes'
  <1> SUFFICES ASSUME TaskTypes, LinkTypes, MainTypes, StatusKnown, [Next]_vars
               PROVE  LinkTypes'
    OBVIOUS
  <1> DEFINE Domains == /\ DOMAIN queue' = Sides /\ DOMAIN net' = Sides
                        /\ DOMAIN sender' = Sides /\ DOMAIN receiver' = Sides
             Ways == \A e \in Sides : Way(e, queue'[e], net'[e], sender'[e], receiver'[e])
  <1>1. ASSUME Domains, Ways PROVE LinkTypes'
    <2>1. ASSUME NEW e \in Sides, NEW q, NEW c, NEW t, NEW r, Way(e, q, c, t, r)
          PROVE  Way(e, q, c, t, r)'
      <3>1. Msgs(e) \subseteq Msgs(e)'
        BY KnownGrows
      <3>2. \A u \in Seq(Msgs(e)) : u \in Seq(Msgs(e)')
        BY <3>1, SeqMonotonic
      <3>3. t \in SenderState(e)'
        BY <2>1, <3>2 DEF Way, SenderState
      <3>4. r \in ReceiverState(e)'
        BY <2>1 DEF Way, ReceiverState, StreamMsgs
      <3> QED
        BY <2>1, <3>2, <3>3, <3>4 DEF Way
    <2> QED
      BY <1>1, <2>1 DEF LinkTypes
  <1>a. SUFFICES Domains /\ Ways
    BY <1>1
  <1>2. UNCHANGED <<queue, net, sender, receiver>> => Domains /\ Ways
    BY DEF LinkTypes
  <1>3. ASSUME NEW sd \in Sides, NEW m \in Msgs(sd), Enqueue(sd, m) PROVE Domains /\ Ways
    BY <1>3, EnqueueWay DEF LinkTypes
  <1>4. ASSUME NEW s \in Streams, SourceIn(s) \/ SourceStep(s) \/ SinkStep(s) \/ SinkWrite(s)
        PROVE  Domains /\ Ways
    <2>1. /\ StreamMsg(s, SourceMsg(src[s])) \in Msgs(SourceSide(s))
          /\ StreamMsg(s, SinkMsg(snk[s])) \in Msgs(SinkSide(s))
          /\ SourceSide(s) \in Sides /\ SinkSide(s) \in Sides
      <3>1. src[s] \in SourceState /\ snk[s] \in SinkState
        BY DEF TaskTypes
      <3> QED
        BY <3>1, TaskMsgs, SideFacts DEF Msgs
    <2> QED
      BY <1>2, <1>3, <1>4, <2>1, TaskFrames
  <1>5. CASE Resize \/ WindowStep
    <2>1. WindowSizeChange(winch.n) \in Msgs("client") /\ "client" \in Sides
      BY DEF Msgs, MainMsgs, MainTypes, Sides
    <2>2. UNCHANGED <<net, sender, receiver>>
      BY <1>5, WindowFrames
    <2>3. UNCHANGED queue \/ Enqueue("client", WindowSizeChange(winch.n))
      BY <1>5, WindowFrames
    <2>4. CASE UNCHANGED queue
      BY <1>2, <2>2, <2>4
    <2> QED
      BY <1>3, <2>1, <2>3, <2>4
  <1>6. CASE (\E sd \in Sides : SenderStep(sd)) \/ SenderNotified
    <2>1. receiver' = receiver /\ DOMAIN receiver = Sides
      BY <1>6, SenderFrames DEF LinkTypes
    <2> QED
      BY <1>6, <2>1, SenderWay
  <1>7. ASSUME NEW sd \in Sides, ReceiverStep(sd) PROVE Domains /\ Ways
    BY <1>7, ReceiverWay, ReceiverFrames DEF LinkTypes
  <1>8. CASE ChildExit \/ ServeStep
    <2>1. StreamMsg("Stdin", SinkClosed) \in Msgs("server") /\ "server" \in Sides
      BY TaskMsgs DEF Msgs, Streams, SinkSide, SourceSide, Peer, SinkAction, Sides
    <2>2. serve.pc = "exit" => Exit(serve.status) \in Msgs("server")
      BY DEF Msgs, MainMsgs, StatusKnown
    <2>3. UNCHANGED <<net, sender, receiver>>
      BY <1>8, ServerFrames
    <2>4. CASE UNCHANGED queue
      BY <1>2, <2>3, <2>4
    <2> QED
      BY <1>3, <1>8, <2>1, <2>2, <2>4, ServerFrames
  <1>9. CASE ClientStep \/ ConnectionLost
    <2>1. queue' = queue /\ sender' = sender /\ receiver' = receiver
      BY <1>9, ClientFrames
    <2>2. CASE net' = net
      BY <1>2, <2>1, <2>2
    <2>3. CASE Disconnect(conn')
      <3>1. DOMAIN queue = Sides /\ DOMAIN sender = Sides /\ DOMAIN receiver = Sides
        BY DEF LinkTypes
      <3> QED
        BY <2>1, <2>3, <3>1, DisconnectWay
    <2> QED
      BY <1>9, <2>2, <2>3, ClientFrames
  <1>10. UNCHANGED vars => UNCHANGED <<queue, net, sender, receiver>>
    BY DEF vars, linkVars
  <1> HIDE DEF Domains, Ways
  <1> QED
    BY <1>2, <1>4, <1>5, <1>6, <1>7, <1>8, <1>9, <1>10 DEF Next, Terminated

\* Every step keeps the other types: what arrives at main() is true.
LEMMA MainTypesNext == LinkTypes /\ MainTypes /\ StatusKnown /\ [Next]_vars => MainTypes'
  <1> SUFFICES ASSUME LinkTypes, MainTypes, StatusKnown, [Next]_vars PROVE MainTypes'
    OBVIOUS
  <1>1. conn' \in {"up", "down", "closed"} /\ killed' \subseteq Sides
    <2>1. ASSUME UNCHANGED <<conn, killed>> PROVE conn' \in {"up", "down", "closed"} /\ killed' \subseteq Sides
      BY <2>1 DEF MainTypes
    <2>2. ASSUME ClientStep \/ ConnectionLost
          PROVE  conn' \in {"up", "down", "closed"} /\ killed' \subseteq Sides
      BY <2>2 DEF MainTypes, ClientStep, ClientStatus, ClientStdio, ClientJoin, ClientExits,
                  ConnectionLost, Disconnect
    <2>3. UNCHANGED vars => UNCHANGED <<conn, killed>>
      BY DEF vars, linkVars
    <2>4. \A sd \in Sides : ReceiverStep(sd) => UNCHANGED <<conn, killed>>
      BY ReceiverFrames
    <2> QED
      BY <2>1, <2>2, <2>3, <2>4, TaskFrames, WindowFrames, SenderFrames, ServerFrames
         DEF Next, Terminated
  <1>2. error' \in [Sides -> BOOLEAN]
    <2>1. UNCHANGED error => error' \in [Sides -> BOOLEAN]
      BY DEF MainTypes
    <2>2. ASSUME NEW sd \in Sides, SenderStep(sd) PROVE error' \in [Sides -> BOOLEAN]
      BY <2>2 DEF MainTypes, SenderStep, SenderTake, SenderWrite, SenderDrained, ReceiverEnded
    <2>3. ASSUME NEW sd \in Sides, ReceiverStep(sd) PROVE error' \in [Sides -> BOOLEAN]
      BY <2>3 DEF MainTypes, ReceiverStep, ReceiverRecv, ReceiverRoute, ReceiverError,
                  ReceiverShutdown, ReceiverShutdownEnd
    <2>4. SenderNotified \/ UNCHANGED vars => UNCHANGED error
      BY DEF SenderNotified, vars, linkVars
    <2> QED
      BY <2>1, <2>2, <2>3, <2>4, TaskFrames, WindowFrames, ServerFrames, ClientFrames
         DEF Next, Terminated
  <1>3. /\ child' \in Statuses \cup {Running, SigKill}
        /\ serve' = [pc |-> serve'.pc, status |-> serve'.status]
        /\ serve'.pc \in {"wait", "sinkclosed", "exit", "join", "ok", "err"}
    <2> DEFINE Goal == /\ child' \in Statuses \cup {Running, SigKill}
                       /\ serve' = [pc |-> serve'.pc, status |-> serve'.status]
                       /\ serve'.pc \in {"wait", "sinkclosed", "exit", "join", "ok", "err"}
    <2>1. UNCHANGED <<child, serve>> => Goal
      BY DEF MainTypes
    <2>2. ChildExit => Goal
      BY DEF MainTypes, ChildExit
    <2>3. ServeWait => Goal
      BY DEF MainTypes, ServeWait
    <2>4. ASSUME ServeStep, ~ServeWait PROVE Goal
      <3>1. PICK p \in {"exit", "join", "ok", "err"} : serve' = [serve EXCEPT !.pc = p]
        BY <2>4 DEF ServeStep, ServeKill, ServeSinkClosed, ServeExit, ServeJoin
      <3>2. serve' = [pc |-> p, status |-> serve.status]
        BY <3>1 DEF MainTypes
      <3>3. child' \in {child, SigKill}
        BY <2>4 DEF ServeStep, ServeKill, ServeSinkClosed, ServeExit, ServeJoin
      <3> QED
        BY <3>2, <3>3 DEF MainTypes
    <2>5. UNCHANGED vars \/ UNCHANGED serverVars => UNCHANGED <<child, serve>>
      BY DEF vars, serverVars
    <2>6. \A sd \in Sides : ReceiverStep(sd) => UNCHANGED <<child, serve>>
      BY ReceiverFrames
    <2> HIDE DEF Goal
    <2>7. Goal
      BY <2>1, <2>2, <2>3, <2>4, <2>5, <2>6, TaskFrames, WindowFrames, SenderFrames, ClientFrames
         DEF Next, Terminated
    <2> QED
      BY <2>7 DEF Goal
  <1>4. client' \in {"status", "stdio", "join", "ok", "err"}
    <2>1. UNCHANGED client => client' \in {"status", "stdio", "join", "ok", "err"}
      BY DEF MainTypes
    <2>2. ClientStep => client' \in {"status", "stdio", "join", "ok", "err"}
      BY DEF MainTypes, ClientStep, ClientStatus, ClientStdio, ClientJoin, ClientExits
    <2>3. UNCHANGED vars \/ UNCHANGED clientVars \/ ConnectionLost => UNCHANGED client
      BY DEF vars, clientVars, ConnectionLost
    <2>4. \A sd \in Sides : ReceiverStep(sd) => UNCHANGED client
      BY ReceiverFrames
    <2> QED
      BY <2>1, <2>2, <2>3, <2>4, TaskFrames, WindowFrames, SenderFrames, ServerFrames
         DEF Next, Terminated
  <1>5. exit' \in Reported' \cup {NoStatus, <<"Lost", 0>>}
    <2>1. UNCHANGED exit => exit' \in Reported' \cup {NoStatus, <<"Lost", 0>>}
      BY KnownGrows DEF MainTypes
    <2>2. ASSUME NEW sd \in Sides, ReceiverRecv(sd)
          PROVE  exit' \in Reported' \cup {NoStatus, <<"Lost", 0>>}
      <3>1. Head(net[Peer(sd)]) \in Msgs(Peer(sd))
        BY <2>2, SideFacts, TailFacts DEF LinkTypes, Way, ReceiverRecv
      <3>2. exit' = exit \/ (exit' = Head(net[Peer(sd)]).n /\ Head(net[Peer(sd)]).act = "Exit")
        BY <2>2 DEF ReceiverRecv
      <3> QED
        BY <2>1, <3>1, <3>2, KnownGrows, SideFacts, MainMsgFacts
    <2>3. ASSUME NEW sd \in Sides, ReceiverStep(sd), ~ReceiverRecv(sd)
          PROVE  exit' \in {exit, <<"Lost", 0>>}
      BY <2>3 DEF ReceiverStep, ReceiverRoute, ReceiverError, ReceiverShutdown,
                  ReceiverShutdownEnd, clientVars
    <2>4. UNCHANGED vars \/ UNCHANGED clientVars => UNCHANGED exit
      BY DEF vars, clientVars
    <2> QED
      BY <2>1, <2>2, <2>3, <2>4, TaskFrames, WindowFrames, SenderFrames, ServerFrames, ClientFrames
         DEF Next, Terminated
  <1>6. /\ term' \in Nat /\ pty' \in 0..term'
        /\ winch' = [pc |-> winch'.pc, n |-> winch'.n] /\ winch'.n \in 0..term'
    <2> DEFINE Goal == /\ pty' \in 0..term'
                       /\ winch' = [pc |-> winch'.pc, n |-> winch'.n] /\ winch'.n \in 0..term'
    <2>1. UNCHANGED <<pty, winch>> => Goal
      BY KnownGrows DEF MainTypes
    <2>2. ASSUME Resize \/ WindowStep PROVE Goal
      <3>1. \/ winch' \in {[pc |-> "send", n |-> term], winch}
            \/ \E p \in {"select", "done"} : winch' = [winch EXCEPT !.pc = p]
        BY <2>2 DEF Resize, WindowStep, WindowSignal, WindowSend, WindowEnd
      <3>2. winch' = [pc |-> winch'.pc, n |-> winch'.n] /\ winch'.n \in {winch.n, term}
        BY <3>1 DEF MainTypes
      <3>3. UNCHANGED pty /\ term \in 0..term
        BY <2>2, WindowFrames DEF MainTypes
      <3> QED
        BY <3>2, <3>3, KnownGrows DEF MainTypes
    <2>3. ASSUME NEW sd \in Sides, ReceiverStep(sd) PROVE Goal
      <3>1. UNCHANGED winch
        BY <2>3, ReceiverFrames
      <3>2. CASE ReceiverRecv(sd)
        <4>1. Head(net[Peer(sd)]) \in Msgs(Peer(sd))
          BY <3>2, SideFacts, TailFacts DEF LinkTypes, Way, ReceiverRecv
        <4>2. \/ pty' = pty
              \/ pty' = Head(net[Peer(sd)]).n /\ Head(net[Peer(sd)]).act = "WindowSizeChange"
          BY <3>2 DEF ReceiverRecv
        <4>3. pty' \in 0..term
          BY <4>1, <4>2, SideFacts, MainMsgFacts DEF MainTypes
        <4> QED
          BY <3>1, <4>3, KnownGrows DEF MainTypes
      <3>3. CASE ~ReceiverRecv(sd)
        BY <2>1, <2>3, <3>1, <3>3 DEF ReceiverStep, ReceiverRoute, ReceiverError,
           ReceiverShutdown, ReceiverShutdownEnd, windowVars
      <3> QED
        BY <3>2, <3>3
    <2>4. UNCHANGED vars \/ UNCHANGED windowVars => UNCHANGED <<pty, winch>>
      BY DEF vars, windowVars
    <2> HIDE DEF Goal
    <2>5. Goal
      BY <2>1, <2>2, <2>3, <2>4, TaskFrames, SenderFrames, ServerFrames, ClientFrames
         DEF Next, Terminated
    <2> QED
      BY <2>5, KnownGrows DEF Goal
  <1> QED
    BY <1>1, <1>2, <1>3, <1>4, <1>5, <1>6 DEF MainTypes

-----------------------------------------------------------------------------
(* The exit status.                                                        *)

\* The client's main() is told once: a status, or that there will be none.
LEMMA ExitOnce ==
    ASSUME [Next]_vars, exit # NoStatus
    PROVE  exit' = exit
  <1>1. ASSUME NEW sd \in Sides, ReceiverStep(sd) PROVE exit' = exit
    <2>1. ReceiverRecv(sd) => exit' = exit
      BY DEF ReceiverRecv
    <2>2. ReceiverRoute(sd) => exit' = exit
      BY DEF ReceiverRoute
    <2>3. ReceiverError(sd) \/ ReceiverShutdown(sd) \/ ReceiverShutdownEnd(sd) => exit' = exit
      BY DEF ReceiverError, ReceiverShutdown, ReceiverShutdownEnd, clientVars
    <2> QED
      BY <1>1, <2>1, <2>2, <2>3 DEF ReceiverStep
  <1>2. UNCHANGED vars \/ UNCHANGED clientVars => exit' = exit
    BY DEF vars, clientVars
  <1> QED
    BY <1>1, <1>2, TaskFrames, WindowFrames, SenderFrames, ServerFrames, ClientFrames
       DEF Next, Terminated

\* The status goes from the child to serve(), and what arrives at the client's
\* main() makes its code.
LEMMA StatusNext == MainTypes /\ StatusKnown /\ [Next]_vars => StatusKnown'
  <1> SUFFICES ASSUME MainTypes, StatusKnown, [Next]_vars PROVE StatusKnown'
    OBVIOUS
  <1>1. ASSUME UNCHANGED <<child, serve>>
        PROVE  /\ serve'.pc = "wait" => child' \in Statuses \cup {Running}
               /\ serve'.pc \in {"sinkclosed", "exit"} => serve'.status \in Reported'
    BY <1>1 DEF StatusKnown, Reported
  <1>2. ASSUME ChildExit \/ ServeStep
        PROVE  /\ serve'.pc = "wait" => child' \in Statuses \cup {Running}
               /\ serve'.pc \in {"sinkclosed", "exit"} => serve'.status \in Reported'
    <2>1. CASE ChildExit
      BY <2>1, StatusFacts DEF ChildExit, StatusKnown, Reported
    <2>2. CASE ServeWait
      BY <2>2 DEF ServeWait, StatusKnown, Reported
    <2>3. CASE ServeKill \/ ServeExit \/ ServeJoin
      <3>1. \E p \in {"join", "ok", "err"} : serve' = [serve EXCEPT !.pc = p]
        BY <2>3 DEF ServeKill, ServeExit, ServeJoin
      <3>2. serve'.pc \notin {"wait", "sinkclosed", "exit"}
        BY <3>1 DEF MainTypes
      <3> QED
        BY <3>2
    <2>4. CASE ServeSinkClosed
      <3>1. serve' = [pc |-> "exit", status |-> serve.status] /\ UNCHANGED child
        BY <2>4 DEF ServeSinkClosed, MainTypes
      <3> QED
        BY <2>4, <3>1 DEF ServeSinkClosed, StatusKnown, Reported
    <2> QED
      BY <1>2, <2>1, <2>2, <2>3, <2>4 DEF ServeStep
  <1>3. /\ serve'.pc = "wait" => child' \in Statuses \cup {Running}
        /\ serve'.pc \in {"sinkclosed", "exit"} => serve'.status \in Reported'
    <2>1. UNCHANGED vars \/ UNCHANGED serverVars => UNCHANGED <<child, serve>>
      BY DEF vars, serverVars
    <2>2. \A sd \in Sides : ReceiverStep(sd) => UNCHANGED <<child, serve>>
      BY ReceiverFrames
    <2> QED
      BY <1>1, <1>2, <2>1, <2>2, TaskFrames, WindowFrames, SenderFrames, ClientFrames
         DEF Next, Terminated
  <1>4. ASSUME UNCHANGED <<client, code>>
        PROVE  /\ client' \in {"stdio", "join", "ok"} => exit' \in Reported'
               /\ client' = "ok" => code' = ExitCode(exit')
    <2>1. client \in {"stdio", "join", "ok"} => exit' = exit
      BY ExitOnce, StatusFacts DEF StatusKnown, Reported
    <2> QED
      BY <1>4, <2>1, KnownGrows DEF StatusKnown
  <1>5. ASSUME ClientStep
        PROVE  /\ client' \in {"stdio", "join", "ok"} => exit' \in Reported'
               /\ client' = "ok" => code' = ExitCode(exit')
    <2>1. UNCHANGED exit
      BY <1>5, ClientFrames
    <2>2. CASE ClientStatus
      <3>1. client' \in {"stdio", "join", "ok"} => exit[1] # "Lost" /\ exit # NoStatus
        BY <2>2 DEF ClientStatus, ClientExits
      <3>2. exit[1] # "Lost" /\ exit # NoStatus => exit \in Reported
        BY DEF MainTypes
      <3>3. client' # "ok"
        BY <2>2 DEF ClientStatus, ClientExits
      <3> QED
        BY <2>1, <3>1, <3>2, <3>3, KnownGrows
    <2>3. CASE ClientStdio
      BY <2>1, <2>3, KnownGrows DEF ClientStdio, ClientExits, StatusKnown
    <2>4. CASE ClientJoin
      BY <2>1, <2>4, KnownGrows DEF ClientJoin, ClientExits, StatusKnown
    <2> QED
      BY <1>5, <2>2, <2>3, <2>4 DEF ClientStep
  <1>6. /\ client' \in {"stdio", "join", "ok"} => exit' \in Reported'
        /\ client' = "ok" => code' = ExitCode(exit')
    <2>1. UNCHANGED vars \/ UNCHANGED clientVars \/ ConnectionLost => UNCHANGED <<client, code>>
      BY DEF vars, clientVars, ConnectionLost
    <2>2. \A sd \in Sides : ReceiverStep(sd) => UNCHANGED <<client, code>>
      BY ReceiverFrames
    <2> QED
      BY <1>4, <1>5, <2>1, <2>2, TaskFrames, WindowFrames, SenderFrames, ServerFrames
         DEF Next, Terminated
  <1> QED
    BY <1>3, <1>6 DEF StatusKnown

-----------------------------------------------------------------------------

\* At the start nothing is under way, but the end of a stream that serve() has
\* itself closed.
LEMMA InvInit == Init => Inv
  <1> SUFFICES ASSUME Init PROVE Inv
    OBVIOUS
  <1>0. <<>> \in Seq(SinkAction) /\ <<>> \in Seq(SourceAction) /\ Len(<<>>) = 0
    OBVIOUS
  <1>1. TaskTypes
    <2>1. src \in [Streams -> SourceState] /\ snk \in [Streams -> SinkState]
      BY SourceTypes, SinkTypes DEF Init, SourceState
    <2>2. /\ srcRx \in [Streams -> Seq(SinkAction)] /\ snkRx \in [Streams -> Seq(SourceAction)]
          /\ \A s \in Streams : Len(srcRx[s]) <= ChanCap /\ Len(snkRx[s]) <= ChanCap
      BY <1>0 DEF Init, ChanCap
    <2> QED
      BY <2>1, <2>2 DEF TaskTypes
  <1>2. LinkTypes
    <2>1. ASSUME NEW sd \in Sides
          PROVE  Way(sd, queue[sd], net[sd], sender[sd], receiver[sd])
      <3>1. queue[sd] \in Seq(Msgs(sd)) /\ Len(queue[sd]) <= QueueCap
        <4>1. StreamMsg("Stderr", SourceClosed) \in Msgs("server")
          <5>1. "Stderr" \in Streams /\ SourceSide("Stderr") = "server" /\ SourceClosed \in SourceAction
            BY DEF Streams, SourceSide, SourceClosed, SourceAction
          <5> QED
            BY <5>1, TaskMsgs DEF Msgs
        <4>2. queue[sd] = <<>> \/ (sd = "server" /\ queue[sd] = <<StreamMsg("Stderr", SourceClosed)>>)
          BY DEF Init
        <4>3. QueueCap \in Nat /\ QueueCap # 0
          BY SessionAssumption
        <4>4. CASE queue[sd] = <<>>
          BY <4>3, <4>4
        <4> DEFINE m == StreamMsg("Stderr", SourceClosed)
        <4> HIDE DEF m
        <4>5. CASE sd = "server" /\ queue[sd] = <<m>>
          BY <4>1, <4>3, <4>5 DEF m
        <4> QED
          BY <4>2, <4>4, <4>5 DEF m
      <3>2. net[sd] = <<>> /\ net[sd] \in Seq(Msgs(sd)) /\ Len(net[sd]) <= NetCap
        BY <1>0, SessionAssumption DEF Init
      <3>3. sender[sd] \in SenderState(sd) /\ Len(sender[sd].msg) = 0 /\ sender[sd].pc = "recv"
        BY <1>0 DEF Init, SenderState
      <3>4. receiver[sd] \in ReceiverState(sd) /\ Len(receiver[sd].msg) = 0
                                               /\ receiver[sd].pc = "recv"
        BY <1>0 DEF Init, ReceiverState
      <3> QED
        BY <3>1, <3>2, <3>3, <3>4 DEF Way
    <2> QED
      BY <2>1 DEF Init, LinkTypes
  <1>3. MainTypes
    BY DEF Init, MainTypes, Sides
  <1>4. StatusKnown
    BY DEF Init, StatusKnown
  <1> QED
    BY <1>1, <1>2, <1>3, <1>4 DEF Inv

\* The invariant is inductive.
LEMMA InvNext == Inv /\ [Next]_vars => Inv'
  BY TaskTypesNext, LinkTypesNext, MainTypesNext, StatusNext DEF Inv

\* What is known of a session in every reachable state.
THEOREM Invariance == Spec => []Inv
  BY InvInit, InvNext, PTL DEF Spec

\* All variables of a session keep their types: no queue or connection holds more
\* than its capacity, and a task only gets the messages that are for it.
THEOREM SessionTypeCorrect == Spec => []TypeOK
  <1>1. Inv => TypeOK
    <2> SUFFICES ASSUME Inv PROVE TypeOK
      OBVIOUS
    <2>1. /\ src \in [Streams -> SourceState] /\ snk \in [Streams -> SinkState]
          /\ \A s \in Streams : /\ Len(srcRx[s]) <= ChanCap /\ Len(snkRx[s]) <= ChanCap
                                /\ srcRx[s] \in Seq(SinkAction) /\ snkRx[s] \in Seq(SourceAction)
      BY DEF Inv, TaskTypes
    <2>2. \A s \in Streams : /\ \A i \in 1..Len(srcRx[s]) : srcRx[s][i] \in SinkAction
                             /\ \A i \in 1..Len(snkRx[s]) : snkRx[s][i] \in SourceAction
      BY <2>1
    <2>3. \A sd \in Sides : /\ Len(queue[sd]) <= QueueCap /\ Len(net[sd]) <= NetCap
                            /\ sender[sd].pc \in {"recv", "write", "notified", "done"}
                            /\ receiver[sd].pc \in {"recv", "route", "shutdown", "done", "failed"}
      BY DEF Inv, LinkTypes, Way, SenderState, ReceiverState
    <2> QED
      BY <2>1, <2>2, <2>3 DEF Inv, MainTypes, Reported, TypeOK
  <1> QED
    BY <1>1, Invariance, PTL

\* A client that ends without an error ends with the code of the status with which
\* the child exited (Session.tla), whatever fails and wherever it fails.
THEOREM ExitCodeIsChildsCorrect == Spec => []ExitCodeIsChilds
  <1>1. Inv => ExitCodeIsChilds
    BY DEF Inv, StatusKnown, Reported, ExitCode, ExitCodeIsChilds
  <1> QED
    BY <1>1, Invariance, PTL

=============================================================================
