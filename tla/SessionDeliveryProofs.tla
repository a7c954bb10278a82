------------------------- MODULE SessionDeliveryProofs -------------------------
(***************************************************************************)
(* Proofs about what a session delivers.  Each stream has one packet or its  *)
(* acknowledgement under way at a time, wherever that is: in a queue, in the *)
(* connection, in the channel of a task or in its hands.  Hence no source is *)
(* surprised by an acknowledgement, and what a sink has written is what its  *)
(* source has read, but for that one packet.  Last, each standard stream is a *)
(* Stream: a step of the session is one of Stream.tla, or leaves it alone.    *)
(***************************************************************************)
EXTENDS SessionOrderProofs

-----------------------------------------------------------------------------
(* The token of a stream.                                                  *)

DataOf(s) == [id : {s}, act : {"Data"}, n : Nat]
Datas == [act : {"Data"}, n : Nat]
AckOf(s) == [id : {s}, act : {"Ack"}, n : {0}]

\* A packet: on the way to the sink's side, in the sink's channel, in its hands.
DataUnderWay(s) == Has(Path(SourceSide(s)), DataOf(s))
DataWaits(s) == Has(snkRx[s], Datas)
Writing(s) == snk[s].pc = "write"

\* Its acknowledgement: in the sink's hands, on the way back, in the source's channel.
Acking(s) == snk[s].pc = "ack"
AckUnderWay(s) == Has(Path(SinkSide(s)), AckOf(s))
AckWaits(s) == Has(srcRx[s], {Ack})

OneData(s) == NoneAfter(Path(SourceSide(s)), DataOf(s), DataOf(s))
OneAck(s) == NoneAfter(Path(SinkSide(s)), AckOf(s), AckOf(s))

\* A packet of the stream is under way.
Loaded(s) == DataUnderWay(s) \/ DataWaits(s) \/ Writing(s)

\* An acknowledgement of the stream is under way.
Acked(s) == Acking(s) \/ AckUnderWay(s) \/ AckWaits(s)

\* The token of a stream is in one place at most, and while its source reads or has
\* a packet in its hands, it is nowhere else.
Token(s) ==
    /\ src[s].pc # "panicked"
    /\ src[s].pc \in {"select", "send"} => ~Loaded(s) /\ ~Acked(s)
    /\ ~(Loaded(s) /\ Acked(s))
    /\ DataUnderWay(s) => OneData(s) /\ ~DataWaits(s) /\ ~Writing(s)
    /\ DataWaits(s) => ~Writing(s)
    /\ AckUnderWay(s) => OneAck(s) /\ ~Acking(s) /\ ~AckWaits(s)
    /\ Acking(s) => ~AckWaits(s)

\* What is new on a way has just been put there.
LEMMA WayChanges ==
    ASSUME Ending, [Next]_vars, NEW e \in Sides, NEW C
    PROVE  \/ /\ Has(Path(e)', C) => Has(Path(e), C)
              /\ NoneAfter(Path(e), C, C) => NoneAfter(Path(e)', C, C)
           \/ \E m \in C : /\ Adds(e, m)
                           /\ ~Has(Path(e), C) => NoneAfter(Path(e)', C, C)
  <1> DEFINE p == Path(e)
             r == Path(e)'
             S == Msgs(e)
  <1>1. p \in Seq(S)
    BY PathTypes DEF Ending, Inv
  <1>2. Kept(r, p) \/ \E m \in S : Appended(r, p, m) /\ Adds(e, m)
    BY PathStep
  <1> HIDE DEF p, r, S
  <1>3. CASE Kept(r, p)
    <2>1. /\ Has(r, C) => Has(p, C)
          /\ NoneAfter(p, C, C) => NoneAfter(r, C, C)
      BY <1>3 DEF Kept
    <2> QED
      BY <2>1 DEF p, r
  <1>4. ASSUME NEW m \in S, Appended(r, p, m), Adds(e, m)
        PROVE  \/ /\ Has(r, C) => Has(p, C)
                  /\ NoneAfter(p, C, C) => NoneAfter(r, C, C)
               \/ \E x \in C : Adds(e, x) /\ (~Has(p, C) => NoneAfter(r, C, C))
    <2>1. /\ Has(r, C) <=> Has(p, C) \/ m \in C
          /\ NoneAfter(r, C, C) <=> NoneAfter(p, C, C) /\ (Has(p, C) => m \notin C)
      BY <1>1, <1>4, AppendOrder
    <2>2. ~Has(p, C) => NoneAfter(p, C, C)
      BY DEF Has, NoneAfter
    <2> QED
      BY <1>4, <2>1, <2>2
  <1> QED
    BY <1>2, <1>3, <1>4 DEF p, r

\* Only the source of a stream puts packets on the way, only its sink
\* acknowledgements.
LEMMA AddsToken ==
    ASSUME Inv, NEW s \in Streams, NEW e, NEW m, Adds(e, m)
    PROVE  /\ m \in DataOf(s) =>
                /\ SourceSend(s) /\ src[s].pc = "send"
                /\ m = StreamMsg(s, SourceMsg(src[s]))
           /\ m \in AckOf(s) => SinkSend(s) /\ snk[s].pc = "ack"
  <1>1. s # "main" /\ src[s] \in SourceState /\ snk[s] \in SinkState
    BY DEF Streams, Inv, TaskTypes
  <1>2. \A t \in Streams : /\ StreamMsg(t, SinkMsg(snk[t])).id = t
                           /\ StreamMsg(t, SinkMsg(snk[t])).act \in {"Ack", "SinkClosed"}
                           /\ StreamMsg(t, SinkMsg(snk[t])).act = "Ack" <=> snk[t].pc = "ack"
    BY DEF StreamMsg, SinkMsg, Ack, SinkClosed
  <1>3. \A t \in Streams : /\ StreamMsg(t, SourceMsg(src[t])).id = t
                           /\ StreamMsg(t, SourceMsg(src[t])).act \in {"Data", "SourceClosed"}
                           /\ StreamMsg(t, SourceMsg(src[t])).act = "Data" <=> src[t].pc = "send"
    BY DEF StreamMsg, SourceMsg, Data, SourceClosed
  <1>4. ASSUME m.id = s, m.act \in {"Data", "Ack"}
        PROVE  \/ SourceSend(s) /\ m = StreamMsg(s, SourceMsg(src[s]))
               \/ SinkSend(s) /\ m = StreamMsg(s, SinkMsg(snk[s]))
    <2>1. \/ \E t \in Streams : SourceSend(t) /\ m = StreamMsg(t, SourceMsg(src[t]))
          \/ \E t \in Streams : SinkSend(t) /\ m = StreamMsg(t, SinkMsg(snk[t]))
          \/ m = StreamMsg("Stdin", SinkClosed)
      BY <1>1, <1>4 DEF Adds, Finished, WindowSizeChange, Exit
    <2>2. StreamMsg("Stdin", SinkClosed).act = "SinkClosed"
      BY DEF StreamMsg, SinkClosed
    <2> QED
      BY <1>2, <1>3, <1>4, <2>1, <2>2
  <1>5. ASSUME m \in DataOf(s)
        PROVE  /\ SourceSend(s) /\ src[s].pc = "send"
               /\ m = StreamMsg(s, SourceMsg(src[s]))
    <2>1. m.id = s /\ m.act = "Data"
      BY <1>5 DEF DataOf
    <2> QED
      BY <1>2, <1>3, <1>4, <2>1
  <1>6. ASSUME m \in AckOf(s)
        PROVE  SinkSend(s) /\ snk[s].pc = "ack"
    <2>1. m.id = s /\ m.act = "Ack"
      BY <1>6 DEF AckOf
    <2> QED
      BY <1>2, <1>3, <1>4, <2>1
  <1> QED
    BY <1>5, <1>6

\* How the token moves along the way.
LEMMA TokenWay ==
    ASSUME Ending, [Next]_vars, NEW s \in Streams
    PROVE  /\ \/ /\ DataUnderWay(s)' => DataUnderWay(s)
                 /\ OneData(s) => OneData(s)'
              \/ /\ SourceSend(s) /\ src[s].pc = "send"
                 /\ ~DataUnderWay(s) => OneData(s)'
           /\ \/ /\ AckUnderWay(s)' => AckUnderWay(s)
                 /\ OneAck(s) => OneAck(s)'
              \/ /\ SinkSend(s) /\ snk[s].pc = "ack"
                 /\ ~AckUnderWay(s) => OneAck(s)'
  <1>1. SourceSide(s) \in Sides /\ SinkSide(s) \in Sides /\ Inv
    BY SideFacts DEF Ending
  <1> DEFINE D == DataOf(s)
             A == AckOf(s)
  <1>2. \A e, m : Adds(e, m) => /\ m \in D => SourceSend(s) /\ src[s].pc = "send"
                                /\ m \in A => SinkSend(s) /\ snk[s].pc = "ack"
    BY <1>1, AddsToken
  <1> HIDE DEF D, A
  <1>3. \/ /\ Has(Path(SourceSide(s))', D) => Has(Path(SourceSide(s)), D)
           /\ NoneAfter(Path(SourceSide(s)), D, D) => NoneAfter(Path(SourceSide(s))', D, D)
        \/ /\ SourceSend(s) /\ src[s].pc = "send"
           /\ ~Has(Path(SourceSide(s)), D) => NoneAfter(Path(SourceSide(s))', D, D)
    BY <1>1, <1>2, WayChanges
  <1>4. \/ /\ Has(Path(SinkSide(s))', A) => Has(Path(SinkSide(s)), A)
           /\ NoneAfter(Path(SinkSide(s)), A, A) => NoneAfter(Path(SinkSide(s))', A, A)
        \/ /\ SinkSend(s) /\ snk[s].pc = "ack"
           /\ ~Has(Path(SinkSide(s)), A) => NoneAfter(Path(SinkSide(s))', A, A)
    BY <1>1, <1>2, WayChanges
  <1> QED
    BY <1>3, <1>4 DEF DataUnderWay, AckUnderWay, OneData, OneAck, D, A

\* What a receiver's step puts into the channels of a stream.
LEMMA RoutedTo ==
    ASSUME Inv, NEW s \in Streams, NEW sd \in Sides, ReceiverStep(sd)
    PROVE  LET x == receiver[sd].msg[1] IN
           \/ srcRx'[s] = srcRx[s] /\ snkRx'[s] = snkRx[s]
           \/ /\ ReceiverRoute(sd) /\ sd = SinkSide(s) /\ ~SinkEnded(snk[s])
              /\ x \in ForSinkOf(s) /\ ActionOf(x) \in SourceAction
              /\ snkRx'[s] = Append(snkRx[s], ActionOf(x)) /\ srcRx'[s] = srcRx[s]
           \/ /\ ReceiverRoute(sd) /\ sd = SourceSide(s)
              /\ x.id = s /\ x \in [id : Streams, act : {"Ack", "SinkClosed"}, n : {0}]
              /\ ActionOf(x) \in SinkAction
              /\ srcRx'[s] = Append(srcRx[s], ActionOf(x)) /\ snkRx'[s] = snkRx[s]
           \/ /\ ReceiverShutdown(sd)
              /\ \/ snkRx'[s] = Append(snkRx[s], SourceClosed) /\ srcRx'[s] = srcRx[s]
                 \/ srcRx'[s] = Append(srcRx[s], SinkClosed) /\ snkRx'[s] = snkRx[s]
  <1> DEFINE x == receiver[sd].msg[1]
  <1>1. DOMAIN snkRx = Streams /\ DOMAIN srcRx = Streams /\ LinkTypes
    BY DEF Inv, TaskTypes
  <1>2. CASE ReceiverRoute(sd)
    <2>1. x \in StreamMsgs(Peer(sd)) /\ Peer(sd) \in Sides
      <3>1. receiver[sd].pc = "route"
        BY <1>2 DEF ReceiverRoute
      <3> QED
        BY <1>1, <3>1, InHand, SideFacts
    <2>2. \/ UNCHANGED <<snkRx, srcRx>>
          \/ /\ ForSink(x) /\ ~SinkEnded(snk[x.id]) /\ srcRx' = srcRx
             /\ snkRx' = [snkRx EXCEPT ![x.id] = Append(@, ActionOf(x))]
          \/ /\ ~ForSink(x) /\ snkRx' = snkRx
             /\ srcRx' = [srcRx EXCEPT ![x.id] = Append(@, ActionOf(x))]
      BY <1>2 DEF ReceiverRoute
    <2> HIDE DEF x
    <2>3. /\ x.id \in Streams
          /\ ForSink(x) => /\ SinkSide(x.id) = sd /\ ActionOf(x) \in SourceAction
                           /\ x \in ForSinkOf(x.id)
          /\ ~ForSink(x) => /\ SourceSide(x.id) = sd /\ ActionOf(x) \in SinkAction
                            /\ x \in [id : Streams, act : {"Ack", "SinkClosed"}, n : {0}]
      <3>1. /\ x.id \in Streams
            /\ ForSink(x) => SourceSide(x.id) = Peer(sd) /\ ActionOf(x) \in SourceAction
            /\ ~ForSink(x) => SinkSide(x.id) = Peer(sd) /\ ActionOf(x) \in SinkAction
        BY <2>1, RoutedMsgs
      <3>2. ForSink(x) => x \in ForSinkOf(x.id)
        <4>1. ForSink(x) => x \in [id : {t \in Streams : SourceSide(t) = Peer(sd)},
                                   act : {"Data", "SourceClosed"}, n : Nat]
          BY <2>1 DEF StreamMsgs, ForSink
        <4> QED
          BY <4>1 DEF ForSinkOf
      <3>3. ~ForSink(x) => x \in [id : Streams, act : {"Ack", "SinkClosed"}, n : {0}]
        BY <2>1 DEF StreamMsgs, ForSink, Sinks
      <3> QED
        BY <2>1, <3>1, <3>2, <3>3, SideFacts
    <2>4. \/ UNCHANGED <<snkRx, srcRx>>
          \/ x.id # s /\ srcRx'[s] = srcRx[s] /\ snkRx'[s] = snkRx[s]
          \/ /\ x.id = s /\ ForSink(x) /\ ~SinkEnded(snk[s])
             /\ snkRx'[s] = Append(snkRx[s], ActionOf(x)) /\ srcRx'[s] = srcRx[s]
          \/ /\ x.id = s /\ ~ForSink(x)
             /\ srcRx'[s] = Append(srcRx[s], ActionOf(x)) /\ snkRx'[s] = snkRx[s]
      BY <1>1, <2>2, <2>3
    <2> QED
      BY <1>2, <2>3, <2>4 DEF x
  <1>3. CASE ReceiverShutdown(sd)
    <2>1. \/ UNCHANGED <<snkRx, srcRx>>
          \/ \E t \in Streams : \/ /\ snkRx' = [snkRx EXCEPT ![t] = Append(@, SourceClosed)]
                                   /\ srcRx' = srcRx
                                \/ /\ srcRx' = [srcRx EXCEPT ![t] = Append(@, SinkClosed)]
                                   /\ snkRx' = snkRx
      BY <1>3 DEF ReceiverShutdown, Sinks, Sources
    <2> QED
      BY <1>1, <1>3, <2>1
  <1>4. CASE ReceiverRecv(sd) \/ ReceiverError(sd) \/ ReceiverShutdownEnd(sd)
    <2>1. UNCHANGED <<snkRx, srcRx>>
      BY <1>4 DEF ReceiverRecv, ReceiverError, ReceiverShutdownEnd, streamVars
    <2> QED
      BY <2>1
  <1> QED
    BY <1>2, <1>3, <1>4 DEF ReceiverStep

\* Whose step it is, for a stream.
LEMMA StreamTurns ==
    ASSUME Inv, [Next]_vars, NEW s \in Streams
    PROVE  \/ (SourceIn(s) \/ SourceTake(s)) /\ UNCHANGED <<snk, snkRx, out, linkVars>>
           \/ SourceSend(s) /\ UNCHANGED <<srcRx, snk, snkRx, out>>
           \/ (SinkTake(s) \/ SinkFinish(s) \/ SinkWrite(s)) /\ UNCHANGED <<src, srcRx, linkVars>>
           \/ SinkSend(s) /\ UNCHANGED <<src, srcRx, snkRx, out>>
           \/ \E sd \in Sides : ReceiverStep(sd) /\ UNCHANGED <<src, snk, out>>
           \/ /\ src'[s] = src[s] /\ snk'[s] = snk[s] /\ out'[s] = out[s]
              /\ srcRx'[s] = srcRx[s] /\ snkRx'[s] = snkRx[s]
  <1> DEFINE Same == /\ src'[s] = src[s] /\ snk'[s] = snk[s] /\ out'[s] = out[s]
                     /\ srcRx'[s] = srcRx[s] /\ snkRx'[s] = snkRx[s]
  <1>1. UNCHANGED streamVars => Same
    BY DEF streamVars
  <1>2. UNCHANGED vars => UNCHANGED streamVars
    BY DEF vars
  <1>3. ASSUME NEW t \in Streams, t # s, SourceIn(t) \/ SourceStep(t) \/ SinkStep(t) \/ SinkWrite(t)
        PROVE  Same
    <2>1. /\ DOMAIN src = Streams /\ DOMAIN snk = Streams
          /\ DOMAIN srcRx = Streams /\ DOMAIN snkRx = Streams
      BY DEF Inv, TaskTypes
    <2>2. CASE SourceIn(t) \/ SourceStep(t)
      BY <1>3, <2>1, <2>2 DEF SourceIn, SourceStep, ReadPacket, EndOfInput, SourceSend, SourceTake
    <2>3. CASE SinkStep(t)
      BY <1>3, <2>1, <2>3 DEF SinkStep, SinkTake, SinkSend, SinkFinish
    <2>4. CASE SinkWrite(t)
      BY <1>3, <2>1, <2>4 DEF SinkWrite
    <2> QED
      BY <1>3, <2>2, <2>3, <2>4
  <1>4. SourceIn(s) \/ SourceTake(s) => UNCHANGED <<snk, snkRx, out, linkVars>>
    BY DEF SourceIn, SourceTake, ReadPacket, EndOfInput
  <1>5. SourceSend(s) => UNCHANGED <<srcRx, snk, snkRx, out>>
    BY DEF SourceSend
  <1>6. SinkTake(s) \/ SinkFinish(s) \/ SinkWrite(s) => UNCHANGED <<src, srcRx, linkVars>>
    BY DEF SinkTake, SinkFinish, SinkWrite
  <1>7. SinkSend(s) => UNCHANGED <<src, srcRx, snkRx, out>>
    BY DEF SinkSend
  <1>8. \A sd \in Sides : ReceiverStep(sd) => UNCHANGED <<src, snk, out>>
    BY ReceiverFrames
  <1> HIDE DEF Same
  <1>9. \/ Same \/ SourceIn(s) \/ SourceStep(s) \/ SinkStep(s) \/ SinkWrite(s)
        \/ \E sd \in Sides : ReceiverStep(sd)
    BY <1>1, <1>2, <1>3, WindowFrames, SenderFrames, ServerFrames, ClientFrames
       DEF Next, Terminated
  <1> QED
    BY <1>4, <1>5, <1>6, <1>7, <1>8, <1>9 DEF SourceStep, SinkStep, Same

\* The token stays one.
LEMMA TokenNext ==
    ASSUME Ending, [Next]_vars, NEW s \in Streams, Token(s)
    PROVE  Token(s)'
  <1>0. /\ src[s] \in SourceState /\ snk[s] \in SinkState
        /\ snkRx[s] \in Seq(SourceAction) /\ Len(snkRx[s]) <= ChanCap
        /\ srcRx[s] \in Seq(SinkAction) /\ Len(srcRx[s]) <= ChanCap
        /\ DOMAIN src = Streams /\ DOMAIN snk = Streams
        /\ DOMAIN srcRx = Streams /\ DOMAIN snkRx = Streams
        /\ Inv /\ LinkTypes /\ SourceSide(s) \in Sides /\ SinkSide(s) \in Sides
        /\ SourceSide(s) # SinkSide(s) /\ Peer(SinkSide(s)) = SourceSide(s)
        /\ Peer(SourceSide(s)) = SinkSide(s)
    BY SideFacts DEF Ending, Inv, TaskTypes
  <1>1. UNCHANGED linkVars =>
          /\ DataUnderWay(s)' = DataUnderWay(s) /\ OneData(s)' = OneData(s)
          /\ AckUnderWay(s)' = AckUnderWay(s) /\ OneAck(s)' = OneAck(s)
    <2>1. UNCHANGED linkVars => /\ Path(SourceSide(s))' = Path(SourceSide(s))
                                /\ Path(SinkSide(s))' = Path(SinkSide(s))
      BY <1>0, PathSame DEF linkVars
    <2> QED
      BY <2>1 DEF DataUnderWay, OneData, AckUnderWay, OneAck
  <1>2. ~SourceSend(s) => /\ DataUnderWay(s)' => DataUnderWay(s)
                          /\ OneData(s) => OneData(s)'
    BY TokenWay
  <1>3. ~SinkSend(s) => /\ AckUnderWay(s)' => AckUnderWay(s)
                        /\ OneAck(s) => OneAck(s)'
    BY TokenWay
  <1>4. SourceSend(s) => src'[s].pc # src[s].pc
    BY <1>0 DEF SourceSend, SourceSending, SourceSent, SourceState
  <1>5. SinkSend(s) => snk'[s].pc # snk[s].pc
    BY <1>0 DEF SinkSend, SinkSending, SinkSent, SinkState
  <1>6. CASE (SourceIn(s) \/ SourceTake(s)) /\ UNCHANGED <<snk, snkRx, out, linkVars>>
    <2>1. /\ DataWaits(s)' = DataWaits(s) /\ Writing(s)' = Writing(s) /\ Acking(s)' = Acking(s)
      BY <1>6 DEF DataWaits, Writing, Acking
    <2>2. CASE SourceIn(s)
      <3>1. srcRx' = srcRx /\ src[s].pc = "select" /\ src'[s].pc \in {"send", "close"}
        BY <1>0, <2>2 DEF SourceIn, ReadPacket, EndOfInput, SourceRead, SourceBreak, SourceState
      <3>2. AckWaits(s)' = AckWaits(s)
        BY <3>1 DEF AckWaits
      <3> QED
        BY <1>1, <1>6, <2>1, <3>1, <3>2 DEF Token, Loaded, Acked
    <2>3. CASE SourceTake(s) /\ srcRx[s] = <<>>
      <3>1. srcRx' = srcRx /\ src'[s].pc = "failed"
        BY <1>0, <2>3 DEF SourceTake, SourceRecvNone, SourceState
      <3>2. AckWaits(s)' = AckWaits(s)
        BY <3>1 DEF AckWaits
      <3> QED
        BY <1>1, <1>6, <2>1, <3>1, <3>2 DEF Token, Loaded, Acked
    <2>4. CASE SourceTake(s) /\ srcRx[s] # <<>>
      <3> DEFINE h == Head(srcRx[s])
      <3>1. h \in SinkAction /\ Tail(srcRx[s]) = <<>> /\ (AckWaits(s) <=> h \in {Ack})
        BY <1>0, <2>4, OneInChannel DEF AckWaits
      <3>2. /\ src[s].pc \in {"select", "ack"}
            /\ src'[s] = SourceRecv(src[s], h) /\ srcRx'[s] = Tail(srcRx[s])
        BY <1>0, <2>4 DEF SourceTake, SourceListening
      <3> HIDE DEF h
      <3>3. ~AckWaits(s)'
        BY <3>1, <3>2, EmptyOrder DEF AckWaits
      <3>4. CASE h = Ack
        <4>1. AckWaits(s)
          BY <3>1, <3>4
        <4>2. src[s].pc = "ack"
          BY <3>2, <4>1 DEF Token, Acked
        <4>3. src'[s].pc = "select"
          BY <1>0, <3>2, <3>4, <4>2 DEF SourceRecv, SourceState, Ack, SinkClosed
        <4> QED
          BY <1>1, <1>6, <2>1, <3>3, <4>1, <4>3 DEF Token, Loaded, Acked
      <3>5. CASE h = SinkClosed
        <4>1. src'[s].pc = "close"
          BY <1>0, <3>2, <3>5 DEF SourceRecv, SourceState, Ack, SinkClosed
        <4> QED
          BY <1>1, <1>6, <2>1, <3>3, <4>1 DEF Token, Loaded, Acked
      <3> QED
        BY <3>1, <3>4, <3>5 DEF SinkAction
    <2> QED
      BY <1>6, <2>2, <2>3, <2>4
  <1>7. CASE SourceSend(s) /\ UNCHANGED <<srcRx, snk, snkRx, out>>
    <2>1. /\ DataWaits(s)' = DataWaits(s) /\ Writing(s)' = Writing(s) /\ Acking(s)' = Acking(s)
          /\ AckWaits(s)' = AckWaits(s)
      BY <1>7 DEF DataWaits, Writing, Acking, AckWaits
    <2>2. ~SinkSend(s)
      BY <1>5, <1>7
    <2>3. CASE src[s].pc = "send"
      <3>1. src'[s].pc = "ack"
        BY <1>0, <1>7, <2>3 DEF SourceSend, SourceSent, SourceState
      <3>2. ~DataUnderWay(s) => (DataUnderWay(s)' => OneData(s)')
        BY TokenWay DEF DataUnderWay
      <3> QED
        BY <1>3, <2>1, <2>2, <2>3, <3>1, <3>2 DEF Token, Loaded, Acked
    <2>4. CASE src[s].pc = "close"
      <3>1. src'[s].pc = "done"
        BY <1>0, <1>7, <2>4 DEF SourceSend, SourceSent, SourceState
      <3>2. (DataUnderWay(s)' => DataUnderWay(s)) /\ (OneData(s) => OneData(s)')
        BY <2>4, TokenWay
      <3> QED
        BY <1>3, <2>1, <2>2, <3>1, <3>2 DEF Token, Loaded, Acked
    <2> QED
      BY <1>7, <2>3, <2>4 DEF SourceSend, SourceSending
  <1>8. CASE (SinkTake(s) \/ SinkFinish(s) \/ SinkWrite(s)) /\ UNCHANGED <<src, srcRx, linkVars>>
    <2>1. src'[s] = src[s] /\ AckWaits(s)' = AckWaits(s)
      BY <1>8 DEF AckWaits
    <2>2. CASE SinkTake(s) /\ snkRx[s] # <<>>
      <3> DEFINE h == Head(snkRx[s])
      <3>1. h \in SourceAction /\ Tail(snkRx[s]) = <<>> /\ (DataWaits(s) <=> h \in Datas)
        BY <1>0, <2>2, OneInChannel DEF DataWaits
      <3>2. /\ snk[s].pc = "recv"
            /\ snk'[s] = SinkRecv(snk[s], h) /\ snkRx'[s] = Tail(snkRx[s])
        BY <1>0, <2>2 DEF SinkTake
      <3> HIDE DEF h
      <3>3. ~DataWaits(s)'
        BY <3>1, <3>2, EmptyOrder DEF DataWaits
      <3>4. /\ snk'[s].pc \in {"shutdown", "notify", "write"}
            /\ snk'[s].pc = "write" => h.act # "SourceClosed"
        BY <1>0, <3>2 DEF SinkRecv, SinkState
      <3>5. h.act # "SourceClosed" => h \in Datas
        BY <3>1 DEF SourceAction, Datas
      <3>6. Writing(s)' => DataWaits(s)
        BY <3>1, <3>4, <3>5 DEF Writing
      <3>7. ~Acking(s)'
        BY <3>4 DEF Acking
      <3> QED
        BY <1>1, <1>8, <2>1, <3>3, <3>6, <3>7 DEF Token, Loaded, Acked
    <2>3. CASE (SinkTake(s) /\ snkRx[s] = <<>>) \/ SinkFinish(s)
      <3>1. snkRx' = snkRx /\ snk'[s].pc \in {"shutdown", "done"}
        BY <1>0, <2>3 DEF SinkTake, SinkFinish, SinkRecvNone, SinkShutdown, SinkState
      <3>2. DataWaits(s)' = DataWaits(s) /\ ~Writing(s)' /\ ~Acking(s)'
        BY <3>1 DEF DataWaits, Writing, Acking
      <3> QED
        BY <1>1, <1>8, <2>1, <3>2 DEF Token, Loaded, Acked
    <2>4. CASE SinkWrite(s)
      <3>1. /\ snkRx' = snkRx /\ snk'[s].pc \in {"ack", "recv", "notify", "failed"}
            /\ snk'[s].pc = "ack" => snk[s].pc = "write"
        BY <1>0, <2>4 DEF SinkWrite, SinkIo, SinkState
      <3>2. DataWaits(s)' = DataWaits(s) /\ ~Writing(s)' /\ (Acking(s)' => Writing(s))
        BY <3>1 DEF DataWaits, Writing, Acking
      <3> QED
        BY <1>1, <1>8, <2>1, <3>2 DEF Token, Loaded, Acked
    <2> QED
      BY <1>8, <2>2, <2>3, <2>4
  <1>9. CASE SinkSend(s) /\ UNCHANGED <<src, srcRx, snkRx, out>>
    <2>1. src'[s] = src[s] /\ AckWaits(s)' = AckWaits(s) /\ DataWaits(s)' = DataWaits(s)
      BY <1>9 DEF AckWaits, DataWaits
    <2>2. ~SourceSend(s)
      BY <1>4, <1>9
    <2>3. snk'[s].pc \in {"flush", "recv"}
      BY <1>0, <1>9 DEF SinkSend, SinkSending, SinkSent, SinkState
    <2>4. ~Writing(s)' /\ ~Acking(s)'
      BY <2>3 DEF Writing, Acking
    <2>5. CASE snk[s].pc = "ack"
      <3>1. Acking(s) /\ (~AckUnderWay(s) => (AckUnderWay(s)' => OneAck(s)'))
        BY <2>5, TokenWay DEF Acking, AckUnderWay
      <3> QED
        BY <1>2, <2>1, <2>2, <2>4, <3>1 DEF Token, Loaded, Acked
    <2>6. CASE snk[s].pc # "ack"
      <3>1. (AckUnderWay(s)' => AckUnderWay(s)) /\ (OneAck(s) => OneAck(s)')
        BY <2>6, TokenWay
      <3> QED
        BY <1>2, <2>1, <2>2, <2>4, <3>1 DEF Token, Loaded, Acked
    <2> QED
      BY <2>5, <2>6
  <1>10. ASSUME NEW sd \in Sides, ReceiverStep(sd), UNCHANGED <<src, snk, out>>
         PROVE  Token(s)'
    <2> DEFINE x == receiver[sd].msg[1]
    <2>1. /\ src'[s] = src[s] /\ Writing(s)' = Writing(s) /\ Acking(s)' = Acking(s)
          /\ ~SourceSend(s) /\ ~SinkSend(s)
      BY <1>4, <1>5, <1>10 DEF Writing, Acking
    <2>2. /\ DataUnderWay(s)' => DataUnderWay(s)
          /\ OneData(s) => OneData(s)'
          /\ AckUnderWay(s)' => AckUnderWay(s)
          /\ OneAck(s) => OneAck(s)'
      BY <1>2, <1>3, <2>1
    <2>a. \A a \in SourceAction : /\ Has(Append(snkRx[s], a), Datas) => DataWaits(s) \/ a \in Datas
      BY <1>0, LastFacts DEF DataWaits
    <2>b. \A a \in SinkAction : Has(Append(srcRx[s], a), {Ack}) => AckWaits(s) \/ a \in {Ack}
      BY <1>0, LastFacts DEF AckWaits
    <2>3. CASE srcRx'[s] = srcRx[s] /\ snkRx'[s] = snkRx[s]
      <3>1. DataWaits(s)' = DataWaits(s) /\ AckWaits(s)' = AckWaits(s)
        BY <2>3 DEF DataWaits, AckWaits
      <3> QED
        BY <2>1, <2>2, <3>1 DEF Token, Loaded, Acked
    <2>4. CASE /\ ReceiverRoute(sd) /\ sd = SinkSide(s)
               /\ x \in ForSinkOf(s) /\ ActionOf(x) \in SourceAction
               /\ snkRx'[s] = Append(snkRx[s], ActionOf(x)) /\ srcRx'[s] = srcRx[s]
      <3>1. AckWaits(s)' = AckWaits(s)
        BY <2>4 DEF AckWaits
      <3>2. FirstOf(x, Path(SourceSide(s)), Path(SourceSide(s))')
        BY <1>0, <2>4, TakesFirst
      <3> HIDE DEF x
      <3>3. ActionOf(x) \in Datas => x \in DataOf(s)
        BY <2>4 DEF ActionOf, Datas, ForSinkOf, DataOf
      <3>4. x \in DataOf(s) => DataUnderWay(s) /\ (OneData(s) => ~DataUnderWay(s)')
        BY <3>2 DEF FirstOf, DataUnderWay, OneData
      <3>5. DataWaits(s)' => DataWaits(s) \/ x \in DataOf(s)
        BY <2>4, <2>a, <3>3 DEF DataWaits
      <3> QED
        BY <2>1, <2>2, <3>1, <3>4, <3>5 DEF Token, Loaded, Acked
    <2>5. CASE /\ ReceiverRoute(sd) /\ sd = SourceSide(s)
               /\ x.id = s /\ x \in [id : Streams, act : {"Ack", "SinkClosed"}, n : {0}]
               /\ ActionOf(x) \in SinkAction
               /\ srcRx'[s] = Append(srcRx[s], ActionOf(x)) /\ snkRx'[s] = snkRx[s]
      <3>1. DataWaits(s)' = DataWaits(s)
        BY <2>5 DEF DataWaits
      <3>2. FirstOf(x, Path(SinkSide(s)), Path(SinkSide(s))')
        BY <1>0, <2>5, TakesFirst
      <3> HIDE DEF x
      <3>3. ActionOf(x) \in {Ack} => x \in AckOf(s)
        BY <2>5 DEF ActionOf, Ack, AckOf
      <3>4. x \in AckOf(s) => AckUnderWay(s) /\ (OneAck(s) => ~AckUnderWay(s)')
        BY <3>2 DEF FirstOf, AckUnderWay, OneAck
      <3>5. AckWaits(s)' => AckWaits(s) \/ x \in AckOf(s)
        BY <2>5, <2>b, <3>3 DEF AckWaits
      <3> QED
        BY <2>1, <2>2, <3>1, <3>4, <3>5 DEF Token, Loaded, Acked
    <2>6. CASE \/ snkRx'[s] = Append(snkRx[s], SourceClosed) /\ srcRx'[s] = srcRx[s]
               \/ srcRx'[s] = Append(srcRx[s], SinkClosed) /\ snkRx'[s] = snkRx[s]
      <3>1. /\ SourceClosed \in SourceAction /\ SourceClosed \notin Datas
            /\ SinkClosed \in SinkAction /\ SinkClosed \notin {Ack}
        BY DEF SourceClosed, SourceAction, Datas, SinkClosed, SinkAction, Ack
      <3>2. (DataWaits(s)' => DataWaits(s)) /\ (AckWaits(s)' => AckWaits(s))
        BY <2>6, <2>a, <2>b, <3>1 DEF DataWaits, AckWaits
      <3> QED
        BY <2>1, <2>2, <3>2 DEF Token, Loaded, Acked
    <2> QED
      BY <1>0, <1>10, <2>3, <2>4, <2>5, <2>6, RoutedTo
  <1>11. CASE /\ src'[s] = src[s] /\ snk'[s] = snk[s] /\ out'[s] = out[s]
              /\ srcRx'[s] = srcRx[s] /\ snkRx'[s] = snkRx[s]
    <2>1. /\ DataWaits(s)' = DataWaits(s) /\ AckWaits(s)' = AckWaits(s)
          /\ Writing(s)' = Writing(s) /\ Acking(s)' = Acking(s)
      BY <1>11 DEF DataWaits, AckWaits, Writing, Acking
    <2>2. ~SourceSend(s) /\ ~SinkSend(s)
      BY <1>4, <1>5, <1>11
    <2> QED
      BY <1>2, <1>3, <1>11, <2>1, <2>2 DEF Token, Loaded, Acked
  <1> QED
    BY <1>0, <1>6, <1>7, <1>8, <1>9, <1>10, <1>11, StreamTurns

\* No token exists at first.
LEMMA TokenInit ==
    ASSUME Init, NEW s \in Streams
    PROVE  Token(s)
  <1> DEFINE x == StreamMsg("Stderr", SourceClosed)
  <1>1. SourceSide(s) \in Sides /\ SinkSide(s) \in Sides
    BY SideFacts
  <1>2. x \notin DataOf(s) /\ x \notin AckOf(s)
    BY DEF StreamMsg, SourceClosed, DataOf, AckOf
  <1> HIDE DEF x
  <1>3. \A C : ~Has(<<>>, C) /\ (Has(<<x>>, C) <=> x \in C)
    BY EmptyOrder, OneOrder
  <1>4. \A sd \in Sides : Path(sd) = <<>> \/ Path(sd) = <<x>>
    BY InitPath DEF x
  <1>5. ~DataUnderWay(s) /\ ~AckUnderWay(s)
    BY <1>1, <1>2, <1>3, <1>4 DEF DataUnderWay, AckUnderWay
  <1>6. srcRx[s] = <<>> /\ snkRx[s] = <<>> /\ snk[s].pc = "recv" /\ src[s].pc # "panicked"
    BY DEF Init, SinkNew, SourceNew
  <1>7. ~DataWaits(s) /\ ~Writing(s) /\ ~Acking(s) /\ ~AckWaits(s)
    BY <1>6, EmptyOrder DEF DataWaits, Writing, Acking, AckWaits
  <1> QED
    BY <1>5, <1>6, <1>7 DEF Token, Loaded, Acked

-----------------------------------------------------------------------------
(* Finished.                                                               *)

\* serve() stops waiting for the child only once the child is gone.
ChildGone == serve.pc # "wait" => child # Running

\* It is waited for, or killed.
LEMMA ChildGoneNext == Inv /\ ChildGone /\ [Next]_vars => ChildGone'
  <1> SUFFICES ASSUME Inv, ChildGone, [Next]_vars PROVE ChildGone'
    OBVIOUS
  <1>1. UNCHANGED <<child, serve>> => ChildGone'
    BY DEF ChildGone
  <1>2. ChildExit => ChildGone'
    BY StatusFacts DEF ChildExit, ChildGone
  <1>3. CASE ServeStep
    <2>1. CASE ServeWait
      BY <2>1 DEF ServeWait, ChildGone
    <2>2. CASE ServeKill
      BY <2>2 DEF ServeKill, ChildGone, SigKill, Running
    <2>3. CASE ServeSinkClosed \/ ServeExit \/ ServeJoin
      <3>1. UNCHANGED child /\ serve.pc # "wait"
        BY <2>3 DEF ServeSinkClosed, ServeExit, ServeJoin
      <3> QED
        BY <3>1 DEF ChildGone
    <2> QED
      BY <1>3, <2>1, <2>2, <2>3 DEF ServeStep
  <1>4. UNCHANGED vars \/ UNCHANGED serverVars => UNCHANGED <<child, serve>>
    BY DEF vars, serverVars
  <1>5. \A sd \in Sides : ReceiverStep(sd) => UNCHANGED <<child, serve>>
    BY ReceiverFrames
  <1> QED
    BY <1>1, <1>2, <1>3, <1>4, <1>5, TaskFrames, WindowFrames, SenderFrames, ClientFrames
       DEF Next, Terminated

\* The tokens of the streams, and the end of the session.
Tokens == Order /\ ChildGone /\ \A s \in Streams : Token(s)

\* The tokens are kept.
LEMMA TokensNext == Tokens /\ [Next]_vars => Tokens'
  <1>1. Tokens /\ [Next]_vars => \A s \in Streams : Token(s)'
    BY TokenNext DEF Tokens, Order
  <1>2. Tokens /\ [Next]_vars => ChildGone'
    BY ChildGoneNext DEF Tokens, Order, Ending
  <1> QED
    BY <1>1, <1>2, OrderNext DEF Tokens

\* No token is under way at the start.
LEMMA TokensInit == Init => Tokens
  <1>1. Init => ChildGone
    BY DEF Init, ChildGone
  <1> QED
    BY <1>1, OrderInit, TokenInit DEF Tokens

\* In every reachable state each stream has one token at most.
THEOREM TokensInvariance == Spec => []Tokens
  BY TokensInit, TokensNext, PTL DEF Spec

\* When a side has received Finished, its peer has nothing more to say; and when the
\* client has, both sides have closed every stream and the child is gone.
THEOREM FinishedIsLastCorrect == Spec => []FinishedIsLast
  <1>1. Tokens => FinishedIsLast
    <2> SUFFICES ASSUME Tokens PROVE FinishedIsLast
      OBVIOUS
    <2>1. FinishOrder /\ ChildGone /\ \A s \in Streams : src[s].pc # "panicked"
      BY DEF Tokens, Order, Ending, Token
    <2>2. ASSUME NEW sd \in Sides, sender[sd].pc = "done"
          PROVE  TxDropped(sd) /\ queue[sd] = <<>>
      BY <2>1, <2>2 DEF FinishOrder, Drained
    <2>3. ASSUME NEW sd \in Sides, Informed(sd)
          PROVE  /\ sender[Peer(sd)].pc = "done" /\ TxDropped(Peer(sd))
                 /\ net[Peer(sd)] = <<>> /\ queue[Peer(sd)] = <<>>
      BY <2>1, <2>2, <2>3, SideFacts DEF FinishOrder
    <2>4. ASSUME Informed("client"), NEW sd \in Sides
          PROVE  TxDropped(sd) /\ queue[sd] = <<>>
      <3>1. Informed("server")
        BY <2>1, <2>4 DEF FinishOrder
      <3>2. \E other \in Sides : sd = Peer(other) /\ Informed(other)
        BY <2>4, <3>1 DEF Sides, Peer
      <3> QED
        BY <2>3, <3>2
    <2>5. ASSUME NEW sd \in Sides, TxDropped(sd)
          PROVE  /\ \A s \in Sources(sd) : src[s].pc \in {"done", "failed"}
                 /\ \A s \in Sinks(sd) : snk[s].pc \in {"done", "failed"}
      BY <2>1, <2>5, SideFacts DEF TxDropped, SourceEnded, SinkEnded
    <2>6. TxDropped("server") => child # Running
      BY <2>1 DEF TxDropped, ChildGone
    <2>7. "server" \in Sides
      BY DEF Sides
    <2> QED
      BY <2>3, <2>4, <2>5, <2>6, <2>7 DEF FinishedIsLast, Informed
  <1> QED
    BY <1>1, TokensInvariance, PTL

-----------------------------------------------------------------------------
(* What is delivered.                                                      *)

SinkClosedOf(s) == [id : {s}, act : {"SinkClosed"}, n : Nat]

\* The connection is up, and neither the client's receiver nor the sink has failed.
Sound(s) == conn = "up" /\ receiver["client"].pc # "failed" /\ snk[s].pc # "failed"

\* The packets that the source has read and the sink has not written.
Pending(s) == IF src[s].pc = "send" \/ Loaded(s) THEN 1 ELSE 0

\* An output is told to close by its source, and that closes at the end of its
\* input or when the sink has found its pipe broken; until then every packet but
\* the one under way has been written.
Delivers(s) ==
    /\ Closing(s) => src[s].pc = "done"
    /\ HasSource(s) /\ src[s].pc \in {"close", "done"} => src[s].n = Packets[s] \/ snk[s].closed
    /\ Has(srcRx[s], {SinkClosed}) \/ Has(Path("client"), SinkClosedOf(s)) \/ snk[s].pc = "notify"
         => snk[s].closed
    /\ snk[s].pc \in {"shutdown", "done"} => ~DataWaits(s)
    /\ ~snk[s].closed => src[s].n = Len(out[s]) + Pending(s)

\* As long as the connection is up, what is on the way stays there until the receiver
\* takes it off.
LEMMA WayStays ==
    ASSUME Ending, [Next]_vars, conn' = "up", NEW e \in Sides, NEW C, Has(Path(e), C)
    PROVE  \/ Has(Path(e)', C)
           \/ ReceiverRoute(Peer(e)) /\ receiver[Peer(e)].msg[1] \in C
           \/ ReceiverRecv(Peer(e)) /\ \E m \in MainMsgs(e) : m \in C
  <1>0. LinkTypes /\ FailedIsDown /\ Inv
    BY DEF Ending, Inv
  <1>1. conn = "up"
    BY <1>0, EndsStay DEF Inv
  <1> DEFINE p == Path(e)
             r == Path(e)'
             S == Msgs(e)
  <1>2. p \in Seq(S)
    BY <1>0, PathTypes
  <1>3. ASSUME NEW m \in S, Appended(r, p, m)
        PROVE  Has(r, C)
    <2> HIDE DEF p, r, S
    <2>1. Has(r, C) <=> Has(p, C) \/ m \in C
      BY <1>2, <1>3, AppendOrder
    <2> QED
      BY <2>1 DEF p
  <1>4. ASSUME NEW sd \in Sides, ReceiverStep(sd), ~Has(r, C)
        PROVE  \/ ReceiverRoute(Peer(e)) /\ receiver[Peer(e)].msg[1] \in C
               \/ ReceiverRecv(Peer(e)) /\ \E m \in MainMsgs(e) : m \in C
    <2>1. r # p
      BY <1>4
    <2>2. sd = Peer(e) /\ Peer(sd) = e
      BY <1>0, <1>4, <2>1, PathReceiver, SideFacts
    <2>3. ~ReceiverError(sd)
      BY <1>0, <1>1 DEF ReceiverError, FailedIsDown
    <2>4. \/ ReceiverRoute(sd)
          \/ ReceiverRecv(sd) /\ Head(net[e]) \in MainMsgs(e)
      BY <1>0, <1>4, <2>1, <2>2, <2>3, PathReceiver
    <2>5. Head(net[e]) \in MainMsgs(e) => Head(net[e]).id \notin Streams
      BY DEF MainMsgs, Finished, Exit, WindowSizeChange, Streams
    <2>6. \/ ReceiverRoute(sd) /\ FirstOf(receiver[sd].msg[1], p, r)
          \/ /\ ReceiverRecv(sd) /\ Head(net[e]) \in MainMsgs(e)
             /\ FirstOf(Head(net[e]), p, r)
      BY <2>2, <2>4, <2>5, TakesFirst
    <2>7. ASSUME NEW x, FirstOf(x, p, r)
          PROVE  x \in C
      <3> HIDE DEF p, r
      <3>1. Has(p, C)
        BY DEF p
      <3> QED
        BY <1>4, <2>7, <3>1 DEF FirstOf
    <2> QED
      BY <2>2, <2>6, <2>7
  <1>5. \/ r = p \/ conn' # "up" \/ \E sd \in Sides : ReceiverStep(sd)
        \/ \E m \in S : Appended(r, p, m)
    BY PathStep
  <1> QED
    BY <1>3, <1>4, <1>5

\* How the packet under way moves, as long as the connection is up.
LEMMA DataMoves ==
    ASSUME Ending, [Next]_vars, conn' = "up", NEW s \in Streams
    PROVE  /\ DataUnderWay(s)' => DataUnderWay(s) \/ (SourceSend(s) /\ src[s].pc = "send")
           /\ DataUnderWay(s) =>
                \/ DataUnderWay(s)'
                \/ ReceiverRoute(SinkSide(s)) /\ receiver[SinkSide(s)].msg[1] \in DataOf(s)
           /\ SourceSend(s) /\ src[s].pc = "send" => DataUnderWay(s)'
  <1> DEFINE e == SourceSide(s)
  <1>0. /\ e \in Sides /\ Peer(e) = SinkSide(s) /\ LinkTypes /\ Inv
        /\ src[s] \in SourceState /\ s # "main"
    BY SideFacts DEF Ending, Inv, TaskTypes, Streams
  <1>1. DataUnderWay(s)' => DataUnderWay(s) \/ (SourceSend(s) /\ src[s].pc = "send")
    BY TokenWay
  <1>2. ASSUME DataUnderWay(s), ~DataUnderWay(s)'
        PROVE  ReceiverRoute(Peer(e)) /\ receiver[Peer(e)].msg[1] \in DataOf(s)
    <2>1. \A m \in MainMsgs(e) : m \notin DataOf(s)
      BY <1>0 DEF MainMsgs, Finished, Exit, WindowSizeChange, DataOf
    <2>2. Has(Path(e), DataOf(s)) /\ ~Has(Path(e)', DataOf(s))
      BY <1>2 DEF DataUnderWay
    <2> QED
      BY <1>0, <2>1, <2>2, WayStays
  <1>3. ASSUME SourceSend(s), src[s].pc = "send"
        PROVE  DataUnderWay(s)'
    <2> DEFINE m == StreamMsg(s, SourceMsg(src[s]))
               D == DataOf(s)
               p == Path(e)
               r == Path(e)'
               S == Msgs(e)
    <2>1. Enqueue(e, m) /\ SourceSending(src[s])
      BY <1>3 DEF SourceSend
    <2>2. m \in S
      BY <1>0, <2>1, TaskMsgs DEF Msgs
    <2>3. m \in D
      BY <1>0, <1>3 DEF StreamMsg, SourceMsg, Data, DataOf, SourceState
    <2>4. conn = "up"
      BY <1>0, EndsStay DEF Inv
    <2>5. p \in Seq(S)
      BY <1>0, PathTypes
    <2> HIDE DEF m, S
    <2>6. Appended(r, p, m)
      BY <1>0, <2>1, <2>2, <2>4, PathEnqueue DEF S
    <2> HIDE DEF D, p, r
    <2>7. Has(r, D)
      BY <2>2, <2>3, <2>5, <2>6, AppendOrder
    <2> QED
      BY <2>7 DEF r, D, DataUnderWay
  <1> QED
    BY <1>0, <1>1, <1>2, <1>3

\* Only an output's sink says from the client that it is closed.
LEMMA AddsClosed ==
    ASSUME Inv, NEW s \in Streams, NEW m \in SinkClosedOf(s), Adds("client", m)
    PROVE  SinkSend(s) /\ snk[s].pc = "notify"
  <1>1. m.id = s /\ m.act = "SinkClosed" /\ s # "main"
    BY DEF SinkClosedOf, Streams
  <1>2. \A t \in Streams : StreamMsg(t, SourceMsg(src[t])).act \in {"Data", "SourceClosed"}
    BY DEF StreamMsg, SourceMsg, Data, SourceClosed
  <1>3. PICK t \in Streams : SinkSend(t) /\ m = StreamMsg(t, SinkMsg(snk[t]))
    BY <1>1, <1>2 DEF Adds, Finished, WindowSizeChange
  <1>4. t = s
    BY <1>1, <1>3 DEF StreamMsg
  <1>5. snk[s].pc # "ack"
    BY <1>1, <1>3, <1>4 DEF StreamMsg, SinkMsg, Ack
  <1> QED
    BY <1>3, <1>4, <1>5 DEF SinkSend, SinkSending

\* A sink that has found its pipe broken does not forget it, and it only tells the
\* source once it has.
LEMMA SinkMoves ==
    ASSUME Inv, [Next]_vars, NEW s \in Streams
    PROVE  /\ snk[s].closed => snk'[s].closed
           /\ snk'[s].pc = "notify" => snk[s].pc = "notify" \/ snk'[s].closed
  <1>0. snk[s] \in SinkState /\ DOMAIN snk = Streams
    BY DEF Inv, TaskTypes
  <1>1. CASE SinkTake(s)
    <2>1. \/ snk'[s] = SinkRecv(snk[s], Head(snkRx[s]))
          \/ snk'[s] = SinkRecvNone(snk[s])
      BY <1>0, <1>1 DEF SinkTake
    <2>2. ASSUME NEW a
          PROVE  LET t == SinkRecv(snk[s], a) IN
                 t.closed = snk[s].closed /\ (t.pc = "notify" => t.closed)
      BY <1>0 DEF SinkRecv, SinkState
    <2>3. LET t == SinkRecvNone(snk[s]) IN t.closed = snk[s].closed /\ t.pc # "notify"
      BY <1>0 DEF SinkRecvNone, SinkState
    <2> QED
      BY <2>1, <2>2, <2>3
  <1>2. CASE SinkWrite(s)
    <2>1. PICK res \in WriteResults[s] : snk'[s] = SinkIo(snk[s], res)
      BY <1>0, <1>2 DEF SinkWrite
    <2>2. CASE res = "ok"
      BY <1>0, <2>1, <2>2 DEF SinkIo, SinkState
    <2>3. CASE res = "broken"
      BY <1>0, <2>1, <2>3 DEF SinkIo, SinkState
    <2>4. CASE res # "ok" /\ res # "broken"
      BY <1>0, <2>1, <2>4 DEF SinkIo, SinkState
    <2> QED
      BY <2>2, <2>3, <2>4
  <1>3. CASE SinkSend(s) \/ SinkFinish(s)
    <2>1. snk'[s] = SinkSent(snk[s]) \/ snk'[s] = SinkShutdown(snk[s])
      BY <1>0, <1>3 DEF SinkSend, SinkFinish
    <2> QED
      BY <1>0, <2>1 DEF SinkSent, SinkShutdown, SinkState
  <1>4. CASE snk'[s] = snk[s]
    BY <1>4
  <1> QED
    BY <1>1, <1>2, <1>3, <1>4, StreamTurns

\* What is sound has been so, and no receiver shuts down meanwhile.
LEMMA SoundStays ==
    ASSUME Ending, [Next]_vars, NEW s \in Streams, Sound(s)'
    PROVE  /\ Sound(s) /\ conn' = "up"
           /\ \A sd \in Sides :
                /\ ~ReceiverError(sd) /\ ~ReceiverShutdown(sd) /\ ~ReceiverShutdownEnd(sd)
                /\ ~receiver[sd].failed
  <1>1. /\ conn # "up" => conn' # "up"
        /\ \A sd \in Sides : ReceiverEnded(sd) => receiver'[sd] = receiver[sd]
        /\ SinkEnded(snk[s]) => snk'[s] = snk[s]
    BY EndsStay DEF Ending, Inv
  <1>2. "client" \in Sides /\ conn' = "up" /\ conn = "up"
    BY <1>1 DEF Sides, Sound
  <1>3. Sound(s)
    BY <1>1, <1>2 DEF Sound, ReceiverEnded, SinkEnded
  <1>4. ASSUME NEW sd \in Sides
        PROVE  /\ ~ReceiverError(sd) /\ ~ReceiverShutdown(sd) /\ ~ReceiverShutdownEnd(sd)
               /\ ~receiver[sd].failed
    BY <1>2 DEF Ending, FailedIsDown, ReceiverError, ReceiverShutdown, ReceiverShutdownEnd
  <1> QED
    BY <1>2, <1>3, <1>4

\* The sides of an output.
LEMMA OutputSides ==
    ASSUME NEW s \in Sinks("client")
    PROVE  /\ s \in Streams /\ SinkSide(s) = "client" /\ SourceSide(s) = "server"
           /\ "client" \in Sides /\ "server" \in Sides
           /\ Peer("client") = "server" /\ Peer("server") = "client"
  BY DEF Sinks, SinkSide, SourceSide, Peer, Sides

\* A client that has been told that the server is finished has closed its sinks.
LEMMA InformedEnds ==
    ASSUME Ending, Informed("client"), NEW s \in Sinks("client")
    PROVE  SinkEnded(snk[s])
  <1>1. sender["client"].pc = "done"
    BY DEF Ending, FinishOrder, Sides, Peer
  <1>2. TxDropped("client")
    BY <1>1 DEF Ending, FinishOrder, Drained, Sides
  <1> QED
    BY <1>2 DEF TxDropped

\* An output closes because its source has.
LEMMA OutputCloses ==
    ASSUME Ending, [Next]_vars, NEW s \in Sinks("client"), CloseOrder(s), Sound(s)',
           Closing(s) => src[s].pc = "done", Closing(s)'
    PROVE  src'[s].pc = "done"
  <1>0. /\ s \in Streams /\ SinkSide(s) = "client" /\ SourceSide(s) = "server" /\ Inv
        /\ "client" \in Sides /\ Peer("client") = "server"
    BY OutputSides DEF Ending
  <1>1. /\ Sound(s) /\ ~ReceiverShutdown("client") /\ ~receiver["client"].failed
    BY <1>0, SoundStays
  <1>2. src[s].pc = "done" => src'[s].pc = "done"
    BY <1>0, EndsStay DEF Inv, SourceEnded
  <1>3. CASE Closing(s)
    BY <1>2, <1>3
  <1>4. CASE ~Closing(s)
    <2>1. ~ReceiverEnded("client")
      <3> SUFFICES ASSUME ReceiverEnded("client") PROVE FALSE
        OBVIOUS
      <3>1. Informed("client")
        BY <1>1 DEF ReceiverEnded, Informed, Sound
      <3>2. SinkEnded(snk[s]) /\ snk[s].pc # "failed"
        BY <1>1, <3>1, InformedEnds DEF Sound
      <3> QED
        BY <1>4, <3>2 DEF SinkEnded, Closing
    <2>2. ReceiverRoute("client") /\ receiver["client"].msg[1] \in CloseOf(s)
      BY <1>0, <1>1, <1>4, <2>1, ClosingBegins
    <2>3. FirstOf(receiver["client"].msg[1], Path("server"), Path("server")')
      BY <1>0, <2>2, TakesFirst
    <2>4. Has(Path("server"), CloseOf(s))
      BY <2>2, <2>3 DEF FirstOf
    <2> QED
      BY <1>0, <1>2, <2>4 DEF CloseOrder
  <1> QED
    BY <1>3, <1>4

\* The source of an output ends with its input, or because the sink is closed.
LEMMA OutputEnds ==
    ASSUME Ending, [Next]_vars, NEW s \in Sinks("client"), Delivers(s), HasSource(s),
           src'[s].pc \in {"close", "done"}
    PROVE  src'[s].n = Packets[s] \/ snk'[s].closed
  <1>0. /\ s \in Streams /\ Inv
        /\ src[s] \in SourceState /\ srcRx[s] \in Seq(SinkAction) /\ Len(srcRx[s]) <= ChanCap
        /\ DOMAIN src = Streams
    BY OutputSides DEF Ending, Inv, TaskTypes
  <1>1. snk[s].closed => snk'[s].closed
    BY <1>0, SinkMoves
  <1>2. src[s].pc \in {"close", "done"} => src[s].n = Packets[s] \/ snk[s].closed
    BY DEF Delivers
  <1>3. CASE SourceIn(s)
    <2>1. src'[s].pc # "send"
      OBVIOUS
    <2>2. EndOfInput(s)
      BY <1>0, <1>3, <2>1 DEF SourceIn, ReadPacket, SourceRead
    <2> QED
      BY <1>0, <2>2 DEF EndOfInput, SourceBreak, SourceState
  <1>4. CASE SourceTake(s)
    <2>1. CASE srcRx[s] # <<>>
      <3> DEFINE h == Head(srcRx[s])
      <3>1. h \in SinkAction /\ \A C : Has(srcRx[s], C) <=> h \in C
        BY <1>0, <2>1, OneInChannel
      <3>2. src'[s] = SourceRecv(src[s], h)
        BY <1>0, <1>4, <2>1 DEF SourceTake
      <3> HIDE DEF h
      <3>3. h = Ack => src'[s].pc \notin {"close", "done"}
        BY <1>0, <3>2 DEF SourceRecv, SourceState, Ack, SinkClosed
      <3>4. h \in {SinkClosed}
        BY <3>1, <3>3 DEF SinkAction
      <3> QED
        BY <1>1, <3>1, <3>4 DEF Delivers
    <2>2. CASE srcRx[s] = <<>>
      <3>1. src'[s] = SourceRecvNone(src[s])
        BY <1>0, <1>4, <2>2 DEF SourceTake
      <3> QED
        BY <1>0, <3>1 DEF SourceRecvNone, SourceState
    <2> QED
      BY <2>1, <2>2
  <1>5. CASE SourceSend(s)
    <2>1. src'[s] = SourceSent(src[s]) /\ SourceSending(src[s])
      BY <1>0, <1>5 DEF SourceSend
    <2>2. src[s].pc = "close" /\ src'[s].n = src[s].n
      BY <1>0, <2>1 DEF SourceSent, SourceSending, SourceState
    <2> QED
      BY <1>1, <1>2, <2>2
  <1>6. CASE src'[s] = src[s]
    BY <1>1, <1>2, <1>6
  <1> QED
    BY <1>0, <1>3, <1>4, <1>5, <1>6, StreamTurns

\* The server only hears that an output is closed when it is.
LEMMA OutputClosed ==
    ASSUME Ending, [Next]_vars, NEW s \in Sinks("client"), Delivers(s), Sound(s)'
    PROVE  (\/ Has(srcRx[s], {SinkClosed}) \/ Has(Path("client"), SinkClosedOf(s))
            \/ snk[s].pc = "notify")' => snk'[s].closed
  <1>0. /\ s \in Streams /\ Inv /\ SinkSide(s) = "client" /\ SourceSide(s) = "server"
        /\ "client" \in Sides /\ "server" \in Sides /\ Peer("server") = "client"
        /\ srcRx[s] \in Seq(SinkAction) /\ Len(srcRx[s]) <= ChanCap /\ DOMAIN srcRx = Streams
    BY OutputSides DEF Ending, Inv, TaskTypes
  <1>1. /\ snk[s].closed => snk'[s].closed
        /\ snk'[s].pc = "notify" => snk[s].pc = "notify" \/ snk'[s].closed
    BY <1>0, SinkMoves
  <1>2. Has(srcRx[s], {SinkClosed}) \/ Has(Path("client"), SinkClosedOf(s)) \/ snk[s].pc = "notify"
          => snk[s].closed
    BY DEF Delivers
  <1>3. snk'[s].pc = "notify" => snk'[s].closed
    BY <1>1, <1>2
  <1>4. ASSUME Has(Path("client")', SinkClosedOf(s)) PROVE snk'[s].closed
    <2>1. Has(Path("client"), SinkClosedOf(s)) \/ \E m \in SinkClosedOf(s) : Adds("client", m)
      BY <1>0, <1>4, WayChanges
    <2>2. Has(Path("client"), SinkClosedOf(s)) \/ snk[s].pc = "notify"
      BY <1>0, <2>1, AddsClosed
    <2> QED
      BY <1>1, <1>2, <2>2
  <1>5. ASSUME Has(srcRx'[s], {SinkClosed}) PROVE snk'[s].closed
    <2>1. CASE srcRx'[s] = srcRx[s]
      BY <1>1, <1>2, <1>5, <2>1
    <2>2. CASE SourceTake(s)
      <3>1. srcRx[s] # <<>> => srcRx'[s] = <<>>
        BY <1>0, <2>2, OneInChannel DEF SourceTake
      <3>2. srcRx[s] = <<>> => srcRx'[s] = srcRx[s]
        BY <2>2 DEF SourceTake
      <3> QED
        BY <1>5, <2>1, <3>1, <3>2, EmptyOrder
    <2>3. ASSUME NEW sd \in Sides, ReceiverStep(sd), srcRx'[s] # srcRx[s]
          PROVE  snk'[s].closed
      <3> DEFINE x == receiver[sd].msg[1]
      <3>1. /\ ReceiverRoute(sd) /\ sd = "server" /\ x.id = s
            /\ x \in [id : Streams, act : {"Ack", "SinkClosed"}, n : {0}]
            /\ ActionOf(x) \in SinkAction /\ srcRx'[s] = Append(srcRx[s], ActionOf(x))
        BY <1>0, <2>3, RoutedTo, SoundStays
      <3>2. FirstOf(x, Path("client"), Path("client")')
        BY <1>0, <3>1, TakesFirst
      <3> HIDE DEF x
      <3>3. Has(srcRx[s], {SinkClosed}) \/ ActionOf(x) \in {SinkClosed}
        BY <1>0, <1>5, <3>1, LastFacts
      <3>4. ActionOf(x) \in {SinkClosed} => x \in SinkClosedOf(s)
        BY <3>1 DEF ActionOf, SinkClosed, SinkClosedOf
      <3>5. x \in SinkClosedOf(s) => Has(Path("client"), SinkClosedOf(s))
        BY <3>2 DEF FirstOf
      <3> QED
        BY <1>1, <1>2, <3>3, <3>4, <3>5
    <2>4. SourceIn(s) => srcRx'[s] = srcRx[s]
      BY DEF SourceIn, ReadPacket, EndOfInput
    <2> QED
      BY <1>0, <2>1, <2>2, <2>3, <2>4, StreamTurns
  <1> QED
    BY <1>3, <1>4, <1>5

\* An output that closes has no packet left in its channel.
LEMMA OutputDrained ==
    ASSUME Ending, [Next]_vars, NEW s \in Sinks("client"), CloseOrder(s), Delivers(s), Sound(s)',
           snk'[s].pc \in {"shutdown", "done"}
    PROVE  ~DataWaits(s)'
  <1>0. /\ s \in Streams /\ Inv /\ SinkSide(s) = "client" /\ SourceSide(s) = "server"
        /\ "client" \in Sides /\ Peer("client") = "server"
        /\ snk[s] \in SinkState /\ DOMAIN snk = Streams
        /\ snkRx[s] \in Seq(SourceAction) /\ Len(snkRx[s]) <= ChanCap /\ DOMAIN snkRx = Streams
    BY OutputSides DEF Ending, Inv, TaskTypes
  <1>1. snk[s].pc \in {"shutdown", "done"} => ~DataWaits(s)
    BY DEF Delivers
  <1>2. snkRx'[s] = snkRx[s] => DataWaits(s)' = DataWaits(s)
    BY DEF DataWaits
  <1>3. CASE snk'[s] = snk[s] /\ snkRx'[s] = snkRx[s]
    BY <1>1, <1>2, <1>3
  <1>4. CASE SinkTake(s)
    <2>1. snkRx[s] # <<>> => snkRx'[s] = <<>>
      BY <1>0, <1>4, OneInChannel DEF SinkTake
    <2>2. snkRx[s] = <<>> => snkRx'[s] = <<>>
      BY <1>4 DEF SinkTake
    <2> QED
      BY <2>1, <2>2, EmptyOrder DEF DataWaits
  <1>5. CASE SinkFinish(s)
    <2>1. snk[s].pc = "shutdown" /\ snkRx' = snkRx
      BY <1>5 DEF SinkFinish
    <2> QED
      BY <1>1, <1>2, <2>1
  <1>6. ~SinkWrite(s)
    <2> SUFFICES ASSUME SinkWrite(s) PROVE FALSE
      OBVIOUS
    <2>1. snk[s].pc \in {"write", "flush"} /\ \E res : snk'[s] = SinkIo(snk[s], res)
      BY <1>0 DEF SinkWrite
    <2> QED
      BY <1>0, <2>1 DEF SinkIo, SinkState
  <1>7. ~SinkSend(s)
    BY <1>0 DEF SinkSend, SinkSent, SinkState
  <1>8. ASSUME NEW sd \in Sides, ReceiverStep(sd), snk' = snk
        PROVE  ~DataWaits(s)'
    <2> DEFINE x == receiver[sd].msg[1]
    <2>1. Closing(s)
      BY <1>8 DEF Closing
    <2>2. snkRx'[s] = snkRx[s]
      <3> SUFFICES ASSUME snkRx'[s] # snkRx[s] PROVE FALSE
        OBVIOUS
      <3>1. ReceiverRoute(sd) /\ sd = "client" /\ x \in ForSinkOf(s)
        BY <1>0, <1>8, RoutedTo, SoundStays
      <3>2. ~Has(Path("server"), ForSinkOf(s))
        BY <1>0, <2>1, <3>1 DEF CloseOrder, Routing, ReceiverRoute
      <3>3. FirstOf(x, Path("server"), Path("server")')
        BY <1>0, <3>1, TakesFirst
      <3> HIDE DEF x
      <3> QED
        BY <3>1, <3>2, <3>3 DEF FirstOf
    <2> QED
      BY <1>1, <1>2, <1>8, <2>2
  <1> QED
    BY <1>0, <1>3, <1>4, <1>5, <1>6, <1>7, <1>8, StreamTurns

\* What the sinks have written are packets.
Outs == out \in [Streams -> Seq(Nat)]

\* They write one at a time.
LEMMA OutsNext == Inv /\ Outs /\ [Next]_vars => Outs'
  <1> SUFFICES ASSUME Inv, Outs, [Next]_vars PROVE Outs'
    OBVIOUS
  <1>1. ASSUME NEW t \in Streams, SinkWrite(t)
        PROVE  Outs'
    <2>1. out' = out \/ out' = [out EXCEPT ![t] = Append(@, snk[t].n)]
      BY <1>1 DEF SinkWrite
    <2>2. snk[t].n \in Nat
      BY DEF Inv, TaskTypes, SinkState
    <2>3. out[t] \in Seq(Nat)
      BY DEF Outs
    <2>4. Append(out[t], snk[t].n) \in Seq(Nat)
      BY <2>2, <2>3
    <2> QED
      BY <2>1, <2>4 DEF Outs
  <1>2. ASSUME NEW t \in Streams, SourceIn(t) \/ SourceStep(t) \/ SinkStep(t)
        PROVE  out' = out
    BY <1>2 DEF SourceIn, SourceStep, ReadPacket, EndOfInput, SourceSend, SourceTake,
                SinkStep, SinkTake, SinkSend, SinkFinish
  <1>3. UNCHANGED vars \/ UNCHANGED streamVars => out' = out
    BY DEF vars, streamVars
  <1>4. \A sd \in Sides : ReceiverStep(sd) => out' = out
    BY ReceiverFrames
  <1>5. out' = out => Outs'
    BY DEF Outs
  <1> QED
    BY <1>1, <1>2, <1>3, <1>4, <1>5, WindowFrames, SenderFrames, ServerFrames, ClientFrames
       DEF Next, Terminated

\* Until its pipe is found broken, an output has written every packet that its source
\* has read, but for the one under way.
LEMMA OutputCounts ==
    ASSUME Ending, [Next]_vars, NEW s \in Sinks("client"), Token(s), Outs, Delivers(s),
           Sound(s)', ~snk'[s].closed
    PROVE  src'[s].n = Len(out'[s]) + Pending(s)'
  <1> DEFINE P == src[s].pc = "send" \/ Loaded(s)
             Q == src'[s].pc = "send" \/ Loaded(s)'
             Goal == src'[s].n = Len(out'[s]) + Pending(s)'
             x == receiver["client"].msg[1]
  <1>a. SUFFICES Goal
    OBVIOUS
  <1>0. /\ s \in Streams /\ Inv /\ SinkSide(s) = "client" /\ SourceSide(s) = "server"
        /\ "client" \in Sides /\ Peer("client") = "server"
        /\ snk[s] \in SinkState /\ DOMAIN snk = Streams
        /\ src[s] \in SourceState /\ DOMAIN src = Streams
        /\ snkRx[s] \in Seq(SourceAction) /\ Len(snkRx[s]) <= ChanCap /\ DOMAIN snkRx = Streams
        /\ out[s] \in Seq(Nat) /\ DOMAIN out = Streams
    BY OutputSides DEF Ending, Inv, TaskTypes, Outs
  <1>1. /\ ~snk[s].closed /\ conn' = "up"
        /\ src[s].n = Len(out[s]) + (IF P THEN 1 ELSE 0)
    BY <1>0, SinkMoves, SoundStays DEF Delivers, Pending
  <1>2. Goal <=> src'[s].n = Len(out'[s]) + (IF Q THEN 1 ELSE 0)
    BY DEF Pending
  <1>3. Loaded(s)' <=> DataUnderWay(s)' \/ DataWaits(s)' \/ Writing(s)'
    BY DEF Loaded
  <1> HIDE DEF x, Goal
  <1>4. ASSUME src'[s].n = src[s].n, out'[s] = out[s], Q <=> P
        PROVE  Goal
    BY <1>1, <1>2, <1>4
  <1>5. /\ DataUnderWay(s)' => DataUnderWay(s) \/ (SourceSend(s) /\ src[s].pc = "send")
        /\ DataUnderWay(s) => DataUnderWay(s)' \/ (ReceiverRoute("client") /\ x \in DataOf(s))
        /\ SourceSend(s) /\ src[s].pc = "send" => DataUnderWay(s)'
    BY <1>0, <1>1, DataMoves DEF x
  <1>6. SourceSend(s) => src'[s].pc # src[s].pc
    BY <1>0 DEF SourceSend, SourceSending, SourceSent, SourceState
  <1>7. SinkSend(s) => snk'[s].pc # snk[s].pc
    BY <1>0 DEF SinkSend, SinkSending, SinkSent, SinkState
  <1>8. ReceiverRoute("client") => src' = src /\ snk' = snk
    BY <1>0, ReceiverFrames DEF ReceiverStep
  <1>9. /\ snkRx'[s] = snkRx[s] => DataWaits(s)' = DataWaits(s)
        /\ snk'[s] = snk[s] => Writing(s)' = Writing(s)
        /\ Writing(s) <=> snk[s].pc = "write"
        /\ Writing(s)' <=> snk'[s].pc = "write"
    BY DEF DataWaits, Writing
  <1>10. UNCHANGED linkVars => DataUnderWay(s)' = DataUnderWay(s)
    <2>1. UNCHANGED linkVars => Path("server")' = Path("server")
      BY <1>0, SideFacts, PathSame DEF linkVars
    <2> QED
      BY <1>0, <2>1 DEF DataUnderWay
  <1>11. CASE SourceIn(s) /\ UNCHANGED <<snk, snkRx, out, linkVars>>
    <2>1. ~Loaded(s) /\ ~Loaded(s)' /\ src[s].pc = "select"
      <3>1. src[s].pc = "select"
        BY <1>11 DEF SourceIn, ReadPacket, EndOfInput
      <3>2. ~Loaded(s)
        BY <3>1 DEF Token
      <3> QED
        BY <1>3, <1>9, <1>10, <1>11, <3>1, <3>2 DEF Loaded
    <2>2. CASE ReadPacket(s)
      <3>1. src'[s].n = src[s].n + 1 /\ src'[s].pc = "send"
        BY <1>0, <2>2 DEF ReadPacket, SourceRead
      <3>2. src[s].n = Len(out[s]) /\ Len(out[s]) \in Nat
        BY <1>0, <1>1, <2>1
      <3> QED
        BY <1>2, <1>11, <3>1, <3>2
    <2>3. CASE EndOfInput(s)
      <3>1. src'[s].n = src[s].n /\ src'[s].pc = "close"
        BY <1>0, <2>3 DEF EndOfInput, SourceBreak, SourceState
      <3> QED
        BY <1>4, <1>11, <2>1, <3>1
    <2> QED
      BY <1>11, <2>2, <2>3 DEF SourceIn
  <1>12. CASE SourceTake(s) /\ UNCHANGED <<snk, snkRx, out, linkVars>>
    <2>1. Loaded(s)' <=> Loaded(s)
      BY <1>3, <1>9, <1>10, <1>12 DEF Loaded
    <2>2. /\ src[s].pc \in {"select", "ack"}
          /\ (\E a : src'[s] = SourceRecv(src[s], a)) \/ src'[s] = SourceRecvNone(src[s])
      BY <1>0, <1>12 DEF SourceTake, SourceListening
    <2>3. src'[s].n = src[s].n /\ src'[s].pc # "send"
      <3>1. ASSUME NEW a
            PROVE  LET t == SourceRecv(src[s], a) IN t.n = src[s].n /\ t.pc # "send"
        BY <1>0 DEF SourceRecv, SourceState
      <3>2. LET t == SourceRecvNone(src[s]) IN t.n = src[s].n /\ t.pc # "send"
        BY <1>0 DEF SourceRecvNone, SourceState
      <3> QED
        BY <2>2, <3>1, <3>2
    <2> QED
      BY <1>4, <1>12, <2>1, <2>2, <2>3
  <1>13. CASE SourceSend(s) /\ UNCHANGED <<srcRx, snk, snkRx, out>>
    <2>1. src'[s] = SourceSent(src[s]) /\ src[s].pc \in {"send", "close"}
      BY <1>0, <1>13 DEF SourceSend, SourceSending
    <2>2. src'[s].n = src[s].n /\ src'[s].pc # "send"
      BY <1>0, <2>1 DEF SourceSent, SourceState
    <2>3. CASE src[s].pc = "send"
      BY <1>3, <1>4, <1>5, <1>13, <2>2, <2>3
    <2>4. CASE src[s].pc = "close"
      <3>1. DataUnderWay(s)' <=> DataUnderWay(s)
        BY <1>5, <1>6, <1>8, <1>13, <2>4
      <3>2. Loaded(s)' <=> Loaded(s)
        BY <1>3, <1>9, <1>13, <3>1 DEF Loaded
      <3> QED
        BY <1>4, <1>13, <2>2, <2>4, <3>2
    <2> QED
      BY <2>1, <2>3, <2>4
  <1>14. CASE (SinkTake(s) \/ SinkFinish(s)) /\ UNCHANGED <<src, srcRx, linkVars>>
    <2>1. out' = out /\ ~Writing(s)
      BY <1>9, <1>14 DEF SinkTake, SinkFinish
    <2>2. CASE SinkTake(s) /\ snkRx[s] # <<>>
      <3> DEFINE h == Head(snkRx[s])
      <3>1. h \in SourceAction /\ Tail(snkRx[s]) = <<>> /\ (DataWaits(s) <=> h \in Datas)
        BY <1>0, <2>2, OneInChannel DEF DataWaits
      <3>2. snk'[s] = SinkRecv(snk[s], h) /\ snkRx'[s] = Tail(snkRx[s])
        BY <1>0, <2>2 DEF SinkTake
      <3> HIDE DEF h
      <3>3. ~DataWaits(s)'
        BY <3>1, <3>2, EmptyOrder DEF DataWaits
      <3>4. h \in Datas <=> h.act # "SourceClosed"
        BY <3>1 DEF SourceAction, Datas
      <3>5. snk'[s].pc = "write" <=> h.act # "SourceClosed"
        BY <1>0, <1>1, <3>2 DEF SinkRecv, SinkState
      <3>6. Loaded(s)' <=> Loaded(s)
        BY <1>3, <1>9, <1>10, <1>14, <2>1, <3>1, <3>3, <3>4, <3>5 DEF Loaded
      <3> QED
        BY <1>4, <1>14, <2>1, <3>6
    <2>3. CASE (SinkTake(s) /\ snkRx[s] = <<>>) \/ SinkFinish(s)
      <3>1. snkRx' = snkRx /\ snk'[s].pc \in {"shutdown", "done"}
        BY <1>0, <2>3 DEF SinkTake, SinkFinish, SinkRecvNone, SinkShutdown, SinkState
      <3>2. Loaded(s)' <=> Loaded(s)
        BY <1>3, <1>9, <1>10, <1>14, <2>1, <3>1 DEF Loaded
      <3> QED
        BY <1>4, <1>14, <2>1, <3>2
    <2> QED
      BY <1>14, <2>2, <2>3
  <1>15. CASE SinkWrite(s) /\ UNCHANGED <<src, srcRx, linkVars>>
    <2>1. PICK res \in WriteResults[s] :
            /\ snk[s].pc \in {"write", "flush"} /\ snkRx' = snkRx
            /\ snk' = [snk EXCEPT ![s] = SinkIo(@, res)]
            /\ out' = IF snk[s].pc = "write" /\ res = "ok"
                      THEN [out EXCEPT ![s] = Append(@, snk[s].n)]
                      ELSE out
      BY <1>15 DEF SinkWrite
    <2>2. snk'[s] = SinkIo(snk[s], res)
      BY <1>0, <2>1
    <2>3. snk'[s].pc # "failed"
      BY DEF Sound
    <2>4. res = "ok"
      <3>1. res = "broken" => snk'[s].closed
        BY <1>0, <2>2 DEF SinkIo, SinkState
      <3>2. res # "ok" /\ res # "broken" => snk'[s].pc = "failed"
        BY <1>0, <2>2 DEF SinkIo, SinkState
      <3> QED
        BY <2>3, <3>1, <3>2
    <2>5. snk'[s].pc = IF snk[s].pc = "write" THEN "ack" ELSE "recv"
      BY <1>0, <2>2, <2>4 DEF SinkIo, SinkState
    <2>6. CASE snk[s].pc = "write"
      <3>1. Writing(s) /\ ~Writing(s)'
        BY <1>9, <2>5, <2>6
      <3>2. ~DataUnderWay(s) /\ ~DataWaits(s) /\ P /\ src[s].pc # "send"
        BY <3>1 DEF Token, Loaded
      <3>3. ~Q
        BY <1>3, <1>9, <1>10, <1>15, <2>1, <3>1, <3>2
      <3>4. out'[s] = Append(out[s], snk[s].n)
        BY <1>0, <2>1, <2>4, <2>6
      <3>5. snk[s].n \in Nat
        BY <1>0 DEF SinkState
      <3>6. Len(out'[s]) = Len(out[s]) + 1 /\ Len(out[s]) \in Nat
        BY <1>0, <3>4, <3>5
      <3>7. src[s].n = Len(out[s]) + 1
        BY <1>1, <3>2
      <3>8. src'[s].n = Len(out'[s])
        BY <1>15, <3>6, <3>7
      <3> QED
        BY <1>2, <3>3, <3>6, <3>8
    <2>7. CASE snk[s].pc = "flush"
      <3>1. ~Writing(s) /\ ~Writing(s)' /\ out' = out
        BY <1>9, <2>1, <2>5, <2>7
      <3>2. Loaded(s)' <=> Loaded(s)
        BY <1>3, <1>9, <1>10, <1>15, <2>1, <3>1 DEF Loaded
      <3> QED
        BY <1>4, <1>15, <3>1, <3>2
    <2> QED
      BY <2>1, <2>6, <2>7
  <1>16. CASE SinkSend(s) /\ UNCHANGED <<src, srcRx, snkRx, out>>
    <2>1. ~Writing(s)
      BY <1>9, <1>16 DEF SinkSend, SinkSending
    <2>2. ~Writing(s)'
      BY <1>0, <1>9, <1>16 DEF SinkSend, SinkSending, SinkSent, SinkState
    <2>3. DataUnderWay(s)' <=> DataUnderWay(s)
      BY <1>5, <1>6, <1>7, <1>8, <1>16
    <2>4. Loaded(s)' <=> Loaded(s)
      BY <1>3, <1>9, <1>16, <2>1, <2>2, <2>3 DEF Loaded
    <2> QED
      BY <1>4, <1>16, <2>4
  <1>17. ASSUME NEW sd \in Sides, ReceiverStep(sd)
         PROVE  Goal
    <2>1. UNCHANGED <<src, snk, out>>
      BY <1>17, ReceiverFrames
    <2>2. CASE ReceiverRoute("client") /\ x \in DataOf(s)
      <3>1. DataUnderWay(s)
        BY <1>0, <2>2, TakesFirst DEF FirstOf, DataUnderWay, x
      <3>2. ForSink(x) /\ x.id = s /\ ActionOf(x) \in Datas
        BY <2>2 DEF DataOf, ForSink, ActionOf, Datas
      <3>3. receiver'["client"].pc # "failed"
        BY DEF Sound
      <3>4. snkRx'[s] = Append(snkRx[s], ActionOf(x))
        <4>1. DOMAIN receiver = Sides /\ receiver["client"] \in ReceiverState("client")
          BY <1>0 DEF Inv, LinkTypes, Way
        <4>2. \/ snkRx' = [snkRx EXCEPT ![x.id] = Append(@, ActionOf(x))]
              \/ receiver' = [[receiver EXCEPT !["client"].pc = "recv", !["client"].msg = <<>>]
                                EXCEPT !["client"].pc = "failed"]
          BY <2>2, <3>2 DEF ReceiverRoute, x
        <4>3. snkRx' = [snkRx EXCEPT ![x.id] = Append(@, ActionOf(x))]
          BY <1>0, <3>3, <4>1, <4>2 DEF ReceiverState
        <4> QED
          BY <1>0, <3>2, <4>3
      <3>5. ActionOf(x) \in SourceAction
        BY <3>2 DEF Datas, SourceAction
      <3>6. DataWaits(s)'
        BY <1>0, <3>2, <3>4, <3>5, LastFacts DEF DataWaits
      <3> QED
        BY <1>3, <1>4, <2>1, <3>1, <3>6 DEF Loaded
    <2>3. CASE ~(ReceiverRoute("client") /\ x \in DataOf(s))
      <3>1. DataUnderWay(s)' <=> DataUnderWay(s)
        BY <1>5, <1>6, <2>1, <2>3
      <3>2. DataWaits(s)' <=> DataWaits(s)
        <4>1. CASE snkRx'[s] = snkRx[s]
          BY <1>9, <4>1
        <4>2. CASE snkRx'[s] # snkRx[s]
          <5>1. /\ ReceiverRoute("client") /\ x \in ForSinkOf(s) /\ ActionOf(x) \in SourceAction
                /\ snkRx'[s] = Append(snkRx[s], ActionOf(x))
            BY <1>0, <1>17, <4>2, RoutedTo, SoundStays DEF x
          <5>2. ActionOf(x) \notin Datas
            BY <2>3, <5>1 DEF ForSinkOf, DataOf, ActionOf, Datas
          <5> QED
            BY <1>0, <5>1, <5>2, LastFacts DEF DataWaits
        <4> QED
          BY <4>1, <4>2
      <3>3. Loaded(s)' <=> Loaded(s)
        BY <1>3, <1>9, <2>1, <3>1, <3>2 DEF Loaded
      <3> QED
        BY <1>4, <2>1, <3>3
    <2> QED
      BY <2>2, <2>3
  <1>18. CASE /\ src'[s] = src[s] /\ snk'[s] = snk[s] /\ out'[s] = out[s]
              /\ srcRx'[s] = srcRx[s] /\ snkRx'[s] = snkRx[s]
    <2>1. ReceiverRoute("client") => ReceiverStep("client")
      BY DEF ReceiverStep
    <2>2. CASE ReceiverRoute("client")
      BY <1>0, <1>17, <2>1, <2>2
    <2>3. CASE ~ReceiverRoute("client")
      <3>1. DataUnderWay(s)' <=> DataUnderWay(s)
        BY <1>5, <1>6, <1>18, <2>3
      <3>2. Loaded(s)' <=> Loaded(s)
        BY <1>3, <1>9, <1>18, <3>1 DEF Loaded
      <3> QED
        BY <1>4, <1>18, <3>2
    <2> QED
      BY <2>2, <2>3
  <1> QED
    BY <1>0, <1>11, <1>12, <1>13, <1>14, <1>15, <1>16, <1>17, <1>18, StreamTurns

\* What an output delivers is kept as long as nothing fails.
LEMMA DeliversNext ==
    ASSUME Tokens, Outs, [Next]_vars, NEW s \in Sinks("client"), Sound(s) => Delivers(s)
    PROVE  Sound(s)' => Delivers(s)'
  <1> SUFFICES ASSUME Sound(s)' PROVE Delivers(s)'
    OBVIOUS
  <1>1. s \in Streams /\ Ending /\ CloseOrder(s) /\ Token(s)
    BY OutputSides DEF Tokens, Order
  <1>2. Delivers(s)
    BY <1>1, SoundStays
  <1>3. Closing(s)' => src'[s].pc = "done"
    BY <1>1, <1>2, OutputCloses DEF Delivers
  <1>4. HasSource(s) /\ src'[s].pc \in {"close", "done"} => src'[s].n = Packets[s] \/ snk'[s].closed
    BY <1>1, <1>2, OutputEnds
  <1>5. (\/ Has(srcRx[s], {SinkClosed}) \/ Has(Path("client"), SinkClosedOf(s))
         \/ snk[s].pc = "notify")' => snk'[s].closed
    BY <1>1, <1>2, OutputClosed
  <1>6. snk'[s].pc \in {"shutdown", "done"} => ~DataWaits(s)'
    BY <1>1, <1>2, OutputDrained
  <1>7. ~snk'[s].closed => src'[s].n = Len(out'[s]) + Pending(s)'
    BY <1>1, <1>2, OutputCounts
  <1> QED
    BY <1>3, <1>4, <1>5, <1>6, <1>7 DEF Delivers

\* At the start there is nothing to deliver.
LEMMA DeliversInit ==
    ASSUME Init, NEW s \in Sinks("client")
    PROVE  Delivers(s)
  <1> DEFINE x == StreamMsg("Stderr", SourceClosed)
  <1>1. /\ s \in Streams /\ "client" \in Sides
        /\ snk[s] = SinkNew /\ srcRx[s] = <<>> /\ snkRx[s] = <<>> /\ out[s] = <<>>
        /\ src[s] = IF HasSource(s) THEN SourceNew ELSE [pc |-> "done", n |-> 0]
    BY OutputSides DEF Init
  <1>2. snk[s].pc = "recv" /\ src[s].n = 0 /\ (src[s].pc = "select" \/ ~HasSource(s))
        /\ src[s].pc \in {"select", "done"}
    BY <1>1 DEF SinkNew, SourceNew
  <1>3. ~Closing(s) /\ ~DataWaits(s) /\ ~Writing(s)
    BY <1>1, <1>2, EmptyOrder DEF Closing, DataWaits, Writing
  <1>4. ~Has(srcRx[s], {SinkClosed}) /\ ~Has(Path("client"), SinkClosedOf(s))
    <2>1. Path("client") = <<>>
      BY <1>1, InitPath
    <2> QED
      BY <1>1, <2>1, EmptyOrder
  <1>5. ~DataUnderWay(s)
    <2>1. x \notin DataOf(s)
      BY DEF StreamMsg, SourceClosed, DataOf
    <2> HIDE DEF x
    <2>2. ~Has(<<>>, DataOf(s)) /\ (Has(<<x>>, DataOf(s)) <=> x \in DataOf(s))
      BY EmptyOrder, OneOrder
    <2>3. Path("server") = <<>> \/ Path("server") = <<x>>
      BY InitPath DEF Sides, x
    <2> QED
      BY <2>1, <2>2, <2>3, OutputSides DEF DataUnderWay
  <1>6. Pending(s) = 0 /\ Len(out[s]) = 0
    BY <1>1, <1>2, <1>3, <1>5 DEF Pending, Loaded
  <1> QED
    BY <1>2, <1>3, <1>4, <1>6 DEF Delivers

-----------------------------------------------------------------------------
(* The end of the client.                                                  *)

\* main() waits for the tasks of the standard streams first; and only its end closes
\* the connection.
ClientEnd ==
    /\ client = "join" => StdioDone("client")
    /\ conn = "closed" => client \in {"ok", "err"}

\* It does so in this order.
LEMMA ClientEndNext == Inv /\ ClientEnd /\ [Next]_vars => ClientEnd'
  <1> SUFFICES ASSUME Inv, ClientEnd, [Next]_vars PROVE ClientEnd'
    OBVIOUS
  <1>1. StdioDone("client") => StdioDone("client")'
    <2>1. \A s \in Streams : /\ SourceEnded(src[s]) => src'[s] = src[s]
                             /\ SinkEnded(snk[s]) => snk'[s] = snk[s]
      BY EndsStay DEF Inv
    <2>2. Sources("client") \subseteq Streams /\ Sinks("client") \subseteq Streams
      BY DEF Sources, Sinks
    <2> QED
      BY <2>1, <2>2 DEF StdioDone, SourceEnded, SinkEnded
  <1>2. CASE UNCHANGED <<client, conn>>
    BY <1>1, <1>2 DEF ClientEnd
  <1>3. CASE ConnectionLost
    <2>1. conn = "up" /\ conn' = "down" /\ client' = client
      BY <1>3 DEF ConnectionLost, Disconnect, clientVars
    <2> QED
      BY <1>1, <2>1 DEF ClientEnd
  <1>4. CASE ClientStep
    <2>1. client \notin {"ok", "err"} /\ conn # "closed"
      BY <1>4 DEF ClientStep, ClientStatus, ClientStdio, ClientJoin, Alive, ClientEnd
    <2>2. \/ client' = "stdio" /\ conn' = conn
          \/ client' = "join" /\ StdioDone("client") /\ conn' = conn
          \/ client' \in {"ok", "err"}
      BY <1>4 DEF ClientStep, ClientStatus, ClientStdio, ClientJoin, ClientExits
    <2> QED
      BY <1>1, <2>1, <2>2 DEF ClientEnd
  <1>5. UNCHANGED vars \/ UNCHANGED <<clientVars, conn>> => UNCHANGED <<client, conn>>
    BY DEF vars, linkVars, clientVars
  <1>6. \A sd \in Sides : ReceiverStep(sd) => UNCHANGED <<client, conn>>
    BY ReceiverFrames
  <1> QED
    BY <1>2, <1>3, <1>4, <1>5, <1>6, TaskFrames, WindowFrames, SenderFrames, ServerFrames
       DEF Next, Terminated

\* A client that has been told that the server is finished has nothing more to get.
LEMMA NothingUnderWay ==
    ASSUME Ending, Informed("client")
    PROVE  Path("server") = <<>>
  <1>1. /\ "client" \in Sides /\ "server" \in Sides /\ Peer("client") = "server"
        /\ Peer("server") = "client" /\ LinkTypes
    BY DEF Sides, Peer, Ending, Inv
  <1>2. sender["server"].pc = "done" /\ net["server"] = <<>>
    BY <1>1 DEF Ending, FinishOrder
  <1>3. queue["server"] = <<>>
    BY <1>1, <1>2 DEF Ending, FinishOrder, Drained
  <1>4. sender["server"].msg = <<>> /\ receiver["client"].msg = <<>>
    <2>1. /\ sender["server"].msg \in Seq(Msgs("server")) /\ Len(sender["server"].msg) = 0
          /\ receiver["client"].msg \in Seq(StreamMsgs("server")) /\ Len(receiver["client"].msg) = 0
      BY <1>1, <1>2 DEF LinkTypes, Way, Informed, SenderState, ReceiverState
    <2> QED
      BY <2>1
  <1>5. Path("server") = <<>> \o <<>> \o (IF conn = "up" THEN <<>> \o <<>> ELSE <<>>)
    BY <1>1, <1>2, <1>3, <1>4 DEF Path, Held
  <1> QED
    BY <1>5

\* When the client ends in good order over a sound connection, its outputs are complete.
LEMMA CompleteAtEnd ==
    ASSUME Tokens, ClientEnd, NEW s \in Sinks("client"), Sound(s) => Delivers(s),
           client = "join", conn = "up", receiver["client"].pc = "done",
           HasSource(s), ~snk[s].closed
    PROVE  Len(out[s]) = Packets[s]
  <1>1. Ending /\ s \in Streams /\ SourceSide(s) = "server" /\ "client" \in Sides
    BY OutputSides DEF Tokens, Order
  <1>2. snk[s].pc = "done"
    BY DEF ClientEnd, StdioDone
  <1>3. Delivers(s)
    BY <1>2 DEF Sound
  <1>4. Informed("client")
    BY <1>1 DEF Informed, Ending, FailedIsDown
  <1>5. src[s].pc = "done"
    BY <1>2, <1>3 DEF Delivers, Closing
  <1>6. src[s].n = Packets[s]
    BY <1>3, <1>5 DEF Delivers
  <1>7. ~DataUnderWay(s)
    BY <1>1, <1>4, NothingUnderWay, EmptyOrder DEF DataUnderWay
  <1>8. ~DataWaits(s) /\ ~Writing(s)
    BY <1>2, <1>3 DEF Delivers, Writing
  <1>9. Pending(s) = 0
    BY <1>5, <1>7, <1>8 DEF Pending, Loaded
  <1>10. src[s].n = Len(out[s]) + 0
    BY <1>3, <1>9 DEF Delivers
  <1>11. src[s].n \in Nat
    BY <1>1 DEF Ending, Inv, TaskTypes, SourceState
  <1> QED
    BY <1>1, <1>6, <1>10, <1>11

\* The invariant of the outputs: what they deliver while nothing fails, and what they
\* have delivered when the client has ended.
Delivery ==
    /\ Tokens
    /\ Outs
    /\ ClientEnd
    /\ \A s \in Sinks("client") : Sound(s) => Delivers(s)
    /\ OutputDelivered

\* What has been delivered when the client ends stays so.
LEMMA DeliveredNext == Delivery /\ [Next]_vars => OutputDelivered'
  <1> SUFFICES ASSUME Delivery, [Next]_vars, client' = "ok", conn' = "closed",
                      NEW s \in Sinks("client"), HasSource(s), ~snk'[s].closed
               PROVE  Len(out'[s]) = Packets[s]
    BY DEF OutputDelivered, Sinks, HasSource
  <1>0. s \in Streams /\ SinkSide(s) = "client" /\ Inv /\ DOMAIN snk = Streams /\ DOMAIN out = Streams
    BY OutputSides DEF Delivery, Tokens, Order, Ending, Inv, TaskTypes, Outs
  <1>1. CASE client = "ok" /\ conn = "closed"
    <2>1. ~Alive("client")
      BY <1>1 DEF Alive
    <2>2. ~SinkTake(s) /\ ~SinkFinish(s) /\ ~SinkWrite(s) /\ ~SinkSend(s)
      BY <1>0, <2>1 DEF SinkTake, SinkFinish, SinkWrite, SinkSend
    <2>3. snk'[s] = snk[s] /\ out'[s] = out[s]
      BY <1>0, <2>2, StreamTurns
    <2>4. Len(out[s]) = Packets[s]
      BY <1>1, <2>3 DEF Delivery, OutputDelivered
    <2> QED
      BY <2>3, <2>4
  <1>2. CASE ~(client = "ok" /\ conn = "closed")
    <2>1. /\ client = "join" /\ conn = "up" /\ receiver["client"].pc = "done"
          /\ UNCHANGED <<snk, out>>
      <3>1. ~UNCHANGED <<client, conn>>
        BY <1>2
      <3>2. UNCHANGED vars \/ UNCHANGED <<clientVars, conn>> => UNCHANGED <<client, conn>>
        BY DEF vars, linkVars, clientVars
      <3>3. \A sd \in Sides : ReceiverStep(sd) => UNCHANGED <<client, conn>>
        BY ReceiverFrames
      <3>4. ~ConnectionLost
        BY DEF ConnectionLost, Disconnect
      <3>5. ClientStep
        BY <3>1, <3>2, <3>3, <3>4, TaskFrames, WindowFrames, SenderFrames, ServerFrames
           DEF Next, Terminated
      <3>6. client \notin {"ok", "err"}
        BY <3>5 DEF ClientStep, ClientStatus, ClientStdio, ClientJoin, Alive
      <3>7. conn # "closed"
        BY <3>6 DEF Delivery, ClientEnd
      <3>8. client = "join" /\ receiver["client"].pc = "done" /\ conn = "up"
        BY <3>5, <3>7 DEF ClientStep, ClientStatus, ClientStdio, ClientJoin, ClientExits
      <3>9. UNCHANGED streamVars
        BY <3>5, ClientFrames
      <3> QED
        BY <3>8, <3>9 DEF streamVars
    <2>2. Len(out[s]) = Packets[s]
      BY <2>1, CompleteAtEnd DEF Delivery
    <2> QED
      BY <2>1, <2>2
  <1> QED
    BY <1>1, <1>2

\* When a client ends with the status of the command and the connection did not fail,
\* its outputs have everything that the child and its descendants wrote.
THEOREM OutputDeliveredCorrect == Spec => []OutputDelivered
  <1>1. Init => Delivery
    <2> SUFFICES ASSUME Init PROVE Delivery
      OBVIOUS
    <2>1. Tokens
      BY TokensInit
    <2>2. Outs /\ ClientEnd /\ OutputDelivered
      BY DEF Init, Outs, ClientEnd, OutputDelivered
    <2> QED
      BY <2>1, <2>2, DeliversInit DEF Delivery
  <1>2. Delivery /\ [Next]_vars => Delivery'
    <2> SUFFICES ASSUME Delivery, [Next]_vars PROVE Delivery'
      OBVIOUS
    <2>1. Tokens' /\ Outs' /\ ClientEnd'
      BY TokensNext, OutsNext, ClientEndNext DEF Delivery, Tokens, Order, Ending
    <2>2. \A s \in Sinks("client") : Sound(s)' => Delivers(s)'
      BY DeliversNext DEF Delivery
    <2>3. \A s \in Sinks("client") : (Sound(s) => Delivers(s))'
      BY <2>2
    <2> QED
      BY <2>1, <2>3, DeliveredNext DEF Delivery, Sinks
  <1>3. Delivery => OutputDelivered
    BY DEF Delivery
  <1> QED
    BY <1>1, <1>2, <1>3, PTL DEF Spec

-----------------------------------------------------------------------------
(* Each standard stream is a Stream.                                       *)

\* The stream s as SessionStream.tla sees the standard input and output.
Of(s) == INSTANCE Stream WITH
    MaxPackets <- Packets[s],
    WriteResults <- IoResult,
    Faults <- {"link", "receiver"},
    src <- src[s], srcRx <- srcRx[s],
    snk <- snk[s], snkRx <- snkRx[s],
    out <- out[s],
    fwd <- Forward(s), back <- Backward(s),
    link <- Link,
    srcRcv <- ReceiverFor(SourceSide(s), s),
    snkRcv <- ReceiverFor(SinkSide(s), s),
    served <- Served(s)

SourceActs == {"Data", "SourceClosed"}
SinkActs == {"Ack", "SinkClosed"}

\* A message that arrives only if the connection is up.
SentOn(path, x) == IF Link = "up" THEN Append(path, x) ELSE path

\* What a way says to one task, when something is put on it.
LEMMA SaidMore ==
    ASSUME LinkTypes, NEW e \in Sides, NEW m \in Msgs(e), NEW s, NEW acts,
           Appended(Path(e)', Path(e), m)
    PROVE  Actions(Path(e)', s, acts) = IF m.id = s /\ m.act \in acts
                                        THEN Append(Actions(Path(e), s, acts), ActionOf(m))
                                        ELSE Actions(Path(e), s, acts)
  <1>1. PICK p \in Seq(Msgs(e)) : p = Path(e)
    BY PathTyped
  <1>2. PICK q : q = Path(e)'
    OBVIOUS
  <1>3. Appended(q, p, m)
    BY <1>1, <1>2
  <1>4. Actions(q, s, acts) = IF m.id = s /\ m.act \in acts
                              THEN Append(Actions(p, s, acts), ActionOf(m))
                              ELSE Actions(p, s, acts)
    BY <1>3, ActionsMove
  <1> QED
    BY <1>1, <1>2, <1>4

\* When its first message is taken.
LEMMA SaidLess ==
    ASSUME Inv, Inv', [Next]_vars, NEW e \in Sides, NEW m \in Msgs(e), NEW s, NEW acts,
           Taken(Path(e), m, Path(e)')
    PROVE  IF m.id = s /\ m.act \in acts
           THEN /\ Actions(Path(e), s, acts) # <<>>
                /\ Head(Actions(Path(e), s, acts)) = ActionOf(m)
                /\ Tail(Actions(Path(e), s, acts)) = Actions(Path(e)', s, acts)
           ELSE Actions(Path(e), s, acts) = Actions(Path(e)', s, acts)
  <1>1. PICK M : M = Msgs(e)'
    OBVIOUS
  <1>2. m \in M
    BY <1>1, KnownGrows DEF Inv
  <1>3. PICK p \in Seq(M) : p = Path(e)'
    BY <1>1, PathTypesAfter DEF Inv
  <1>4. PICK q : q = Path(e)
    OBVIOUS
  <1>5. Taken(q, m, p)
    BY <1>3, <1>4
  <1>6. Actions(q, s, acts) = IF m.id = s /\ m.act \in acts
                              THEN <<ActionOf(m)>> \o Actions(p, s, acts)
                              ELSE Actions(p, s, acts)
    BY <1>2, <1>5, ActionsMove
  <1>7. PICK A : A = ActionsIn(M)
    OBVIOUS
  <1>8. PICK a \in Seq(A), x \in A : a = Actions(p, s, acts) /\ x = ActionOf(m)
    <2>1. Actions(p, s, acts) \in Seq(A) /\ ActionOf(m) \in A
      BY <1>2, <1>7, ActionsMove DEF ActionsIn
    <2> QED
      BY <2>1
  <1>9. <<x>> \o a # <<>> /\ Head(<<x>> \o a) = x /\ Tail(<<x>> \o a) = a
    OBVIOUS
  <1> QED
    BY <1>3, <1>4, <1>6, <1>8, <1>9

\* What is said when a message is put into the queue.
LEMMA SaidEnqueue ==
    ASSUME LinkTypes, NEW e \in Sides, NEW m \in Msgs(e), Enqueue(e, m), NEW s \in Streams
    PROVE  /\ Forward(s)' = IF e = SourceSide(s) /\ m.id = s /\ m.act \in SourceActs
                            THEN SentOn(Forward(s), ActionOf(m)) ELSE Forward(s)
           /\ Backward(s)' = IF e = SinkSide(s) /\ m.id = s /\ m.act \in SinkActs
                             THEN SentOn(Backward(s), ActionOf(m)) ELSE Backward(s)
  <1>1. \A d \in Sides : d # e => Path(d)' = Path(d)
    BY PathEnqueue
  <1>2. ASSUME NEW acts
        PROVE  Actions(Path(e)', s, acts) = IF m.id = s /\ m.act \in acts
                                            THEN SentOn(Actions(Path(e), s, acts), ActionOf(m))
                                            ELSE Actions(Path(e), s, acts)
    <2>1. CASE conn = "up"
      <3>1. Appended(Path(e)', Path(e), m)
        BY <2>1, PathEnqueue
      <3>2. Actions(Path(e)', s, acts) = IF m.id = s /\ m.act \in acts
                                         THEN Append(Actions(Path(e), s, acts), ActionOf(m))
                                         ELSE Actions(Path(e), s, acts)
        BY <3>1, SaidMore
      <3> QED
        BY <2>1, <3>2 DEF SentOn, Link
    <2>2. CASE conn # "up"
      <3>1. Path(e)' = Path(e)
        BY <2>2, PathEnqueue
      <3> QED
        BY <2>2, <3>1 DEF SentOn, Link
    <2> QED
      BY <2>1, <2>2
  <1>3. SourceSide(s) \in Sides /\ SinkSide(s) \in Sides
    BY SideFacts
  <1>4. /\ Forward(s) = Actions(Path(SourceSide(s)), s, SourceActs)
        /\ Forward(s)' = Actions(Path(SourceSide(s))', s, SourceActs)
        /\ Backward(s) = Actions(Path(SinkSide(s)), s, SinkActs)
        /\ Backward(s)' = Actions(Path(SinkSide(s))', s, SinkActs)
    BY DEF Forward, Backward, SourceActs, SinkActs
  <1>5. CASE e = SourceSide(s)
    <2>1. e # SinkSide(s)
      BY <1>5, SideFacts
    <2> QED
      BY <1>1, <1>2, <1>3, <1>4, <1>5, <2>1
  <1>6. CASE e # SourceSide(s)
    <2>1. e = SinkSide(s)
      BY <1>6, SideFacts
    <2> QED
      BY <1>1, <1>2, <1>3, <1>4, <1>6, <2>1
  <1> QED
    BY <1>5, <1>6

-----------------------------------------------------------------------------
(* Routers.                                                                *)

\* What a receiver and serve() leave behind when they end: a receiver whose connection
\* was lost closes each task once, and a serve() that ends well has seen its tasks end.
RouterOrder ==
    /\ \A sd \in Sides :
         /\ receiver[sd].failed => receiver[sd].pc \in {"shutdown", "done"}
         /\ receiver[sd].failed /\ receiver[sd].pc = "done" => receiver[sd].todo = <<>>
         /\ \A s \in Streams : NoneAfter(receiver[sd].todo, {s}, {s})
    /\ serve.pc = "wait" => serve.status = NoStatus
    /\ serve.pc = "ok" => StdioDone("server")

\* A shutdown closes every task of the side, and each of them once.
LEMMA TodoOrder ==
    ASSUME NEW sd \in Sides, NEW p \in SetToSeqs(Sinks(sd)), NEW q \in SetToSeqs(Sources(sd))
    PROVE  /\ \A s \in Sinks(sd) \cup Sources(sd) : Has(p \o q, {s})
           /\ \A s \in Streams : NoneAfter(p \o q, {s}, {s})
  <1>1. ASSUME NEW T \in SUBSET Streams, NEW f \in SetToSeqs(T), NEW s \in Streams
        PROVE  /\ f \in Seq(Streams) /\ (Has(f, {s}) <=> s \in T)
               /\ NoneAfter(f, {s}, {s})
    <2>1. /\ f \in Seq(Streams)
          /\ f \in Injection(1..Len(f), T) /\ f \in Surjection(1..Len(f), T)
      BY <1>1, OrderedStreams
    <2>2. Has(f, {s}) <=> s \in T
      BY <2>1 DEF Has, Surjection, Injection
    <2>3. NoneAfter(f, {s}, {s})
      <3> SUFFICES ASSUME NEW i \in 1..Len(f), NEW j \in 1..Len(f), i < j, f[i] = s, f[j] = s
                   PROVE  FALSE
        BY DEF NoneAfter
      <3>1. i = j
        BY <2>1 DEF Injection, IsInjective
      <3> QED
        BY <3>1
    <2> QED
      BY <2>1, <2>2, <2>3
  <1>2. Sinks(sd) \in SUBSET Streams /\ Sources(sd) \in SUBSET Streams
    BY SideFacts
  <1>3. ASSUME NEW s \in Streams PROVE ~(s \in Sinks(sd) /\ s \in Sources(sd))
    BY SideFacts DEF Sinks, Sources
  <1>4. ASSUME NEW s \in Streams
        PROVE  /\ Has(p \o q, {s}) <=> s \in Sinks(sd) \/ s \in Sources(sd)
               /\ NoneAfter(p \o q, {s}, {s})
    <2>1. /\ p \in Seq(Streams) /\ (Has(p, {s}) <=> s \in Sinks(sd))
          /\ NoneAfter(p, {s}, {s})
      BY <1>1, <1>2
    <2>2. /\ q \in Seq(Streams) /\ (Has(q, {s}) <=> s \in Sources(sd))
          /\ NoneAfter(q, {s}, {s})
      BY <1>1, <1>2
    <2>3. /\ Has(p \o q, {s}) <=> Has(p, {s}) \/ Has(q, {s})
          /\ NoneAfter(p \o q, {s}, {s}) <=>
               NoneAfter(p, {s}, {s}) /\ NoneAfter(q, {s}, {s}) /\ (Has(p, {s}) => ~Has(q, {s}))
      BY <2>1, <2>2, ConcatOrder
    <2> QED
      BY <1>3, <2>1, <2>2, <2>3
  <1> QED
    BY <1>2, <1>4

\* What the steps of a receiver do to the tasks it still has to close.
LEMMA TodoTurns ==
    ASSUME LinkTypes, NEW sd \in Sides, ReceiverStep(sd)
    PROVE  \/ /\ ReceiverRecv(sd) \/ ReceiverRoute(sd)
              /\ receiver'[sd].todo = receiver[sd].todo
           \/ /\ ReceiverError(sd)
              /\ \A s \in Sinks(sd) \cup Sources(sd) : Has(receiver'[sd].todo, {s})
              /\ \A s \in Streams : NoneAfter(receiver'[sd].todo, {s}, {s})
           \/ /\ ReceiverShutdown(sd)
              /\ receiver[sd].todo # <<>>
              /\ receiver'[sd].todo = Tail(receiver[sd].todo)
           \/ /\ ReceiverShutdownEnd(sd)
              /\ receiver[sd].todo = <<>> /\ receiver'[sd].todo = <<>>
  <1>0. DOMAIN receiver = Sides /\ receiver[sd] \in ReceiverState(sd)
    BY DEF LinkTypes, Way
  <1>1. CASE ReceiverRecv(sd)
    BY <1>0, <1>1 DEF ReceiverRecv, ReceiverState
  <1>2. CASE ReceiverRoute(sd)
    <2>1. \/ receiver' = [receiver EXCEPT ![sd].pc = "recv", ![sd].msg = <<>>]
          \/ receiver' = [[receiver EXCEPT ![sd].pc = "recv", ![sd].msg = <<>>]
                            EXCEPT ![sd].pc = "failed"]
      BY <1>2 DEF ReceiverRoute
    <2> QED
      BY <1>0, <1>2, <2>1 DEF ReceiverState
  <1>3. CASE ReceiverError(sd)
    <2>1. PICK p \in SetToSeqs(Sinks(sd)), q \in SetToSeqs(Sources(sd)) :
            receiver' = [receiver EXCEPT ![sd].pc = "shutdown", ![sd].failed = TRUE,
                                         ![sd].todo = p \o q]
      BY <1>3 DEF ReceiverError
    <2>2. PICK todo : todo = p \o q
      OBVIOUS
    <2>3. receiver'[sd].todo = todo
      BY <1>0, <2>1, <2>2 DEF ReceiverState
    <2> QED
      BY <1>3, <2>2, <2>3, TodoOrder
  <1>4. CASE ReceiverShutdown(sd)
    BY <1>0, <1>4 DEF ReceiverShutdown, ReceiverState
  <1>5. CASE ReceiverShutdownEnd(sd)
    BY <1>0, <1>5 DEF ReceiverShutdownEnd, ReceiverState
  <1> QED
    BY <1>1, <1>2, <1>3, <1>4, <1>5 DEF ReceiverStep

\* Once the task of s is closed, nothing is left to do for it; the others wait.
LEMMA TodoTail ==
    ASSUME NEW q \in Seq(Streams), q # <<>>, NEW s \in Streams, NoneAfter(q, {s}, {s})
    PROVE  /\ Head(q) \in Streams
           /\ NoneAfter(Tail(q), {s}, {s})
           /\ Head(q) = s => Has(q, {s}) /\ ~Has(Tail(q), {s})
           /\ Head(q) # s => (Has(q, {s}) <=> Has(Tail(q), {s}))
  <1>1. PICK h \in Streams, t \in Seq(Streams) : h = Head(q) /\ t = Tail(q)
    BY TailFacts
  <1>2. Taken(q, h, t)
    BY <1>1, HeadFirst
  <1>3. /\ Has(q, {s}) <=> h \in {s} \/ Has(t, {s})
        /\ NoneAfter(q, {s}, {s}) <=> NoneAfter(t, {s}, {s}) /\ (h \in {s} => ~Has(t, {s}))
    BY <1>2, TakenOrder
  <1> QED
    BY <1>1, <1>3

\* Every step keeps the routers in order.
LEMMA RouterNext == Inv /\ RouterOrder /\ [Next]_vars => RouterOrder'
  <1> SUFFICES ASSUME Inv, RouterOrder, [Next]_vars PROVE RouterOrder'
    OBVIOUS
  <1> USE DEF Inv
  <1>1. ASSUME NEW sd \in Sides
        PROVE  /\ receiver'[sd].failed => receiver'[sd].pc \in {"shutdown", "done"}
               /\ receiver'[sd].failed /\ receiver'[sd].pc = "done" => receiver'[sd].todo = <<>>
               /\ \A s \in Streams : NoneAfter(receiver'[sd].todo, {s}, {s})
    <2>1. CASE receiver'[sd] = receiver[sd]
      BY <2>1 DEF RouterOrder
    <2>2. CASE ReceiverStep(sd)
      <3>1. CASE receiver'[sd].todo = receiver[sd].todo /\ (ReceiverRecv(sd) \/ ReceiverRoute(sd))
        BY <3>1, ReceiverStates DEF RouterOrder
      <3>2. CASE /\ ReceiverError(sd)
                 /\ \A s \in Streams : NoneAfter(receiver'[sd].todo, {s}, {s})
        BY <3>2, ReceiverStates
      <3>3. CASE /\ ReceiverShutdown(sd)
                 /\ receiver[sd].todo # <<>>
                 /\ receiver'[sd].todo = Tail(receiver[sd].todo)
        <4>1. PICK q \in Seq(Streams) : q = receiver[sd].todo
          BY DEF LinkTypes, Way, ReceiverState
        <4>2. \A s \in Streams : NoneAfter(Tail(q), {s}, {s})
          BY <3>3, <4>1, TodoTail DEF RouterOrder
        <4> QED
          BY <3>3, <4>1, <4>2, ReceiverStates
      <3>4. CASE /\ ReceiverShutdownEnd(sd)
                 /\ receiver[sd].todo = <<>> /\ receiver'[sd].todo = <<>>
        BY <3>4, ReceiverStates DEF RouterOrder
      <3> QED
        BY <2>2, <3>1, <3>2, <3>3, <3>4, TodoTurns
    <2>3. receiver'[sd] = receiver[sd] \/ ReceiverStep(sd)
      <3>1. CASE \E e \in Sides : ReceiverStep(e)
        <4>1. PICK e \in Sides : ReceiverStep(e)
          BY <3>1
        <4> QED
          BY <4>1, ReceiverAlone
      <3>2. CASE ~ \E e \in Sides : ReceiverStep(e)
        <4>1. \/ \E s \in Streams : SourceIn(s) \/ SourceStep(s) \/ SinkStep(s) \/ SinkWrite(s)
              \/ Resize \/ WindowStep
              \/ (\E e \in Sides : SenderStep(e)) \/ SenderNotified
              \/ ChildExit \/ ServeStep \/ ClientStep \/ ConnectionLost
              \/ UNCHANGED vars
          BY <3>2 DEF Next, Terminated
        <4> QED
          BY <4>1, TaskFrames, WindowFrames, SenderFrames, ServerFrames, ClientFrames
             DEF vars, linkVars
      <3> QED
        BY <3>1, <3>2
    <2> QED
      BY <2>1, <2>2, <2>3
  <1>2. \/ serve' = serve
        \/ serve.pc = "wait" /\ serve'.pc \notin {"wait", "ok"}
        \/ serve.pc # "wait" /\ serve'.pc \notin {"wait", "ok"}
        \/ serve.pc # "wait" /\ serve'.pc = "ok" /\ StdioDone("server") /\ UNCHANGED streamVars
    <2>1. CASE ServeStep
      <3>1. serve = [pc |-> serve.pc, status |-> serve.status]
        BY DEF MainTypes
      <3>2. CASE ServeWait \/ ServeKill \/ ServeSinkClosed \/ ServeExit
        BY <3>1, <3>2 DEF ServeWait, ServeKill, ServeSinkClosed, ServeExit
      <3>3. CASE ServeJoin
        BY <3>1, <3>3 DEF ServeJoin
      <3> QED
        BY <2>1, <3>2, <3>3 DEF ServeStep
    <2>2. CASE ~ServeStep
      <3>1. \/ \E s \in Streams : SourceIn(s) \/ SourceStep(s) \/ SinkStep(s) \/ SinkWrite(s)
            \/ Resize \/ WindowStep
            \/ (\E e \in Sides : SenderStep(e)) \/ SenderNotified
            \/ (\E e \in Sides : ReceiverStep(e))
            \/ ChildExit \/ ClientStep \/ ConnectionLost
            \/ UNCHANGED vars
        BY <2>2 DEF Next, Terminated
      <3>2. ChildExit => serve' = serve
        BY DEF ChildExit
      <3>3. serve' = serve
        BY <3>1, <3>2, TaskFrames, WindowFrames, SenderFrames, ReceiverFrames, ClientFrames
           DEF vars, serverVars
      <3> QED
        BY <3>3
    <2> QED
      BY <2>1, <2>2
  <1>3. StdioDone("server") => StdioDone("server")'
    BY SideFacts, EndsStay DEF StdioDone, Sources, Sinks, SourceEnded, SinkEnded
  <1> QED
    BY <1>1, <1>2, <1>3 DEF RouterOrder, StdioDone

\* At first no router has ended.
LEMMA RouterInit == Init => RouterOrder
  <1> SUFFICES ASSUME Init PROVE RouterOrder
    OBVIOUS
  <1>1. \A s \in Streams : NoneAfter(<<>>, {s}, {s})
    BY EmptyOrder
  <1> QED
    BY <1>1 DEF Init, RouterOrder

-----------------------------------------------------------------------------
(* The steps of the session, seen from one stream.                         *)

\* The state of the tasks of a stream, what is under way for them, and what the rest of
\* the session is to them.
TasksRest(s) == UNCHANGED <<src[s], srcRx[s], snk[s], snkRx[s], out[s]>>
WaysRest(s) == UNCHANGED <<Forward(s), Backward(s)>>
OthersRest(s) ==
    UNCHANGED <<Link, ReceiverFor(SourceSide(s), s), ReceiverFor(SinkSide(s), s), Served(s)>>

\* A step of the session is a step of the stream s, or none.
StepOf(s) == [Of(s)!Next]_(Of(s)!vars)

\* Nothing of the stream changes.
LEMMA StreamRests ==
    ASSUME NEW s, TasksRest(s), WaysRest(s), OthersRest(s)
    PROVE  StepOf(s)
  BY DEF StepOf, TasksRest, WaysRest, OthersRest, Of!vars

\* The tasks of the streams do not see the connection, the receivers and serve().
LEMMA OthersKept ==
    ASSUME UNCHANGED <<conn, receiver, serve>>, NEW s
    PROVE  OthersRest(s)
  BY DEF OthersRest, Link, ReceiverFor, Served

\* The ways are as before.
LEMMA WaysKept ==
    ASSUME NEW s \in Streams, \A e \in Sides : Path(e)' = Path(e)
    PROVE  WaysRest(s)
  BY SideFacts DEF WaysRest, Forward, Backward

\* Messages that are not for the stream say nothing to its tasks.
LEMMA WaysEnqueue ==
    ASSUME LinkTypes, NEW e \in Sides, NEW m \in Msgs(e), Enqueue(e, m),
           NEW s \in Streams, m.id # s
    PROVE  WaysRest(s)
  BY SaidEnqueue DEF WaysRest

\* What a task says is what arrives.
LEMMA SaidIs ==
    ASSUME NEW s \in Streams
    PROVE  /\ \A t \in SourceState :
                /\ ActionOf(StreamMsg(s, SourceMsg(t))) = SourceMsg(t)
                /\ StreamMsg(s, SourceMsg(t)).id = s
                /\ StreamMsg(s, SourceMsg(t)).act \in SourceActs
           /\ \A t \in SinkState :
                /\ ActionOf(StreamMsg(s, SinkMsg(t))) = SinkMsg(t)
                /\ StreamMsg(s, SinkMsg(t)).id = s
                /\ StreamMsg(s, SinkMsg(t)).act \in SinkActs
  <1>1. ASSUME NEW t \in SourceState
        PROVE  /\ ActionOf(StreamMsg(s, SourceMsg(t))) = SourceMsg(t)
               /\ StreamMsg(s, SourceMsg(t)).id = s
               /\ StreamMsg(s, SourceMsg(t)).act \in SourceActs
    BY DEF SourceMsg, Data, SourceClosed, StreamMsg, ActionOf, SourceActs
  <1>2. ASSUME NEW t \in SinkState
        PROVE  /\ ActionOf(StreamMsg(s, SinkMsg(t))) = SinkMsg(t)
               /\ StreamMsg(s, SinkMsg(t)).id = s
               /\ StreamMsg(s, SinkMsg(t)).act \in SinkActs
    BY DEF SinkMsg, Ack, SinkClosed, StreamMsg, ActionOf, SinkActs
  <1> QED
    BY <1>1, <1>2

\* A task that finds its channel without a sender has a router that tells it nothing any
\* more: after Finished from both sides there is no such task.
LEMMA RouterSilent ==
    ASSUME Ending, RouterOrder, NEW sd \in Sides, NEW s \in Streams, RouterDropped(sd),
           \/ s \in Sources(sd) /\ SourceListening(src[s])
           \/ s \in Sinks(sd) /\ snk[s].pc = "recv"
    PROVE  ReceiverFor(sd, s) \in {"gone", "failed"}
  <1>1. CASE receiver[sd].pc = "failed"
    BY <1>1 DEF ReceiverFor
  <1>2. CASE receiver[sd].pc = "done" /\ receiver[sd].failed
    <2>1. receiver[sd].todo = <<>>
      BY <1>2 DEF RouterOrder
    <2>2. ~ \E i \in 1..Len(<<>>) : <<>>[i] = s
      OBVIOUS
    <2> QED
      BY <1>2, <2>1, <2>2 DEF ReceiverFor
  <1>3. CASE Informed(sd)
    <2>1. ~SourceEnded(src[s]) \/ s \notin Sources(sd)
      BY DEF SourceEnded, SourceListening, Sources, Sinks, SinkSide, Peer, SourceSide
    <2>2. ~SinkEnded(snk[s]) \/ s \notin Sinks(sd)
      BY DEF SinkEnded, Sources, Sinks, SinkSide, Peer, SourceSide
    <2>3. ~TxDropped(sd)
      BY <2>1, <2>2 DEF TxDropped, SourceListening, SourceEnded, SinkEnded
    <2>4. CASE sd = "client"
      <3>1. Informed("server")
        BY <1>3, <2>4 DEF Ending, FinishOrder
      <3>2. sender["client"].pc = "done"
        BY <3>1 DEF Ending, FinishOrder, Sides, Peer
      <3>3. TxDropped("client")
        BY <3>2 DEF Ending, FinishOrder, Drained, Sides
      <3> QED
        BY <2>3, <2>4, <3>3
    <2>5. CASE sd = "server"
      <3>1. serve.pc \in {"ok", "err"}
        BY <2>5 DEF RouterDropped
      <3>2. serve.pc # "ok"
        BY <2>5 DEF RouterOrder, StdioDone, SourceListening
      <3> QED
        BY <1>3, <2>5, <3>1, <3>2 DEF ReceiverFor, Informed
    <2> QED
      BY <2>4, <2>5 DEF Sides
  <1> QED
    BY <1>1, <1>2, <1>3 DEF RouterDropped, ReceiverEnded, Informed

\* What a task of the stream says is on its way, as long as the connection is up.
LEMMA WaysSend ==
    ASSUME Inv, NEW s \in Streams
    PROVE  /\ Enqueue(SourceSide(s), StreamMsg(s, SourceMsg(src[s]))) =>
                Forward(s)' = SentOn(Forward(s), SourceMsg(src[s])) /\ UNCHANGED Backward(s)
           /\ Enqueue(SinkSide(s), StreamMsg(s, SinkMsg(snk[s]))) =>
                Backward(s)' = SentOn(Backward(s), SinkMsg(snk[s])) /\ UNCHANGED Forward(s)
  <1>1. src[s] \in SourceState /\ snk[s] \in SinkState /\ LinkTypes
    BY DEF Inv, TaskTypes
  <1>2. /\ StreamMsg(s, SourceMsg(src[s])) \in Msgs(SourceSide(s))
        /\ StreamMsg(s, SinkMsg(snk[s])) \in Msgs(SinkSide(s))
    BY <1>1, TaskMsgs DEF Msgs
  <1>3. SourceSide(s) \in Sides /\ SinkSide(s) \in Sides /\ SourceSide(s) # SinkSide(s)
    BY SideFacts
  <1>4. SourceActs \cap SinkActs = {}
    BY DEF SourceActs, SinkActs
  <1>5. ASSUME Enqueue(SourceSide(s), StreamMsg(s, SourceMsg(src[s])))
        PROVE  Forward(s)' = SentOn(Forward(s), SourceMsg(src[s])) /\ UNCHANGED Backward(s)
    BY <1>1, <1>2, <1>3, <1>5, SaidEnqueue, SaidIs
  <1>6. ASSUME Enqueue(SinkSide(s), StreamMsg(s, SinkMsg(snk[s])))
        PROVE  Backward(s)' = SentOn(Backward(s), SinkMsg(snk[s])) /\ UNCHANGED Forward(s)
    BY <1>1, <1>2, <1>3, <1>6, SaidEnqueue, SaidIs
  <1> QED
    BY <1>5, <1>6

\* A step of the source of a stream is that of its source.
LEMMA SourceSteps ==
    ASSUME Ending, RouterOrder, NEW s \in Streams, HasSource(s), SourceIn(s) \/ SourceStep(s)
    PROVE  StepOf(s)
  <1> USE DEF streamVars, linkVars
  <1>1. UNCHANGED <<conn, receiver, serve, net, sender>>
    BY TaskFrames DEF serverVars
  <1>2. OthersRest(s)
    BY <1>1, OthersKept
  <1>3. UNCHANGED queue => WaysRest(s)
    BY <1>1, PathSame, WaysKept
  <1>4. DOMAIN src = Streams /\ DOMAIN srcRx = Streams /\ Inv
    BY DEF Ending, Inv, TaskTypes
  <1>5. CASE ReadPacket(s)
    <2>1. /\ src[s].pc = "select" /\ src[s].n < Packets[s] /\ src'[s] = SourceRead(src[s])
          /\ UNCHANGED <<srcRx, snk, snkRx, out>> /\ WaysRest(s)
      BY <1>3, <1>4, <1>5 DEF ReadPacket
    <2>2. Of(s)!Read
      BY <1>2, <2>1 DEF Of!Read, Of!SourceRead, SourceRead, WaysRest, OthersRest
    <2> QED
      BY <2>2 DEF StepOf, Of!Next
  <1>6. CASE EndOfInput(s)
    <2>1. /\ src[s].pc = "select" /\ src'[s] = SourceBreak(src[s])
          /\ UNCHANGED <<srcRx, snk, snkRx, out>> /\ WaysRest(s)
      BY <1>3, <1>4, <1>6 DEF EndOfInput
    <2>2. Of(s)!EndOfInput
      BY <1>2, <2>1 DEF Of!EndOfInput, Of!SourceBreak, SourceBreak, WaysRest, OthersRest
    <2> QED
      BY <2>2 DEF StepOf, Of!Next
  <1>7. CASE SourceSend(s)
    <2>1. /\ SourceSending(src[s]) /\ src'[s] = SourceSent(src[s])
          /\ Enqueue(SourceSide(s), StreamMsg(s, SourceMsg(src[s])))
          /\ UNCHANGED <<srcRx, snk, snkRx, out>>
      BY <1>4, <1>7 DEF SourceSend
    <2>2. Forward(s)' = SentOn(Forward(s), SourceMsg(src[s])) /\ UNCHANGED Backward(s)
      BY <1>4, <2>1, WaysSend
    <2>3. Of(s)!SourceSend
      BY <1>2, <2>1, <2>2 DEF Of!SourceSend, Of!SourceSending, SourceSending, Of!Sent, SentOn,
         Of!SourceMsg, SourceMsg, Of!Data, Data, Of!SourceClosed, SourceClosed,
         Of!SourceSent, SourceSent, OthersRest
    <2> QED
      BY <2>3 DEF StepOf, Of!Next, Of!SourceStep
  <1>8. CASE SourceTake(s) /\ srcRx[s] # <<>>
    <2>1. /\ SourceListening(src[s]) /\ src'[s] = SourceRecv(src[s], Head(srcRx[s]))
          /\ srcRx'[s] = Tail(srcRx[s])
          /\ UNCHANGED <<snk, snkRx, out>> /\ WaysRest(s)
      BY <1>3, <1>4, <1>8 DEF SourceTake
    <2>2. Of(s)!SourceTake
      BY <1>2, <1>8, <2>1 DEF Of!SourceTake, Of!SourceListening, SourceListening,
         Of!SourceRecv, SourceRecv, Of!SinkClosed, SinkClosed, Of!Ack, Ack, WaysRest, OthersRest
    <2> QED
      BY <2>2 DEF StepOf, Of!Next, Of!SourceStep
  <1>9. CASE SourceTake(s) /\ srcRx[s] = <<>>
    <2>1. /\ SourceListening(src[s]) /\ src'[s] = SourceRecvNone(src[s])
          /\ RouterDropped(SourceSide(s))
          /\ UNCHANGED <<srcRx, snk, snkRx, out>> /\ WaysRest(s)
      BY <1>3, <1>4, <1>9 DEF SourceTake
    <2>2. ReceiverFor(SourceSide(s), s) \in {"gone", "failed"}
      <3>1. SourceSide(s) \in Sides /\ s \in Sources(SourceSide(s))
        BY SideFacts DEF Sources
      <3> QED
        BY <2>1, <3>1, RouterSilent
    <2>3. Of(s)!SourceNone
      BY <1>2, <1>9, <2>1, <2>2 DEF Of!SourceNone, Of!SourceListening, SourceListening,
         Of!SourceRecvNone, SourceRecvNone, Of!Silent, WaysRest, OthersRest
    <2> QED
      BY <2>3 DEF StepOf, Of!Next
  <1> QED
    BY <1>5, <1>6, <1>7, <1>8, <1>9 DEF SourceIn, SourceStep

\* A step of the sink of a stream is that of its sink.
LEMMA SinkSteps ==
    ASSUME Ending, Outs, RouterOrder, NEW s \in Streams, SinkStep(s) \/ SinkWrite(s)
    PROVE  StepOf(s)
  <1> USE DEF streamVars, linkVars
  <1>1. UNCHANGED <<conn, receiver, serve, net, sender>>
    BY TaskFrames DEF serverVars
  <1>2. OthersRest(s)
    BY <1>1, OthersKept
  <1>3. UNCHANGED queue => WaysRest(s)
    BY <1>1, PathSame, WaysKept
  <1>4. DOMAIN snk = Streams /\ DOMAIN snkRx = Streams /\ Inv
    BY DEF Ending, Inv, TaskTypes
  <1>5. CASE SinkTake(s) /\ snkRx[s] # <<>>
    <2>1. /\ snk[s].pc = "recv" /\ snk'[s] = SinkRecv(snk[s], Head(snkRx[s]))
          /\ snkRx'[s] = Tail(snkRx[s])
          /\ UNCHANGED <<src, srcRx, out>> /\ WaysRest(s)
      BY <1>3, <1>4, <1>5 DEF SinkTake
    <2>2. Of(s)!SinkTake
      BY <1>2, <1>5, <2>1 DEF Of!SinkTake, Of!SinkRecv, SinkRecv, WaysRest, OthersRest
    <2> QED
      BY <2>2 DEF StepOf, Of!Next, Of!SinkStep
  <1>6. CASE SinkTake(s) /\ snkRx[s] = <<>>
    <2>1. /\ snk[s].pc = "recv" /\ snk'[s] = SinkRecvNone(snk[s])
          /\ RouterDropped(SinkSide(s))
          /\ UNCHANGED <<src, srcRx, snkRx, out>> /\ WaysRest(s)
      BY <1>3, <1>4, <1>6 DEF SinkTake
    <2>2. ReceiverFor(SinkSide(s), s) \in {"gone", "failed"}
      <3>1. SinkSide(s) \in Sides /\ s \in Sinks(SinkSide(s))
        BY SideFacts DEF Sinks
      <3> QED
        BY <2>1, <3>1, RouterSilent
    <2>3. Of(s)!SinkNone
      BY <1>2, <1>6, <2>1, <2>2 DEF Of!SinkNone, Of!SinkRecvNone, SinkRecvNone, Of!Silent,
         WaysRest, OthersRest
    <2> QED
      BY <2>3 DEF StepOf, Of!Next
  <1>7. CASE SinkSend(s)
    <2>1. /\ SinkSending(snk[s]) /\ snk'[s] = SinkSent(snk[s])
          /\ Enqueue(SinkSide(s), StreamMsg(s, SinkMsg(snk[s])))
          /\ UNCHANGED <<src, srcRx, snkRx, out>>
      BY <1>4, <1>7 DEF SinkSend
    <2>2. Backward(s)' = SentOn(Backward(s), SinkMsg(snk[s])) /\ UNCHANGED Forward(s)
      BY <1>4, <2>1, WaysSend
    <2>3. Of(s)!SinkSend
      BY <1>2, <2>1, <2>2 DEF Of!SinkSend, Of!SinkSending, SinkSending, Of!Sent, SentOn,
         Of!SinkMsg, SinkMsg, Of!Ack, Ack, Of!SinkClosed, SinkClosed,
         Of!SinkSent, SinkSent, OthersRest
    <2> QED
      BY <2>3 DEF StepOf, Of!Next, Of!SinkStep
  <1>8. CASE SinkFinish(s)
    <2>1. /\ snk[s].pc = "shutdown" /\ snk'[s] = SinkShutdown(snk[s])
          /\ UNCHANGED <<src, srcRx, snkRx, out>> /\ WaysRest(s)
      BY <1>3, <1>4, <1>8 DEF SinkFinish
    <2>2. Of(s)!SinkFinish
      BY <1>2, <2>1 DEF Of!SinkFinish, Of!SinkShutdown, SinkShutdown, WaysRest, OthersRest
    <2> QED
      BY <2>2 DEF StepOf, Of!Next, Of!SinkStep
  <1>9. CASE SinkWrite(s)
    <2>1. PICK res \in WriteResults[s] :
            /\ snk' = [snk EXCEPT ![s] = SinkIo(@, res)]
            /\ out' = IF snk[s].pc = "write" /\ res = "ok"
                      THEN [out EXCEPT ![s] = Append(@, snk[s].n)]
                      ELSE out
      BY <1>9 DEF SinkWrite
    <2>2. /\ snk[s].pc \in {"write", "flush"} /\ snk'[s] = SinkIo(snk[s], res)
          /\ UNCHANGED <<src, srcRx, snkRx>> /\ WaysRest(s)
      BY <1>3, <1>4, <1>9, <2>1 DEF SinkWrite
    <2>3. out'[s] = IF snk[s].pc = "write" /\ res = "ok" THEN Append(out[s], snk[s].n)
                                                         ELSE out[s]
      BY <2>1 DEF Outs
    <2>4. res \in IoResult
      BY SessionAssumption
    <2>5. CASE snk[s].pc = "write"
      <3>1. Of(s)!Write(res)
        BY <1>2, <2>2, <2>3, <2>5 DEF Of!Write, Of!SinkIo, SinkIo, WaysRest, OthersRest
      <3> QED
        BY <2>4, <3>1 DEF StepOf, Of!Next, Of!SinkStep
    <2>6. CASE snk[s].pc = "flush"
      <3>1. Of(s)!Flush(res)
        BY <1>2, <2>2, <2>3, <2>6 DEF Of!Flush, Of!SinkIo, SinkIo, WaysRest, OthersRest
      <3> QED
        BY <2>4, <3>1 DEF StepOf, Of!Next, Of!SinkStep
    <2> QED
      BY <2>2, <2>5, <2>6
  <1> QED
    BY <1>5, <1>6, <1>7, <1>8, <1>9 DEF SinkStep

\* The tasks of another stream, the window_change task, the senders and the child are
\* nothing to a stream.
LEMMA StrangerSteps ==
    ASSUME Ending, NEW s \in Streams,
           \/ \E t \in Streams : /\ t # s
                                 /\ SourceIn(t) \/ SourceStep(t) \/ SinkStep(t) \/ SinkWrite(t)
           \/ Resize \/ WindowStep
           \/ (\E sd \in Sides : SenderStep(sd)) \/ SenderNotified
           \/ ChildExit \/ UNCHANGED vars
    PROVE  StepOf(s)
  <1> USE DEF streamVars, linkVars, serverVars
  <1>0. Inv /\ TaskTypes /\ LinkTypes
    BY DEF Ending, Inv
  <1>1. CASE \E t \in Streams : /\ t # s
                                /\ SourceIn(t) \/ SourceStep(t) \/ SinkStep(t) \/ SinkWrite(t)
    <2>1. PICK t \in Streams : /\ t # s
                               /\ SourceIn(t) \/ SourceStep(t) \/ SinkStep(t) \/ SinkWrite(t)
      BY <1>1
    <2>2. UNCHANGED <<conn, receiver, serve, net, sender>>
      BY <2>1, TaskFrames
    <2>3. OthersRest(s)
      BY <2>2, OthersKept
    <2>4. TasksRest(s)
      <3> USE <1>0 DEF TaskTypes, TasksRest
      <3>1. CASE SourceIn(t)
        BY <2>1, <3>1 DEF SourceIn, ReadPacket, EndOfInput
      <3>2. CASE SourceStep(t)
        BY <2>1, <3>2 DEF SourceStep, SourceSend, SourceTake
      <3>3. CASE SinkStep(t)
        BY <2>1, <3>3 DEF SinkStep, SinkTake, SinkSend, SinkFinish
      <3>4. CASE SinkWrite(t)
        BY <2>1, <3>4 DEF SinkWrite
      <3> QED
        BY <2>1, <3>1, <3>2, <3>3, <3>4
    <2>5. WaysRest(s)
      <3>1. CASE UNCHANGED queue
        BY <2>2, <3>1, PathSame, WaysKept
      <3>2. CASE Enqueue(SourceSide(t), StreamMsg(t, SourceMsg(src[t])))
        <4>1. /\ StreamMsg(t, SourceMsg(src[t])) \in Msgs(SourceSide(t))
              /\ StreamMsg(t, SourceMsg(src[t])).id # s /\ SourceSide(t) \in Sides
          BY <1>0, <2>1, TaskMsgs, SideFacts DEF Msgs, TaskTypes, StreamMsg
        <4> QED
          BY <1>0, <3>2, <4>1, WaysEnqueue
      <3>3. CASE Enqueue(SinkSide(t), StreamMsg(t, SinkMsg(snk[t])))
        <4>1. /\ StreamMsg(t, SinkMsg(snk[t])) \in Msgs(SinkSide(t))
              /\ StreamMsg(t, SinkMsg(snk[t])).id # s /\ SinkSide(t) \in Sides
          BY <1>0, <2>1, TaskMsgs, SideFacts DEF Msgs, TaskTypes, StreamMsg
        <4> QED
          BY <1>0, <3>3, <4>1, WaysEnqueue
      <3> QED
        BY <2>1, <3>1, <3>2, <3>3, TaskFrames
    <2> QED
      BY <2>3, <2>4, <2>5, StreamRests
  <1>2. CASE Resize \/ WindowStep
    <2>1. UNCHANGED <<streamVars, conn, receiver, serve, net, sender>>
      BY <1>2, WindowFrames
    <2>2. WaysRest(s)
      <3>1. CASE UNCHANGED queue
        BY <2>1, <3>1, PathSame, WaysKept
      <3>2. CASE Enqueue("client", WindowSizeChange(winch.n))
        <4>1. /\ "client" \in Sides /\ WindowSizeChange(winch.n) \in Msgs("client")
              /\ WindowSizeChange(winch.n).id # s
          BY DEF Ending, Inv, MainTypes, Sides, Msgs, MainMsgs, WindowSizeChange, Streams
        <4> QED
          BY <1>0, <3>2, <4>1, WaysEnqueue
      <3> QED
        BY <1>2, <3>1, <3>2, WindowFrames
    <2> QED
      BY <2>1, <2>2, OthersKept, StreamRests DEF TasksRest
  <1>3. CASE (\E sd \in Sides : SenderStep(sd)) \/ SenderNotified
    <2>1. UNCHANGED <<streamVars, conn, receiver, serve>>
      BY <1>3, SenderFrames
    <2>2. ASSUME NEW e \in Sides, NEW acts
          PROVE  Actions(Path(e)', s, acts) = Actions(Path(e), s, acts)
      <3>1. sender["server"].pc = "notified" => queue["server"] = <<>>
        BY DEF Ending, FinishOrder, Drained, Sides
      <3>2. Path(e)' = Path(e) \/ Appended(Path(e)', Path(e), Finished)
        BY <1>0, <1>3, <3>1, PathSender DEF Ending
      <3>3. Finished \in Msgs(e) /\ Finished.id # s
        BY DEF Msgs, MainMsgs, Finished, Streams
      <3>4. CASE Appended(Path(e)', Path(e), Finished)
        BY <1>0, <3>3, <3>4, SaidMore
      <3> QED
        BY <3>2, <3>4
    <2>3. WaysRest(s)
      BY <2>2, SideFacts DEF WaysRest, Forward, Backward
    <2> QED
      BY <2>1, <2>3, OthersKept, StreamRests DEF TasksRest
  <1>4. CASE ChildExit \/ UNCHANGED vars
    <2>1. UNCHANGED <<streamVars, conn, receiver, serve, net, sender, queue>>
      BY <1>4 DEF ChildExit, vars
    <2> QED
      BY <2>1, PathSame, WaysKept, OthersKept, StreamRests DEF TasksRest
  <1> QED
    BY <1>1, <1>2, <1>3, <1>4

\* serve() ends the input, and may leave the router behind.
LEMMA ServeSteps ==
    ASSUME Ending, RouterOrder, NEW s \in Streams, ServeStep
    PROVE  StepOf(s)
  <1> USE DEF streamVars, linkVars, serverVars
  <1>0. Inv /\ LinkTypes /\ MainTypes /\ serve = [pc |-> serve.pc, status |-> serve.status]
    BY DEF Ending, Inv, MainTypes
  <1>1. UNCHANGED <<streamVars, conn, receiver, net, sender>> /\ TasksRest(s)
    BY ServerFrames DEF TasksRest
  <1>2. UNCHANGED queue => WaysRest(s)
    BY <1>1, PathSame, WaysKept
  <1>3. /\ SourceSide(s) = "server" \/ SinkSide(s) = "server"
        /\ SourceSide(s) # SinkSide(s)
    BY SideFacts DEF Sides
  <1>4. serve'.pc \notin {"err"} => UNCHANGED <<Link, ReceiverFor(SourceSide(s), s),
                                               ReceiverFor(SinkSide(s), s)>>
    <2>1. CASE serve.pc = "err"
      BY <1>0, <2>1 DEF ServeStep, ServeWait, ServeKill, ServeSinkClosed, ServeExit, ServeJoin
    <2>2. CASE serve.pc # "err"
      BY <1>1, <2>2 DEF Link, ReceiverFor
    <2> QED
      BY <2>1, <2>2
  <1>5. CASE ServeWait \/ ServeKill
    <2>1. /\ UNCHANGED queue /\ serve.pc = "wait" /\ serve'.pc \in {"sinkclosed", "join"}
          /\ serve'.pc = "join" => serve'.status = serve.status
      BY <1>0, <1>5 DEF ServeWait, ServeKill
    <2>2. UNCHANGED Served(s)
      BY <2>1 DEF Served, RouterOrder
    <2> QED
      BY <1>1, <1>2, <1>4, <2>1, <2>2, StreamRests DEF OthersRest
  <1>6. CASE ServeSinkClosed
    <2>1. /\ serve.pc = "sinkclosed" /\ serve'.pc = "exit" /\ serve'.status = serve.status
          /\ Enqueue("server", StreamMsg("Stdin", SinkClosed))
      BY <1>0, <1>6 DEF ServeSinkClosed
    <2>2. /\ "server" \in Sides /\ "Stdin" \in Streams /\ SinkSide("Stdin") = "server"
          /\ SourceSide("Stdin") = "client"
      BY DEF Sides, Streams, SinkSide, SourceSide, Peer
    <2>3. /\ StreamMsg("Stdin", SinkClosed) \in Msgs("server")
          /\ StreamMsg("Stdin", SinkClosed).id = "Stdin"
          /\ StreamMsg("Stdin", SinkClosed).act \in SinkActs
          /\ ActionOf(StreamMsg("Stdin", SinkClosed)) = SinkClosed
      BY <2>2, TaskMsgs DEF Msgs, SinkAction, StreamMsg, SinkClosed, SinkActs, ActionOf
    <2>4. CASE s # "Stdin"
      <3>1. WaysRest(s)
        BY <1>0, <2>1, <2>2, <2>3, <2>4, WaysEnqueue
      <3>2. UNCHANGED Served(s)
        BY <2>4 DEF Served
      <3> QED
        BY <1>1, <1>4, <2>1, <3>1, <3>2, StreamRests DEF OthersRest
    <2>5. CASE s = "Stdin"
      <3>1. Backward(s)' = SentOn(Backward(s), SinkClosed) /\ UNCHANGED Forward(s)
        BY <1>0, <2>1, <2>2, <2>3, <2>5, SaidEnqueue
      <3>2. serve.status # NoStatus
        BY <2>1, StatusFacts DEF Ending, Inv, StatusKnown, Reported
      <3>3. ~Served(s) /\ Served(s)' = TRUE
        BY <2>1, <2>5, <3>2 DEF Served
      <3>4. Of(s)!ServeSinkClosed
        BY <1>1, <1>4, <2>1, <3>1, <3>3 DEF Of!ServeSinkClosed, Of!Sent, SentOn,
           Of!SinkClosed, SinkClosed, TasksRest
      <3> QED
        BY <3>4 DEF StepOf, Of!Next
    <2> QED
      BY <2>4, <2>5
  <1>7. CASE ServeExit
    <2>1. /\ serve.pc = "exit" /\ serve'.pc = "join" /\ serve'.status = serve.status
          /\ Enqueue("server", Exit(serve.status))
      BY <1>0, <1>7 DEF ServeExit
    <2>2. "server" \in Sides /\ Exit(serve.status) \in Msgs("server") /\ Exit(serve.status).id # s
      BY <2>1 DEF Ending, Inv, StatusKnown, Msgs, MainMsgs, Exit, Sides, Streams
    <2>3. WaysRest(s)
      BY <1>0, <2>1, <2>2, WaysEnqueue
    <2> QED
      BY <1>1, <1>4, <2>1, <2>3, StreamRests DEF OthersRest, Served
  <1>8. CASE ServeJoin
    <2>1. /\ UNCHANGED queue /\ serve.pc = "join" /\ serve'.pc \in {"ok", "err"}
          /\ serve'.status = serve.status
      BY <1>0, <1>8 DEF ServeJoin
    <2>2. UNCHANGED <<Link, Served(s)>> /\ WaysRest(s)
      BY <1>1, <1>2, <2>1 DEF Link, Served
    <2>3. \A sd \in Sides : /\ sd # "server" => UNCHANGED ReceiverFor(sd, s)
                            /\ \/ UNCHANGED ReceiverFor(sd, s)
                               \/ ReceiverFor(sd, s) = "route" /\ ReceiverFor(sd, s)' = "failed"
      BY <1>1, <2>1 DEF ReceiverFor
    <2>4. CASE UNCHANGED <<ReceiverFor(SourceSide(s), s), ReceiverFor(SinkSide(s), s)>>
      BY <1>1, <2>2, <2>4, StreamRests DEF OthersRest
    <2>5. CASE ~UNCHANGED <<ReceiverFor(SourceSide(s), s), ReceiverFor(SinkSide(s), s)>>
      <3>1. Of(s)!ReceiverFails
        BY <1>1, <1>3, <2>2, <2>3, <2>5, SideFacts DEF Of!ReceiverFails, TasksRest, WaysRest
      <3> QED
        BY <3>1 DEF StepOf, Of!Next
    <2> QED
      BY <2>4, <2>5
  <1> QED
    BY <1>5, <1>6, <1>7, <1>8 DEF ServeStep

\* The connection is lost, or the client goes on.
LEMMA ClientSteps ==
    ASSUME Ending, NEW s \in Streams, ClientStep \/ ConnectionLost
    PROVE  StepOf(s)
  <1> USE DEF streamVars, serverVars
  <1>0. LinkTypes
    BY DEF Ending, Inv
  <1>1. UNCHANGED <<streamVars, receiver, serve, queue, sender>>
    BY ClientFrames
  <1>2. CASE UNCHANGED <<conn, net>>
    BY <1>1, <1>2, PathSame, WaysKept, OthersKept, StreamRests DEF TasksRest
  <1>3. CASE conn = "up" /\ conn' # "up"
    <2>1. ASSUME NEW e \in Sides, NEW acts
          PROVE  Begins(Actions(Path(e)', s, acts), Actions(Path(e), s, acts))
      <3>1. PICK p \in Seq(Msgs(e)) : p = Path(e)
        BY <1>0, PathTyped
      <3>2. PICK k \in 0..Len(p) : Path(e)' = SubSeq(p, 1, k)
        BY <1>0, <3>1, PathPrefix
      <3>3. Begins(Actions(SubSeq(p, 1, k), s, acts), Actions(p, s, acts))
        BY ActionsMove
      <3> QED
        BY <3>1, <3>2, <3>3
    <2>2. Begins(Forward(s)', Forward(s)) /\ Begins(Backward(s)', Backward(s))
      BY <2>1, SideFacts DEF Forward, Backward
    <2>3. UNCHANGED <<ReceiverFor(SourceSide(s), s), ReceiverFor(SinkSide(s), s), Served(s)>>
      BY <1>1 DEF ReceiverFor, Served
    <2>4. Of(s)!LinkDown
      BY <1>1, <1>3, <2>2, <2>3 DEF Of!LinkDown, Link, Begins
    <2> QED
      BY <2>4 DEF StepOf, Of!Next
  <1> QED
    BY <1>2, <1>3, ClientFrames

\* What a receiver in state r does for a stream; err: serve() has failed.
Role(r, err, s) ==
    IF r.pc = "failed" \/ (err /\ r.pc = "done" /\ ~r.failed) THEN "failed"
    ELSE IF ~r.failed THEN "route"
    ELSE IF Has(r.todo, {s}) THEN "closing" ELSE "gone"

\* It is what the receivers of the session do.
LEMMA ReceiverRole ==
    ASSUME NEW sd, NEW s
    PROVE  /\ ReceiverFor(sd, s) = Role(receiver[sd], sd = "server" /\ serve.pc = "err", s)
           /\ ReceiverFor(sd, s)' = Role(receiver'[sd], sd = "server" /\ serve'.pc = "err", s)
  BY DEF ReceiverFor, Role, Has

\* The side of a receiver is that of the source or that of the sink.
LEMMA OtherSide ==
    ASSUME NEW s \in Streams, NEW sd \in Sides
    PROVE  \/ sd = SinkSide(s) /\ Peer(sd) = SourceSide(s) /\ s \in Sinks(sd)
              /\ s \notin Sources(sd)
           \/ sd = SourceSide(s) /\ Peer(sd) = SinkSide(s) /\ s \notin Sinks(sd)
              /\ (HasSource(s) => s \in Sources(sd))
  BY SideFacts DEF Sinks, Sources

\* What a receiver leaves alone, for a stream.
LEMMA ReceiverKeeps ==
    ASSUME Ending, NEW s \in Streams, NEW sd \in Sides, ReceiverStep(sd)
    PROVE  /\ UNCHANGED <<src[s], snk[s], out[s], Link, Served(s), ReceiverFor(Peer(sd), s)>>
           /\ Path(sd)' = Path(sd)
  <1>1. UNCHANGED <<src, snk, out, conn, serve>>
    BY ReceiverFrames
  <1>2. receiver'[Peer(sd)] = receiver[Peer(sd)]
    BY SideFacts, ReceiverAlone DEF Ending, Inv
  <1>3. UNCHANGED ReceiverFor(Peer(sd), s)
    BY <1>1, <1>2, ReceiverRole
  <1>4. Path(sd)' = Path(sd)
    BY PathReceiver DEF Ending, Inv
  <1> QED
    BY <1>1, <1>3, <1>4 DEF Link, Served

\* The ways, when what is on the way from the peer says the same as before.
LEMMA WaysOfReceiver ==
    ASSUME NEW s \in Streams, NEW sd \in Sides, Path(sd)' = Path(sd),
           \A acts : Actions(Path(Peer(sd))', s, acts) = Actions(Path(Peer(sd)), s, acts)
    PROVE  WaysRest(s)
  BY OtherSide DEF WaysRest, Forward, Backward

\* A receiver that goes on, or ends with an error.
LEMMA ReceiverGoes ==
    ASSUME NEW s \in Streams, NEW sd \in Sides, TasksRest(s), WaysRest(s),
           UNCHANGED <<Link, Served(s), ReceiverFor(Peer(sd), s)>>,
           \/ UNCHANGED ReceiverFor(sd, s)
           \/ ReceiverFor(sd, s) = "route" /\ ReceiverFor(sd, s)' = "failed"
    PROVE  StepOf(s)
  <1>1. CASE UNCHANGED ReceiverFor(sd, s)
    BY <1>1, OtherSide, StreamRests DEF OthersRest
  <1>2. CASE ReceiverFor(sd, s) = "route" /\ ReceiverFor(sd, s)' = "failed"
    <2>1. Of(s)!ReceiverFails
      BY <1>2, OtherSide DEF Of!ReceiverFails, TasksRest, WaysRest
    <2> QED
      BY <2>1 DEF StepOf, Of!Next
  <1> QED
    BY <1>1, <1>2

\* A message is read: it is still on its way, or it is not for a stream.
LEMMA ReceiverReads ==
    ASSUME Ending, Ending', RouterOrder, [Next]_vars, NEW s \in Streams, NEW sd \in Sides,
           ReceiverRecv(sd)
    PROVE  StepOf(s)
  <1>0. ReceiverStep(sd) /\ Inv /\ Inv' /\ LinkTypes /\ FailedIsDown /\ Peer(sd) \in Sides
    BY SideFacts DEF ReceiverStep, Ending, Inv
  <1>1. /\ receiver[sd].pc = "recv" /\ receiver'[sd].pc \in {"route", "recv", "failed", "done"}
        /\ receiver'[sd].failed = receiver[sd].failed /\ ~receiver[sd].failed
    BY <1>0, ReceiverStates DEF RouterOrder
  <1>2. TasksRest(s) /\ serve' = serve
    BY DEF ReceiverRecv, streamVars, TasksRest
  <1>3. ASSUME NEW acts
        PROVE  Actions(Path(Peer(sd))', s, acts) = Actions(Path(Peer(sd)), s, acts)
    <2>1. \/ Path(Peer(sd))' = Path(Peer(sd))
          \/ /\ Head(net[Peer(sd)]) \in MainMsgs(Peer(sd))
             /\ Taken(Path(Peer(sd)), Head(net[Peer(sd)]), Path(Peer(sd))')
      BY <1>0, <1>1, PathReceiver, ReceiverStates
    <2>2. PICK m : m = Head(net[Peer(sd)])
      OBVIOUS
    <2>3. CASE m \in MainMsgs(Peer(sd)) /\ Taken(Path(Peer(sd)), m, Path(Peer(sd))')
      <3>1. m \in Msgs(Peer(sd)) /\ m.id # s
        BY <2>3 DEF Msgs, MainMsgs, Finished, Exit, WindowSizeChange, Streams
      <3> QED
        BY <1>0, <2>3, <3>1, SaidLess
    <2> QED
      BY <2>1, <2>2, <2>3
  <1>4. \/ UNCHANGED ReceiverFor(sd, s)
        \/ ReceiverFor(sd, s) = "route" /\ ReceiverFor(sd, s)' = "failed"
    BY <1>1, <1>2, ReceiverRole DEF Role
  <1> QED
    BY <1>0, <1>2, <1>3, <1>4, ReceiverKeeps, WaysOfReceiver, ReceiverGoes

\* A message is given to its task, or nobody is there to take it.
LEMMA ReceiverRoutes ==
    ASSUME Ending, Ending', RouterOrder, [Next]_vars, NEW s \in Streams, NEW sd \in Sides,
           ReceiverRoute(sd)
    PROVE  StepOf(s)
  <1> DEFINE m == receiver[sd].msg[1]
             p == Peer(sd)
  <1>0. /\ ReceiverStep(sd) /\ Inv /\ Inv' /\ LinkTypes /\ FailedIsDown /\ p \in Sides
        /\ DOMAIN srcRx = Streams /\ DOMAIN snkRx = Streams /\ DOMAIN receiver = Sides
        /\ receiver[sd] \in ReceiverState(sd)
    BY SideFacts DEF ReceiverStep, Ending, Inv, TaskTypes, LinkTypes, Way
  <1>1. /\ receiver[sd].pc = "route" /\ receiver'[sd].pc \in {"recv", "failed"}
        /\ receiver'[sd].failed = receiver[sd].failed /\ ~receiver[sd].failed
    BY <1>0, ReceiverStates DEF RouterOrder
  <1>2. /\ UNCHANGED <<src[s], snk[s], out[s], Link, Served(s), ReceiverFor(p, s)>>
        /\ Path(sd)' = Path(sd)
    BY <1>0, ReceiverKeeps
  <1>3. m \in StreamMsgs(p) /\ m \in Msgs(p) /\ Taken(Path(p), m, Path(p)')
    BY <1>0, <1>1, PathReceiver, ReceiverStates DEF Msgs
  <1>4. /\ m.id \in Streams
        /\ ForSink(m) => SourceSide(m.id) = p /\ m.act \in SourceActs
        /\ ~ForSink(m) => SinkSide(m.id) = p /\ m.act \in SinkActs
    BY <1>0, <1>3, RoutedMsgs DEF StreamMsgs, ForSink, SourceActs, SinkActs
  <1>5. \/ /\ ForSink(m) /\ ~SinkEnded(snk[m.id]) /\ HasRoom(snkRx[m.id])
           /\ snkRx' = [snkRx EXCEPT ![m.id] = Append(@, ActionOf(m))] /\ srcRx' = srcRx
           /\ receiver'[sd].pc = "recv"
        \/ /\ ForSink(m) /\ SinkEnded(snk[m.id]) /\ UNCHANGED <<snkRx, srcRx>>
           /\ receiver'[sd].pc = "failed"
        \/ /\ ~ForSink(m) /\ ~SourceEnded(src[m.id]) /\ HasRoom(srcRx[m.id])
           /\ srcRx' = [srcRx EXCEPT ![m.id] = Append(@, ActionOf(m))] /\ snkRx' = snkRx
           /\ receiver'[sd].pc = "recv"
        \/ /\ ~ForSink(m) /\ SourceEnded(src[m.id]) /\ UNCHANGED <<snkRx, srcRx>>
           /\ receiver'[sd].pc = "recv"
    BY <1>0 DEF ReceiverRoute, ReceiverState
  <1> HIDE DEF m
  <1>6. /\ ReceiverFor(sd, s) = "route"
        /\ ReceiverFor(sd, s)' = IF receiver'[sd].pc = "failed" THEN "failed" ELSE "route"
    BY <1>1, ReceiverRole DEF Role
  <1>7. CASE m.id # s
    <2>1. \A acts : Actions(Path(p)', s, acts) = Actions(Path(p), s, acts)
      BY <1>0, <1>3, <1>7, SaidLess
    <2>2. WaysRest(s)
      BY <1>2, <2>1, WaysOfReceiver
    <2>3. TasksRest(s)
      BY <1>0, <1>2, <1>5, <1>7 DEF TasksRest
    <2> QED
      BY <1>2, <1>6, <2>2, <2>3, ReceiverGoes
  <1>8. CASE m.id = s /\ ForSink(m)
    <2>1. SourceSide(s) = p /\ SinkSide(s) = sd /\ m.act \in SourceActs
      BY <1>4, <1>8, SideFacts
    <2>2. /\ Forward(s) # <<>> /\ Head(Forward(s)) = ActionOf(m)
          /\ Forward(s)' = Tail(Forward(s)) /\ UNCHANGED Backward(s)
      <3>1. /\ Actions(Path(p), s, SourceActs) # <<>>
            /\ Head(Actions(Path(p), s, SourceActs)) = ActionOf(m)
            /\ Tail(Actions(Path(p), s, SourceActs)) = Actions(Path(p)', s, SourceActs)
        BY <1>0, <1>3, <1>8, <2>1, SaidLess
      <3> QED
        BY <1>2, <2>1, <3>1 DEF Forward, Backward, SourceActs
    <2>3. Of(s)!RouteToSink
      BY <1>0, <1>2, <1>5, <1>6, <1>8, <2>1, <2>2
         DEF Of!RouteToSink, Of!SinkEnded, SinkEnded, Of!HasRoom, HasRoom, Of!ChanCap, ChanCap
    <2> QED
      BY <2>3 DEF StepOf, Of!Next
  <1>9. CASE m.id = s /\ ~ForSink(m)
    <2>1. SinkSide(s) = p /\ SourceSide(s) = sd /\ m.act \in SinkActs
      BY <1>4, <1>9, SideFacts
    <2>2. /\ Backward(s) # <<>> /\ Head(Backward(s)) = ActionOf(m)
          /\ Backward(s)' = Tail(Backward(s)) /\ UNCHANGED Forward(s)
      <3>1. /\ Actions(Path(p), s, SinkActs) # <<>>
            /\ Head(Actions(Path(p), s, SinkActs)) = ActionOf(m)
            /\ Tail(Actions(Path(p), s, SinkActs)) = Actions(Path(p)', s, SinkActs)
        BY <1>0, <1>3, <1>9, <2>1, SaidLess
      <3> QED
        BY <1>2, <2>1, <3>1 DEF Forward, Backward, SinkActs
    <2>3. Of(s)!RouteToSource
      BY <1>0, <1>2, <1>5, <1>6, <1>9, <2>1, <2>2
         DEF Of!RouteToSource, Of!SourceEnded, SourceEnded, Of!HasRoom, HasRoom,
             Of!ChanCap, ChanCap
    <2> QED
      BY <2>3 DEF StepOf, Of!Next
  <1> QED
    BY <1>7, <1>8, <1>9

\* The connection is lost for a receiver: it drops what is on the way, and is to close
\* the task of the stream.
LEMMA ReceiverDrops ==
    ASSUME Ending, RouterOrder, NEW s \in Streams, HasSource(s), NEW sd \in Sides,
           ReceiverError(sd)
    PROVE  StepOf(s)
  <1> DEFINE p == Peer(sd)
  <1>0. ReceiverStep(sd) /\ LinkTypes /\ FailedIsDown /\ p \in Sides
    BY SideFacts DEF ReceiverStep, Ending, Inv
  <1>1. /\ receiver[sd].pc = "recv" /\ receiver'[sd].pc = "shutdown" /\ receiver'[sd].failed
        /\ ~receiver[sd].failed
    BY <1>0, ReceiverStates DEF RouterOrder
  <1>2. /\ UNCHANGED <<src[s], snk[s], out[s], Link, Served(s), ReceiverFor(p, s)>>
        /\ Path(sd)' = Path(sd)
    BY <1>0, ReceiverKeeps
  <1>3. conn # "up" /\ Path(p)' = <<>> /\ UNCHANGED <<srcRx[s], snkRx[s]>>
    BY <1>0, PathDropped DEF ReceiverError, streamVars
  <1>4. Has(receiver'[sd].todo, {s})
    BY <1>0, <1>1, OtherSide, TodoTurns, ReceiverStates
  <1>5. ReceiverFor(sd, s) = "route" /\ ReceiverFor(sd, s)' = "closing"
    BY <1>1, <1>4, ReceiverRole DEF Role
  <1>6. CASE sd = SinkSide(s) /\ p = SourceSide(s)
    <2>1. Forward(s)' = <<>> /\ UNCHANGED Backward(s)
      BY <1>2, <1>3, <1>6, ActionsOfNone DEF Forward, Backward
    <2>2. Of(s)!BeginShutdownAtSink
      BY <1>2, <1>3, <1>5, <1>6, <2>1 DEF Of!BeginShutdownAtSink, Link
    <2> QED
      BY <2>2 DEF StepOf, Of!Next, Of!ShutdownAtSink
  <1>7. CASE sd = SourceSide(s) /\ p = SinkSide(s)
    <2>1. Backward(s)' = <<>> /\ UNCHANGED Forward(s)
      BY <1>2, <1>3, <1>7, ActionsOfNone DEF Forward, Backward
    <2>2. Of(s)!BeginShutdownAtSource
      BY <1>2, <1>3, <1>5, <1>7, <2>1 DEF Of!BeginShutdownAtSource, Link
    <2> QED
      BY <2>2 DEF StepOf, Of!Next, Of!ShutdownAtSource
  <1> QED
    BY <1>6, <1>7, OtherSide

\* A receiver closes one task after the other.
LEMMA ReceiverCloses ==
    ASSUME Ending, RouterOrder, NEW s \in Streams, NEW sd \in Sides,
           ReceiverShutdown(sd) \/ ReceiverShutdownEnd(sd)
    PROVE  StepOf(s)
  <1> DEFINE p == Peer(sd)
  <1>0. /\ ReceiverStep(sd) /\ LinkTypes /\ FailedIsDown /\ p \in Sides
        /\ DOMAIN srcRx = Streams /\ DOMAIN snkRx = Streams
    BY SideFacts DEF ReceiverStep, Ending, Inv, TaskTypes
  <1>1. /\ receiver[sd].pc = "shutdown" /\ receiver'[sd].pc \in {"shutdown", "done"}
        /\ receiver[sd].failed /\ receiver'[sd].failed
        /\ receiver'[sd].pc = "shutdown" <=> ReceiverShutdown(sd)
    BY <1>0, ReceiverStates DEF FailedIsDown
  <1>2. /\ UNCHANGED <<src[s], snk[s], out[s], Link, Served(s), ReceiverFor(p, s)>>
        /\ Path(sd)' = Path(sd)
    BY <1>0, ReceiverKeeps
  <1>3. WaysRest(s)
    <2>1. Path(p)' = Path(p)
      BY <1>0, <1>1, PathReceiver, ReceiverStates
    <2> QED
      BY <1>2, <2>1, WaysOfReceiver
  <1>4. /\ ReceiverFor(sd, s) = IF Has(receiver[sd].todo, {s}) THEN "closing" ELSE "gone"
        /\ ReceiverFor(sd, s)' = IF Has(receiver'[sd].todo, {s}) THEN "closing" ELSE "gone"
    BY <1>1, ReceiverRole DEF Role
  <1>5. CASE ReceiverShutdownEnd(sd)
    <2>1. receiver[sd].todo = <<>> /\ receiver'[sd].todo = <<>>
      BY <1>0, <1>1, <1>5, TodoTurns, ReceiverStates
    <2>2. TasksRest(s)
      BY <1>2, <1>5 DEF ReceiverShutdownEnd, streamVars, TasksRest
    <2> QED
      BY <1>2, <1>3, <1>4, <2>1, <2>2, ReceiverGoes
  <1>6. CASE ReceiverShutdown(sd)
    <2> DEFINE h == Head(receiver[sd].todo)
    <2>1. PICK q \in Seq(Streams) : q = receiver[sd].todo
      BY <1>0 DEF LinkTypes, Way, ReceiverState
    <2>2. q # <<>> /\ receiver'[sd].todo = Tail(q)
      BY <1>0, <1>1, <1>6, <2>1, TodoTurns, ReceiverStates
    <2>3. /\ h \in Streams
          /\ h = s => Has(q, {s}) /\ ~Has(Tail(q), {s})
          /\ h # s => (Has(q, {s}) <=> Has(Tail(q), {s}))
      BY <2>1, <2>2, TodoTail DEF RouterOrder
    <2>4. \/ /\ h \in Sinks(sd)
             /\ SinkEnded(snk[h]) \/ HasRoom(snkRx[h])
             /\ snkRx' = IF SinkEnded(snk[h]) THEN snkRx
                         ELSE [snkRx EXCEPT ![h] = Append(@, SourceClosed)]
             /\ UNCHANGED srcRx
          \/ /\ h \in Sources(sd)
             /\ SourceEnded(src[h]) \/ HasRoom(srcRx[h])
             /\ srcRx' = IF SourceEnded(src[h]) THEN srcRx
                         ELSE [srcRx EXCEPT ![h] = Append(@, SinkClosed)]
             /\ UNCHANGED snkRx
      BY <1>6 DEF ReceiverShutdown
    <2> HIDE DEF h
    <2>5. CASE h # s
      <3>1. TasksRest(s)
        BY <1>0, <1>2, <2>3, <2>4, <2>5 DEF TasksRest
      <3> QED
        BY <1>2, <1>3, <1>4, <2>1, <2>2, <2>3, <2>5, <3>1, ReceiverGoes
    <2>6. CASE h = s /\ h \in Sinks(sd)
      <3>1. sd = SinkSide(s) /\ p = SourceSide(s) /\ s \notin Sources(sd)
        BY <2>6, OtherSide
      <3>2. Of(s)!ShutdownSink
        BY <1>0, <1>2, <1>3, <1>4, <2>1, <2>2, <2>3, <2>4, <2>6, <3>1
           DEF Of!ShutdownSink, Of!SinkEnded, SinkEnded, Of!HasRoom, HasRoom, Of!ChanCap, ChanCap,
               Of!SourceClosed, SourceClosed, WaysRest
      <3> QED
        BY <3>2 DEF StepOf, Of!Next, Of!ShutdownAtSink
    <2>7. CASE h = s /\ h \in Sources(sd)
      <3>1. sd = SourceSide(s) /\ p = SinkSide(s) /\ s \notin Sinks(sd)
        BY <2>7, OtherSide
      <3>2. Of(s)!ShutdownSource
        BY <1>0, <1>2, <1>3, <1>4, <2>1, <2>2, <2>3, <2>4, <2>7, <3>1
           DEF Of!ShutdownSource, Of!SourceEnded, SourceEnded, Of!HasRoom, HasRoom,
               Of!ChanCap, ChanCap, Of!SinkClosed, SinkClosed, WaysRest
      <3> QED
        BY <3>2 DEF StepOf, Of!Next, Of!ShutdownAtSource
    <2> QED
      BY <2>4, <2>5, <2>6, <2>7
  <1> QED
    BY <1>5, <1>6

\* Every step of the session is a step of each stream that has a source, or none.
LEMMA StreamNext ==
    ASSUME Ending, Ending', Outs, RouterOrder, [Next]_vars, NEW s \in Streams, HasSource(s)
    PROVE  StepOf(s)
  <1>1. CASE \E t \in Streams : SourceIn(t) \/ SourceStep(t) \/ SinkStep(t) \/ SinkWrite(t)
    <2>1. PICK t \in Streams : SourceIn(t) \/ SourceStep(t) \/ SinkStep(t) \/ SinkWrite(t)
      BY <1>1
    <2>2. CASE t = s /\ (SourceIn(t) \/ SourceStep(t))
      BY <2>2, SourceSteps
    <2>3. CASE t = s /\ (SinkStep(t) \/ SinkWrite(t))
      BY <2>3, SinkSteps
    <2>4. CASE t # s
      BY <2>1, <2>4, StrangerSteps
    <2> QED
      BY <2>1, <2>2, <2>3, <2>4
  <1>2. CASE \/ Resize \/ WindowStep
             \/ (\E sd \in Sides : SenderStep(sd)) \/ SenderNotified
             \/ ChildExit \/ UNCHANGED vars
    BY <1>2, StrangerSteps
  <1>3. CASE \E sd \in Sides : ReceiverStep(sd)
    <2>1. PICK sd \in Sides : ReceiverStep(sd)
      BY <1>3
    <2>2. CASE ReceiverRecv(sd)
      BY <2>2, ReceiverReads
    <2>3. CASE ReceiverRoute(sd)
      BY <2>3, ReceiverRoutes
    <2>4. CASE ReceiverError(sd)
      BY <2>4, ReceiverDrops
    <2>5. CASE ReceiverShutdown(sd) \/ ReceiverShutdownEnd(sd)
      BY <2>5, ReceiverCloses
    <2> QED
      BY <2>1, <2>2, <2>3, <2>4, <2>5 DEF ReceiverStep
  <1>4. CASE ServeStep
    BY <1>4, ServeSteps
  <1>5. CASE ClientStep \/ ConnectionLost
    BY <1>5, ClientSteps
  <1> QED
    BY <1>1, <1>2, <1>3, <1>4, <1>5 DEF Next, Terminated

\* At first nothing is under way for a stream with a source.
LEMMA StreamInit ==
    ASSUME Init, NEW s \in Streams, HasSource(s)
    PROVE  Of(s)!Init
  <1>1. ASSUME NEW e \in Sides, NEW acts
        PROVE  Actions(Path(e), s, acts) = <<>>
    <2>1. CASE Path(e) = <<>>
      BY <2>1, ActionsOfNone
    <2>2. CASE Pty /\ Path(e) = <<StreamMsg("Stderr", SourceClosed)>>
      <3>1. PICK m : m = StreamMsg("Stderr", SourceClosed)
        OBVIOUS
      <3>2. m.id = "Stderr" /\ s # "Stderr"
        BY <2>2, <3>1 DEF StreamMsg, HasSource
      <3>3. Actions(<<m>>, s, acts) = <<>>
        <4>1. \A x \in {m} : ActionOf(x) \in {ActionOf(m)}
          OBVIOUS
        <4>2. PICK M, A : M = {m} /\ A = {ActionOf(m)}
          OBVIOUS
        <4>3. m \in M /\ \A x \in M : ActionOf(x) \in A
          BY <4>1, <4>2
        <4> QED
          BY <3>2, <4>3, ActionsOfOne
      <3> QED
        BY <2>2, <3>1, <3>3
    <2> QED
      BY <2>1, <2>2, InitPath
  <1>2. Forward(s) = <<>> /\ Backward(s) = <<>>
    BY <1>1, SideFacts DEF Forward, Backward
  <1>3. ASSUME NEW e \in Sides PROVE ReceiverFor(e, s) = "route"
    BY DEF ReceiverFor, Init
  <1>4. ReceiverFor(SourceSide(s), s) = "route" /\ ReceiverFor(SinkSide(s), s) = "route"
    BY <1>3, SideFacts
  <1>5. Served(s) = FALSE /\ Link = "up"
    BY DEF Served, Link, Init
  <1>6. /\ src[s] = SourceNew /\ snk[s] = SinkNew
        /\ srcRx[s] = <<>> /\ snkRx[s] = <<>> /\ out[s] = <<>>
    BY DEF Init
  <1> QED
    BY <1>2, <1>4, <1>5, <1>6 DEF Of!Init, Of!SourceNew, SourceNew, Of!SinkNew, SinkNew

\* What the streams need of the session.
Streaming == Ending /\ Outs /\ RouterOrder

\* It holds at first and is kept.
LEMMA StreamingHolds == (Init => Streaming) /\ (Streaming /\ [Next]_vars => Streaming')
  <1>1. Init => Streaming
    <2>1. Init => Outs
      BY DEF Init, Outs
    <2> QED
      BY <2>1, InvInit, FinishInit, RouterInit DEF Streaming, Ending
  <1>2. Streaming /\ [Next]_vars => Streaming'
    BY EndingNext, OutsNext, RouterNext DEF Streaming, Ending
  <1> QED
    BY <1>1, <1>2

\* The standard input is In.
LEMMA InIsOf ==
    /\ Of("Stdin")!Init => In!Init
    /\ StepOf("Stdin") => [In!Next]_(In!vars)
  BY Zenon DEF StepOf, Of!Init, Of!Next, Of!vars, Of!Read, Of!EndOfInput, Of!SourceStep,
     Of!SourceSend, Of!SourceTake, Of!SourceNone, Of!SinkStep, Of!SinkTake, Of!SinkSend,
     Of!SinkFinish, Of!Write, Of!Flush, Of!SinkNone, Of!RouteToSink, Of!RouteToSource,
     Of!ServeSinkClosed, Of!LinkDown, Of!ShutdownAtSink, Of!ShutdownAtSource,
     Of!BeginShutdownAtSink, Of!BeginShutdownAtSource, Of!ShutdownSink, Of!ShutdownSource,
     Of!ReceiverFails, Of!Terminated, Of!Sent, Of!Silent, Of!ChanCap, Of!HasRoom, Of!Data,
     Of!SourceClosed, Of!Ack, Of!SinkClosed, Of!SourceNew, Of!SourceRead, Of!SourceBreak,
     Of!SourceSending, Of!SourceMsg, Of!SourceSent, Of!SourceListening, Of!SourceRecv,
     Of!SourceRecvNone, Of!SourceEnded, Of!SinkNew, Of!SinkRecv, Of!SinkRecvNone, Of!SinkIo,
     Of!SinkSending, Of!SinkMsg, Of!SinkSent, Of!SinkShutdown, Of!SinkEnded, In!Init, In!Next,
     In!vars, In!Read, In!EndOfInput, In!SourceStep, In!SourceSend, In!SourceTake,
     In!SourceNone, In!SinkStep, In!SinkTake, In!SinkSend, In!SinkFinish, In!Write, In!Flush,
     In!SinkNone, In!RouteToSink, In!RouteToSource, In!ServeSinkClosed, In!LinkDown,
     In!ShutdownAtSink, In!ShutdownAtSource, In!BeginShutdownAtSink, In!BeginShutdownAtSource,
     In!ShutdownSink, In!ShutdownSource, In!ReceiverFails, In!Terminated, In!Sent, In!Silent,
     In!ChanCap, In!HasRoom, In!Data, In!SourceClosed, In!Ack, In!SinkClosed, In!SourceNew,
     In!SourceRead, In!SourceBreak, In!SourceSending, In!SourceMsg, In!SourceSent,
     In!SourceListening, In!SourceRecv, In!SourceRecvNone, In!SourceEnded, In!SinkNew,
     In!SinkRecv, In!SinkRecvNone, In!SinkIo, In!SinkSending, In!SinkMsg, In!SinkSent,
     In!SinkShutdown, In!SinkEnded

\* The standard output is Out.
LEMMA OutIsOf ==
    /\ Of("Stdout")!Init => Out!Init
    /\ StepOf("Stdout") => [Out!Next]_(Out!vars)
  BY Zenon DEF StepOf, Of!Init, Of!Next, Of!vars, Of!Read, Of!EndOfInput, Of!SourceStep,
     Of!SourceSend, Of!SourceTake, Of!SourceNone, Of!SinkStep, Of!SinkTake, Of!SinkSend,
     Of!SinkFinish, Of!Write, Of!Flush, Of!SinkNone, Of!RouteToSink, Of!RouteToSource,
     Of!ServeSinkClosed, Of!LinkDown, Of!ShutdownAtSink, Of!ShutdownAtSource,
     Of!BeginShutdownAtSink, Of!BeginShutdownAtSource, Of!ShutdownSink, Of!ShutdownSource,
     Of!ReceiverFails, Of!Terminated, Of!Sent, Of!Silent, Of!ChanCap, Of!HasRoom, Of!Data,
     Of!SourceClosed, Of!Ack, Of!SinkClosed, Of!SourceNew, Of!SourceRead, Of!SourceBreak,
     Of!SourceSending, Of!SourceMsg, Of!SourceSent, Of!SourceListening, Of!SourceRecv,
     Of!SourceRecvNone, Of!SourceEnded, Of!SinkNew, Of!SinkRecv, Of!SinkRecvNone, Of!SinkIo,
     Of!SinkSending, Of!SinkMsg, Of!SinkSent, Of!SinkShutdown, Of!SinkEnded, Out!Init, Out!Next,
     Out!vars, Out!Read, Out!EndOfInput, Out!SourceStep, Out!SourceSend, Out!SourceTake,
     Out!SourceNone, Out!SinkStep, Out!SinkTake, Out!SinkSend, Out!SinkFinish, Out!Write,
     Out!Flush, Out!SinkNone, Out!RouteToSink, Out!RouteToSource, Out!ServeSinkClosed,
     Out!LinkDown, Out!ShutdownAtSink, Out!ShutdownAtSource, Out!BeginShutdownAtSink,
     Out!BeginShutdownAtSource, Out!ShutdownSink, Out!ShutdownSource, Out!ReceiverFails,
     Out!Terminated, Out!Sent, Out!Silent, Out!ChanCap, Out!HasRoom, Out!Data, Out!SourceClosed,
     Out!Ack, Out!SinkClosed, Out!SourceNew, Out!SourceRead, Out!SourceBreak, Out!SourceSending,
     Out!SourceMsg, Out!SourceSent, Out!SourceListening, Out!SourceRecv, Out!SourceRecvNone,
     Out!SourceEnded, Out!SinkNew, Out!SinkRecv, Out!SinkRecvNone, Out!SinkIo, Out!SinkSending,
     Out!SinkMsg, Out!SinkSent, Out!SinkShutdown, Out!SinkEnded

\* The standard input of a session is a Stream: whatever the outputs, the child, the window
\* size, serve(), the end of the session and the loss of the connection do to the queues
\* and the receivers it shares with them, each of their steps is a step of the two tasks,
\* the two ways and the two receivers of Stream.tla, or does not concern it.
THEOREM StdinIsStreamCorrect == Spec => StdinIsStream
  <1>1. "Stdin" \in Streams /\ HasSource("Stdin")
    BY DEF Streams, HasSource
  <1>2. Init => In!Init
    BY <1>1, StreamInit, InIsOf
  <1>3. Streaming /\ Streaming' /\ [Next]_vars => [In!Next]_(In!vars)
    BY <1>1, StreamNext, InIsOf DEF Streaming
  <1> QED
    BY <1>2, <1>3, StreamingHolds, PTL DEF Spec, StdinIsStream, In!Spec

\* The standard output of a session is a Stream, likewise.
THEOREM StdoutIsStreamCorrect == Spec => StdoutIsStream
  <1>1. "Stdout" \in Streams /\ HasSource("Stdout")
    BY DEF Streams, HasSource
  <1>2. Init => Out!Init
    BY <1>1, StreamInit, OutIsOf
  <1>3. Streaming /\ Streaming' /\ [Next]_vars => [Out!Next]_(Out!vars)
    BY <1>1, StreamNext, OutIsOf DEF Streaming
  <1> QED
    BY <1>2, <1>3, StreamingHolds, PTL DEF Spec, StdoutIsStream, Out!Spec

=============================================================================
