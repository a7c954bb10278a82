---------------------------- MODULE StreamProofs ----------------------------
(***************************************************************************)
(* Proofs about one stream, for every number of packets and every choice of *)
(* faults: Stream.tla says what the properties mean.  The first invariant,   *)
(* Inv, follows the one packet under way; the second, CloseInv, follows the  *)
(* close messages, and rests on the first.  The stream implements a pipe of  *)
(* one packet.                                                              *)
(***************************************************************************)
EXTENDS Stream, StreamTasksProofs

USE DEF ChanCap

-----------------------------------------------------------------------------
(* Types.                                                                  *)

\* Every message a task sends has the type of its direction.
LEMMA MsgTypes ==
    ASSUME TypeOK
    PROVE  /\ SourceMsg(src) \in SourceAction
           /\ SinkMsg(snk) \in SinkAction
           /\ SourceClosed \in SourceAction
           /\ SinkClosed \in SinkAction
  BY DEF TypeOK, SourceMsg, SinkMsg, SourceState, SinkState, SourceAction, SinkAction,
         Data, SourceClosed, Ack, SinkClosed

\* The types hold at the start.
LEMMA TypeInit == Init => TypeOK
  <1>1. /\ <<>> \in Seq(SinkAction) /\ <<>> \in Seq(SourceAction) /\ <<>> \in Seq(Nat)
        /\ Len(<<>>) <= ChanCap
    BY DEF ChanCap
  <1> QED
    BY <1>1, SourceTypes, SinkTypes, Zenon DEF Init, TypeOK, ReceiverState

\* Every step keeps the types; a receiver only sends where there is room.
LEMMA TypeNext == TypeOK /\ [Next]_vars => TypeOK'
  <1> SUFFICES ASSUME TypeOK, [Next]_vars PROVE TypeOK'
    OBVIOUS
  <1> USE MsgTypes, SourceTypes, SinkTypes
  <1>0. <<>> \in Seq(SinkAction) /\ <<>> \in Seq(SourceAction)
    OBVIOUS
  <1>1. CASE Read
    BY <1>1 DEF Read, TypeOK
  <1>2. CASE EndOfInput
    BY <1>2 DEF EndOfInput, TypeOK
  <1>3. CASE SourceSend
    <2>1. Sent(fwd, SourceMsg(src)) \in Seq(SourceAction)
      BY AppendFacts DEF TypeOK, Sent
    <2> QED
      BY <1>3, <2>1 DEF SourceSend, TypeOK
  <1>4. CASE SourceTake
    <2>1. /\ Head(srcRx) \in SinkAction
          /\ Tail(srcRx) \in Seq(SinkAction) /\ Len(Tail(srcRx)) <= ChanCap
      BY <1>4, TailFacts DEF SourceTake, TypeOK
    <2>2. SourceRecv(src, Head(srcRx)) \in SourceState
      BY <2>1 DEF TypeOK
    <2> QED
      BY <1>4, <2>1, <2>2 DEF SourceTake, TypeOK
  <1>5. CASE SourceNone
    BY <1>5 DEF SourceNone, TypeOK
  <1>6. CASE SinkTake
    <2>1. /\ Head(snkRx) \in SourceAction
          /\ Tail(snkRx) \in Seq(SourceAction) /\ Len(Tail(snkRx)) <= ChanCap
      BY <1>6, TailFacts DEF SinkTake, TypeOK
    <2>2. SinkRecv(snk, Head(snkRx)) \in SinkState
      BY <2>1 DEF TypeOK
    <2> QED
      BY <1>6, <2>1, <2>2 DEF SinkTake, TypeOK
  <1>7. CASE SinkNone
    BY <1>7 DEF SinkNone, TypeOK
  <1>8. CASE \E res \in WriteResults : Write(res) \/ Flush(res)
    <2>1. PICK res \in WriteResults : Write(res) \/ Flush(res)
      BY <1>8
    <2>2. SinkIo(snk, res) \in SinkState
      BY StreamAssumption DEF TypeOK
    <2>3. snk.n \in Nat
      BY DEF TypeOK, SinkState
    <2>4. out' \in Seq(Nat)
      <3>1. out \in Seq(Nat) /\ Append(out, snk.n) \in Seq(Nat)
        BY <2>3, AppendFacts DEF TypeOK
      <3>2. out' \in {out, Append(out, snk.n)}
        BY <2>1, Zenon DEF Write, Flush
      <3> QED
        BY <3>1, <3>2
    <2> QED
      BY <2>1, <2>2, <2>4 DEF Write, Flush, TypeOK
  <1>9. CASE SinkSend
    <2>1. Sent(back, SinkMsg(snk)) \in Seq(SinkAction)
      BY AppendFacts DEF TypeOK, Sent
    <2> QED
      BY <1>9, <2>1 DEF SinkSend, TypeOK
  <1>10. CASE SinkFinish
    BY <1>10 DEF SinkFinish, TypeOK
  <1>11. CASE RouteToSink
    BY <1>11, TailFacts, AppendFacts DEF RouteToSink, TypeOK, HasRoom, ReceiverState
  <1>12. CASE RouteToSource
    BY <1>12, TailFacts, AppendFacts DEF RouteToSource, TypeOK, HasRoom, ReceiverState
  <1>13. CASE ServeSinkClosed
    <2>1. Sent(back, SinkClosed) \in Seq(SinkAction)
      BY AppendFacts DEF TypeOK, Sent
    <2> QED
      BY <1>13, <2>1 DEF ServeSinkClosed, TypeOK
  <1>14. CASE LinkDown
    BY <1>14, PrefixFacts DEF LinkDown, TypeOK
  <1>15. CASE BeginShutdownAtSink \/ BeginShutdownAtSource
    BY <1>0, <1>15, Zenon DEF BeginShutdownAtSink, BeginShutdownAtSource, TypeOK, ReceiverState
  <1>16. CASE ShutdownSink
    BY <1>16, AppendFacts DEF ShutdownSink, TypeOK, HasRoom, ReceiverState
  <1>17. CASE ShutdownSource
    BY <1>17, AppendFacts DEF ShutdownSource, TypeOK, HasRoom, ReceiverState
  <1>18. CASE ReceiverFails
    BY <1>18 DEF ReceiverFails, TypeOK, ReceiverState
  <1>19. CASE UNCHANGED vars
    BY <1>19 DEF vars, TypeOK
  <1> QED
    BY <1>1, <1>2, <1>3, <1>4, <1>5, <1>6, <1>7, <1>8, <1>9, <1>10, <1>11, <1>12, <1>13,
       <1>14, <1>15, <1>16, <1>17, <1>18, <1>19
       DEF Next, SourceStep, SinkStep, ShutdownAtSink, ShutdownAtSource, Terminated

\* The variables keep their types; each task's channel holds one message at most.
THEOREM TypeCorrect == Spec => []TypeOK
  BY TypeInit, TypeNext, PTL DEF Spec


-----------------------------------------------------------------------------
(* One packet.                                                             *)

\* Where the packet can be after a channel was appended to, consumed or cut.
LEMMA DataInFacts ==
    ASSUME NEW s \in Seq(SourceAction)
    PROVE  /\ ~DataIn(<<>>)
           /\ \A x \in SourceAction :
                DataIn(Append(s, x)) <=> DataIn(s) \/ x.act = "Data"
           /\ s # <<>> => /\ DataIn(Tail(s)) => DataIn(s)
                          /\ Head(s).act = "Data" => DataIn(s)
                          /\ Len(s) = 1 => ~DataIn(Tail(s))
           /\ \A k \in 0..Len(s) : DataIn(SubSeq(s, 1, k)) => DataIn(s)
  <1>1. ~DataIn(<<>>)
    BY DEF DataIn
  <1>2. ASSUME NEW x \in SourceAction
        PROVE  DataIn(Append(s, x)) <=> DataIn(s) \/ x.act = "Data"
    BY AppendFacts DEF DataIn
  <1>3. ASSUME s # <<>>
        PROVE  /\ DataIn(Tail(s)) => DataIn(s)
               /\ Head(s).act = "Data" => DataIn(s)
               /\ Len(s) = 1 => ~DataIn(Tail(s))
    BY <1>3, TailFacts DEF DataIn
  <1>4. ASSUME NEW k \in 0..Len(s)
        PROVE  DataIn(SubSeq(s, 1, k)) => DataIn(s)
    BY PrefixFacts DEF DataIn
  <1> QED
    BY <1>1, <1>2, <1>3, <1>4

\* A channel with no Data but that of packet n stays so when a message that is no
\* Data, or the only one, is appended, when it is consumed, and when it is cut.
LEMMA OnlyDataFacts ==
    ASSUME NEW s \in Seq(SourceAction), NEW n \in Nat
    PROVE  /\ ~DataIn(s) => OnlyData(s, n)
           /\ \A x \in SourceAction :
                (OnlyData(s, n) /\ (x.act # "Data" \/ (~DataIn(s) /\ x.n = n)))
                    => OnlyData(Append(s, x), n)
           /\ OnlyData(s, n) /\ s # <<>> =>
                /\ OnlyData(Tail(s), n)
                /\ Head(s).act = "Data" => Head(s).n = n /\ ~DataIn(Tail(s))
           /\ \A k \in 0..Len(s) : OnlyData(s, n) => OnlyData(SubSeq(s, 1, k), n)
  <1>1. ~DataIn(s) => OnlyData(s, n)
    BY DEF DataIn, OnlyData
  <1>2. ASSUME NEW x \in SourceAction, OnlyData(s, n), x.act # "Data" \/ (~DataIn(s) /\ x.n = n)
        PROVE  OnlyData(Append(s, x), n)
    BY <1>2, AppendFacts DEF DataIn, OnlyData
  <1>3. ASSUME OnlyData(s, n), s # <<>>
        PROVE  /\ OnlyData(Tail(s), n)
               /\ Head(s).act = "Data" => Head(s).n = n /\ ~DataIn(Tail(s))
    BY <1>3, TailFacts DEF DataIn, OnlyData
  <1>4. ASSUME NEW k \in 0..Len(s), OnlyData(s, n)
        PROVE  OnlyData(SubSeq(s, 1, k), n)
    <2>1. /\ Len(SubSeq(s, 1, k)) = k /\ k <= Len(s) /\ Len(s) \in Nat
          /\ \A i \in 1..k : SubSeq(s, 1, k)[i] = s[i]
      BY PrefixFacts
    <2>2. ASSUME NEW i \in 1..k, NEW j \in 1..k, s[i].act = "Data", s[j].act = "Data"
          PROVE  i = j /\ s[i].n = n
      <3>1. i \in 1..Len(s) /\ j \in 1..Len(s)
        BY <2>1
      <3> QED
        BY <1>4, <2>2, <3>1 DEF OnlyData
    <2> QED
      BY <2>1, <2>2 DEF OnlyData
  <1> QED
    BY <1>1, <1>2, <1>3, <1>4

\* As DataInFacts, for acknowledgements.
LEMMA AckInFacts ==
    ASSUME NEW s \in Seq(SinkAction)
    PROVE  /\ ~AckIn(<<>>)
           /\ \A x \in SinkAction : AckIn(Append(s, x)) <=> AckIn(s) \/ x = Ack
           /\ s # <<>> => /\ AckIn(Tail(s)) => AckIn(s)
                          /\ Head(s) = Ack => AckIn(s)
                          /\ Len(s) = 1 => ~AckIn(Tail(s))
           /\ \A k \in 0..Len(s) : AckIn(SubSeq(s, 1, k)) => AckIn(s)
  <1>1. ~AckIn(<<>>)
    BY DEF AckIn
  <1>2. ASSUME NEW x \in SinkAction
        PROVE  AckIn(Append(s, x)) <=> AckIn(s) \/ x = Ack
    BY AppendFacts DEF AckIn
  <1>3. ASSUME s # <<>>
        PROVE  /\ AckIn(Tail(s)) => AckIn(s)
               /\ Head(s) = Ack => AckIn(s)
               /\ Len(s) = 1 => ~AckIn(Tail(s))
    BY <1>3, TailFacts DEF AckIn
  <1>4. ASSUME NEW k \in 0..Len(s)
        PROVE  AckIn(SubSeq(s, 1, k)) => AckIn(s)
    BY PrefixFacts DEF AckIn
  <1> QED
    BY <1>1, <1>2, <1>3, <1>4

\* As OnlyDataFacts, for acknowledgements.
LEMMA OneAckFacts ==
    ASSUME NEW s \in Seq(SinkAction)
    PROVE  /\ ~AckIn(s) => OneAck(s)
           /\ \A x \in SinkAction : (OneAck(s) /\ (~AckIn(s) \/ x # Ack)) => OneAck(Append(s, x))
           /\ OneAck(s) /\ s # <<>> =>
                /\ OneAck(Tail(s))
                /\ Head(s) = Ack => ~AckIn(Tail(s))
           /\ \A k \in 0..Len(s) : OneAck(s) => OneAck(SubSeq(s, 1, k))
  <1>1. ~AckIn(s) => OneAck(s)
    BY DEF AckIn, OneAck
  <1>2. ASSUME NEW x \in SinkAction, OneAck(s), ~AckIn(s) \/ x # Ack
        PROVE  OneAck(Append(s, x))
    BY <1>2, AppendFacts DEF AckIn, OneAck
  <1>3. ASSUME OneAck(s), s # <<>>
        PROVE  /\ OneAck(Tail(s))
               /\ Head(s) = Ack => ~AckIn(Tail(s))
    BY <1>3, TailFacts DEF AckIn, OneAck
  <1>4. ASSUME NEW k \in 0..Len(s), OneAck(s)
        PROVE  OneAck(SubSeq(s, 1, k))
    <2>1. /\ Len(SubSeq(s, 1, k)) = k /\ k <= Len(s) /\ Len(s) \in Nat
          /\ \A i \in 1..k : SubSeq(s, 1, k)[i] = s[i]
      BY PrefixFacts
    <2>2. ASSUME NEW i \in 1..k, NEW j \in 1..k, s[i] = Ack, s[j] = Ack
          PROVE  i = j
      <3>1. i \in 1..Len(s) /\ j \in 1..Len(s)
        BY <2>1
      <3> QED
        BY <1>4, <2>2, <3>1 DEF OneAck
    <2> QED
      BY <2>1, <2>2 DEF OneAck
  <1> QED
    BY <1>1, <1>2, <1>3, <1>4

\* The inductive invariant: where the packet is ties the tasks' counters to the
\* output, and that is what keeps OneBehind.
Inv == TypeOK /\ OnePacket /\ OneBehind

\* At the start nothing is under way.
LEMMA InvInit == Init => Inv
  <1> SUFFICES ASSUME Init PROVE Inv
    OBVIOUS
  <1>1. TypeOK
    BY TypeInit
  <1>2. ~DataIn(<<>>) /\ ~AckIn(<<>>) /\ OneAck(<<>>) /\ OnlyData(<<>>, 0)
    BY DEF DataIn, AckIn, OneAck, OnlyData
  <1> QED
    BY <1>1, <1>2 DEF Init, Inv, OnePacket, OneBehind, DataUnderWay, AckUnderWay,
                      SourceNew, SinkNew

\* Every action keeps the packet in one place.
LEMMA OnePacketNext == Inv /\ [Next]_vars => (OnePacket /\ OneBehind)'
  <1> SUFFICES ASSUME Inv, [Next]_vars PROVE (OnePacket /\ OneBehind)'
    OBVIOUS
  <1> USE DEF DataUnderWay, AckUnderWay
  <1>0. TypeOK /\ OnePacket /\ OneBehind /\ src.n \in Nat
    BY DEF Inv, TypeOK, SourceState
  <1>a. /\ fwd \in Seq(SourceAction) /\ snkRx \in Seq(SourceAction)
        /\ back \in Seq(SinkAction) /\ srcRx \in Seq(SinkAction)
        /\ OnlyData(fwd, src.n) /\ OnlyData(snkRx, src.n) /\ OneAck(back)
    BY <1>0 DEF TypeOK, OnePacket
  <1>c. /\ snkRx = <<>> \/ Len(snkRx) = 1
        /\ srcRx = <<>> \/ Len(srcRx) = 1
    BY <1>0, ShortSeq DEF TypeOK
  <1>b. /\ SourceClosed \in SourceAction /\ SourceClosed.act # "Data"
        /\ SinkClosed \in SinkAction /\ SinkClosed # Ack
        /\ Data(src.n) \in SourceAction /\ Data(src.n).n = src.n
    BY <1>0 DEF SourceClosed, SinkClosed, Ack, Data, SourceAction, SinkAction
  <1>1. CASE Read
    <2>1. src'.pc = "send" /\ src'.n = src.n + 1 /\ src.pc = "select"
      BY <1>0, <1>1 DEF TypeOK, SourceState, Read, SourceRead
    <2>2. ~DataIn(fwd) /\ ~DataIn(snkRx)
      BY <1>0, <2>1 DEF OnePacket
    <2>3. OnlyData(fwd, src'.n) /\ OnlyData(snkRx, src'.n)
      BY <1>0, <2>1, <2>2, OnlyDataFacts DEF TypeOK
    <2> QED
      BY <1>0, <1>1, <2>1, <2>3 DEF Read, OnePacket, OneBehind
  <1>2. CASE EndOfInput
    <2>1. src'.pc = "close" /\ src'.n = src.n
      BY <1>0, <1>2 DEF TypeOK, SourceState, EndOfInput, SourceBreak
    <2> QED
      BY <1>0, <1>2, <2>1 DEF EndOfInput, OnePacket, OneBehind
  <1>3. CASE SourceSend /\ src.pc = "send"
    <2>1. /\ src'.pc = "ack" /\ src'.n = src.n
          /\ fwd' \in {fwd, Append(fwd, Data(src.n))}
      BY <1>0, <1>3 DEF TypeOK, SourceState, SourceSend, SourceSent, Sent, SourceMsg
    <2>2. ~DataIn(fwd) /\ ~DataIn(snkRx) /\ snk.pc \notin {"write", "ack"}
      BY <1>0, <1>3 DEF OnePacket
    <2>3. OnlyData(fwd', src.n)
      <3>1. OnlyData(Append(fwd, Data(src.n)), src.n)
        BY <1>0, <1>a, <1>b, <2>2, OnlyDataFacts
      <3> QED
        BY <1>a, <2>1, <3>1
    <2> QED
      BY <1>0, <1>3, <2>1, <2>2, <2>3 DEF SourceSend, OnePacket, OneBehind
  <1>4. CASE SourceSend /\ src.pc = "close"
    <2>1. /\ src'.pc = "done" /\ src'.n = src.n
          /\ fwd' \in {fwd, Append(fwd, SourceClosed)}
      BY <1>0, <1>4 DEF TypeOK, SourceState, SourceSend, SourceSent, Sent, SourceMsg
    <2>2. OnlyData(fwd', src.n) /\ (DataIn(fwd') => DataIn(fwd))
      <3>1. /\ OnlyData(Append(fwd, SourceClosed), src.n)
            /\ DataIn(Append(fwd, SourceClosed)) => DataIn(fwd)
        BY <1>0, <1>a, <1>b, OnlyDataFacts, DataInFacts
      <3> QED
        BY <1>a, <2>1, <3>1
    <2> QED
      BY <1>0, <1>4, <2>1, <2>2 DEF SourceSend, OnePacket, OneBehind
  <1>5. CASE SourceTake
    <2>1. PICK a \in SinkAction :
            /\ a = Head(srcRx) /\ src' = SourceRecv(src, a)
            /\ a = Ack => AckIn(srcRx)
            /\ ~AckIn(srcRx')
      <3>1. /\ srcRx # <<>> /\ srcRx' = Tail(srcRx)
            /\ src' = SourceRecv(src, Head(srcRx)) /\ Head(srcRx) \in SinkAction
        BY <1>5, <1>a, TailFacts DEF SourceTake
      <3>2. Len(srcRx) = 1
        BY <3>1, <1>c
      <3> QED
        BY <1>a, <3>1, <3>2, AckInFacts
    <2>2. src'.n = src.n /\ (src'.pc = "select" => src.pc = "ack" /\ a = Ack) /\ src'.pc # "send"
      BY <1>0, <2>1 DEF SourceRecv, TypeOK, SourceState
    <2> QED
      BY <1>0, <1>5, <2>1, <2>2 DEF SourceTake, OnePacket, OneBehind
  <1>6. CASE SourceNone
    <2>1. src'.pc = "failed" /\ src'.n = src.n
      BY <1>0, <1>6 DEF TypeOK, SourceState, SourceNone, SourceRecvNone
    <2> QED
      BY <1>0, <1>6, <2>1 DEF SourceNone, OnePacket, OneBehind
  <1>7. CASE SinkTake
    <2>1. PICK a \in SourceAction :
            /\ a = Head(snkRx) /\ snk' = SinkRecv(snk, a) /\ snk.pc = "recv"
            /\ a.act = "Data" => DataIn(snkRx) /\ a.n = src.n
            /\ ~DataIn(snkRx') /\ OnlyData(snkRx', src.n)
      <3>1. /\ snkRx # <<>> /\ snkRx' = Tail(snkRx) /\ snk.pc = "recv"
            /\ snk' = SinkRecv(snk, Head(snkRx)) /\ Head(snkRx) \in SourceAction
        BY <1>7, <1>a, TailFacts DEF SinkTake
      <3>2. Len(snkRx) = 1
        BY <3>1, <1>c
      <3> QED
        BY <1>0, <1>a, <3>1, <3>2, DataInFacts, OnlyDataFacts
    <2>2. snk'.pc = "write" => snk'.n = a.n /\ a.act = "Data"
      BY <1>0, <2>1 DEF SinkRecv, TypeOK, SinkState, SourceAction
    <2>3. snk'.pc # "ack"
      BY <1>0, <2>1 DEF SinkRecv, TypeOK, SinkState
    <2> QED
      BY <1>0, <1>7, <2>1, <2>2, <2>3 DEF SinkTake, OnePacket, OneBehind
  <1>8. CASE SinkNone
    <2>1. snk'.pc = "shutdown" /\ snk.pc = "recv"
      BY <1>0, <1>8 DEF TypeOK, SinkState, SinkNone, SinkRecvNone
    <2> QED
      BY <1>0, <1>8, <2>1 DEF SinkNone, OnePacket, OneBehind
  <1>9. ASSUME NEW res \in WriteResults, Write(res) PROVE (OnePacket /\ OneBehind)'
    <2>1. snk.pc = "write" /\ snk.n = src.n /\ src.n = Len(out) + 1
      BY <1>0, <1>9 DEF Write, OnePacket
    <2>2. CASE res = "ok"
      <3>1. snk'.pc = "ack" /\ out' = Append(out, src.n)
        BY <1>0, <1>9, <2>1, <2>2 DEF Write, SinkIo, TypeOK, SinkState
      <3>2. /\ Len(out') = Len(out) + 1 /\ out'[Len(out) + 1] = src.n
            /\ \A i \in 1..Len(out) : out'[i] = out[i]
        BY <1>0, <3>1, AppendFacts DEF TypeOK
      <3>3. OneBehind'
        BY <1>0, <1>9, <2>1, <3>2 DEF OneBehind, Write, TypeOK
      <3> QED
        BY <1>0, <1>9, <2>1, <3>1, <3>2, <3>3 DEF Write, OnePacket
    <2>3. CASE res # "ok"
      <3>1. snk'.pc \notin {"write", "ack"} /\ out' = out
        BY <1>0, <1>9, <2>1, <2>3 DEF Write, SinkIo, TypeOK, SinkState
      <3> QED
        BY <1>0, <1>9, <2>1, <3>1 DEF Write, OnePacket, OneBehind
    <2> QED
      BY <2>2, <2>3
  <1>10. ASSUME NEW res \in WriteResults, Flush(res) PROVE (OnePacket /\ OneBehind)'
    <2>1. snk.pc = "flush" /\ snk'.pc \notin {"write", "ack"}
      BY <1>0, <1>10 DEF Flush, SinkIo, TypeOK, SinkState
    <2> QED
      BY <1>0, <1>10, <2>1 DEF Flush, OnePacket, OneBehind
  <1>11. CASE SinkSend
    <2>1. /\ snk'.pc \notin {"write", "ack"} /\ snk.pc \in {"ack", "notify"}
          /\ SinkMsg(snk) \in SinkAction /\ (SinkMsg(snk) = Ack <=> snk.pc = "ack")
          /\ back' \in {back, Append(back, SinkMsg(snk))}
      BY <1>0, <1>11, MsgTypes
         DEF TypeOK, SinkState, SinkSend, SinkSending, SinkSent, Sent, SinkMsg, Ack, SinkClosed
    <2>2. OneAck(back') /\ (AckIn(back') => AckIn(back) \/ snk.pc = "ack")
      <3>1. /\ (OneAck(back) /\ (~AckIn(back) \/ snk.pc # "ack"))
                  => OneAck(Append(back, SinkMsg(snk)))
            /\ AckIn(Append(back, SinkMsg(snk))) => AckIn(back) \/ snk.pc = "ack"
        BY <1>a, <2>1, OneAckFacts, AckInFacts
      <3>2. AckIn(back) => snk.pc # "ack"
        BY <1>0 DEF OnePacket
      <3> QED
        BY <1>a, <2>1, <3>1, <3>2
    <2> QED
      BY <1>0, <1>11, <2>1, <2>2 DEF SinkSend, OnePacket, OneBehind
  <1>12. CASE SinkFinish
    <2>1. snk'.pc = "done" /\ snk.pc = "shutdown"
      BY <1>0, <1>12 DEF TypeOK, SinkState, SinkFinish, SinkShutdown
    <2> QED
      BY <1>0, <1>12, <2>1 DEF SinkFinish, OnePacket, OneBehind
  <1>13. CASE RouteToSink
    <2>1. PICK a \in SourceAction :
            /\ a = Head(fwd) /\ snkRx' \in {snkRx, Append(snkRx, a)} /\ fwd' = Tail(fwd)
            /\ snkRx' # snkRx => Len(snkRx) = 0
            /\ a.act = "Data" => DataIn(fwd) /\ a.n = src.n
            /\ a.act = "Data" => ~DataIn(fwd')
            /\ DataIn(fwd') => DataIn(fwd)
            /\ OnlyData(fwd', src.n)
      BY <1>0, <1>13, TailFacts, DataInFacts, OnlyDataFacts
         DEF RouteToSink, HasRoom, TypeOK, OnePacket
    <2>2. OnlyData(snkRx', src.n) /\ (DataIn(snkRx') => DataIn(snkRx) \/ a.act = "Data")
      <3>1. snkRx' # snkRx => ~DataIn(snkRx)
        BY <2>1 DEF DataIn
      <3> QED
        <4>1. /\ ~DataIn(snkRx) => OnlyData(Append(snkRx, a), src.n)
              /\ DataIn(Append(snkRx, a)) => DataIn(snkRx) \/ a.act = "Data"
          BY <1>0, <1>a, <2>1, OnlyDataFacts, DataInFacts
        <4> QED
          BY <1>a, <2>1, <3>1, <4>1
    <2> QED
      BY <1>0, <1>13, <2>1, <2>2 DEF RouteToSink, OnePacket, OneBehind
  <1>14. CASE RouteToSource
    <2>1. PICK a \in SinkAction :
            /\ a = Head(back) /\ srcRx' \in {srcRx, Append(srcRx, a)} /\ back' = Tail(back)
            /\ a = Ack => AckIn(back) /\ ~AckIn(back')
            /\ AckIn(back') => AckIn(back)
            /\ OneAck(back')
      BY <1>0, <1>14, TailFacts, AckInFacts, OneAckFacts DEF RouteToSource, TypeOK, OnePacket
    <2>2. AckIn(srcRx') => AckIn(srcRx) \/ a = Ack
      <3>1. AckIn(Append(srcRx, a)) <=> AckIn(srcRx) \/ a = Ack
        BY <1>a, AckInFacts
      <3> QED
        BY <2>1, <3>1
    <2> QED
      BY <1>0, <1>14, <2>1, <2>2 DEF RouteToSource, OnePacket, OneBehind
  <1>15. CASE ServeSinkClosed
    <2>1. back' \in {back, Append(back, SinkClosed)} /\ SinkClosed # Ack
      BY <1>15 DEF ServeSinkClosed, Sent, Ack, SinkClosed
    <2>2. OneAck(back') /\ (AckIn(back') => AckIn(back))
      <3>1. /\ OneAck(Append(back, SinkClosed))
            /\ AckIn(Append(back, SinkClosed)) => AckIn(back)
        BY <1>a, <1>b, OneAckFacts, AckInFacts
      <3> QED
        BY <1>a, <2>1, <3>1
    <2> QED
      BY <1>0, <1>15, <2>2 DEF ServeSinkClosed, OnePacket, OneBehind
  <1>16. CASE LinkDown
    <2>1. PICK i \in 0..Len(fwd), j \in 0..Len(back) :
            fwd' = SubSeq(fwd, 1, i) /\ back' = SubSeq(back, 1, j)
      BY <1>16 DEF LinkDown
    <2>2. OnlyData(fwd', src.n) /\ (DataIn(fwd') => DataIn(fwd))
      BY <1>0, <2>1, OnlyDataFacts, DataInFacts DEF TypeOK, OnePacket
    <2>3. OneAck(back') /\ (AckIn(back') => AckIn(back))
      BY <1>0, <1>a, <2>1, OneAckFacts, AckInFacts
    <2> QED
      BY <1>0, <1>16, <2>2, <2>3 DEF LinkDown, OnePacket, OneBehind
  <1>17. CASE BeginShutdownAtSink
    <2>1. ~DataIn(fwd') /\ OnlyData(fwd', src.n)
      BY <1>17 DEF BeginShutdownAtSink, DataIn, OnlyData
    <2> QED
      BY <1>0, <1>17, <2>1 DEF BeginShutdownAtSink, OnePacket, OneBehind
  <1>18. CASE BeginShutdownAtSource
    <2>1. ~AckIn(back') /\ OneAck(back')
      BY <1>18 DEF BeginShutdownAtSource, AckIn, OneAck
    <2> QED
      BY <1>0, <1>18, <2>1 DEF BeginShutdownAtSource, OnePacket, OneBehind
  <1>19. CASE ShutdownSink
    <2>1. snkRx' \in {snkRx, Append(snkRx, SourceClosed)}
      BY <1>19 DEF ShutdownSink
    <2>2. OnlyData(snkRx', src.n) /\ (DataIn(snkRx') => DataIn(snkRx))
      <3>1. /\ OnlyData(Append(snkRx, SourceClosed), src.n)
            /\ DataIn(Append(snkRx, SourceClosed)) => DataIn(snkRx)
        BY <1>0, <1>a, <1>b, OnlyDataFacts, DataInFacts
      <3> QED
        BY <1>a, <2>1, <3>1
    <2> QED
      BY <1>0, <1>19, <2>2 DEF ShutdownSink, OnePacket, OneBehind
  <1>20. CASE ShutdownSource
    <2>1. srcRx' \in {srcRx, Append(srcRx, SinkClosed)} /\ SinkClosed # Ack
      BY <1>20 DEF ShutdownSource, Ack, SinkClosed
    <2>2. AckIn(srcRx') => AckIn(srcRx)
      BY <1>0, <2>1, AckInFacts, MsgTypes DEF TypeOK
    <2> QED
      BY <1>0, <1>20, <2>2 DEF ShutdownSource, OnePacket, OneBehind
  <1>21. CASE ReceiverFails
    BY <1>0, <1>21 DEF ReceiverFails, OnePacket, OneBehind
  <1>22. CASE UNCHANGED vars
    BY <1>0, <1>22 DEF vars, OnePacket, OneBehind
  <1>23. SourceSend => src.pc \in {"send", "close"}
    BY DEF SourceSend, SourceSending
  <1> QED
    BY <1>1, <1>2, <1>3, <1>4, <1>5, <1>6, <1>7, <1>8, <1>9, <1>10, <1>11, <1>12, <1>13,
       <1>14, <1>15, <1>16, <1>17, <1>18, <1>19, <1>20, <1>21, <1>22, <1>23
       DEF Next, SourceStep, SinkStep, ShutdownAtSink, ShutdownAtSource, Terminated

\* The invariant is inductive.
LEMMA InvNext == Inv /\ [Next]_vars => Inv'
  BY TypeNext, OnePacketNext DEF Inv

\* The inductive invariant holds in every reachable state of a stream.
THEOREM Invariance == Spec => []Inv
  BY InvInit, InvNext, PTL DEF Spec

\* The packet under way is in one place at most (Stream.tla), for any faults.
THEOREM OnePacketCorrect == Spec => []OnePacket
  <1>1. Inv => OnePacket
    BY DEF Inv
  <1> QED
    BY <1>1, Invariance, PTL

\* The output is the input in order, complete but for the packet under way.
THEOREM OneBehindCorrect == Spec => []OneBehind
  <1>1. Inv => OneBehind
    BY DEF Inv
  <1> QED
    BY <1>1, Invariance, PTL

\* Only a message can make the source go on to select, or panic.
LEMMA SourceSteps ==
    ASSUME TypeOK, [Next]_vars
    PROVE  SourceTake \/ src' = src \/ src'.pc \in {"send", "close", "ack", "done", "failed"}
  <1>1. CASE Read
    BY <1>1 DEF Read, SourceRead
  <1>2. CASE EndOfInput
    BY <1>2 DEF EndOfInput, SourceBreak, TypeOK, SourceState
  <1>3. CASE SourceSend
    BY <1>3 DEF SourceSend, SourceSent, TypeOK, SourceState
  <1>4. CASE SourceNone
    BY <1>4 DEF SourceNone, SourceRecvNone, TypeOK, SourceState
  <1>5. CASE UNCHANGED vars
    BY <1>5 DEF vars
  <1>6. CASE SinkTake \/ SinkNone \/ SinkSend \/ SinkFinish
    BY <1>6 DEF SinkTake, SinkNone, SinkSend, SinkFinish
  <1>7. CASE \E res \in WriteResults : Write(res) \/ Flush(res)
    BY <1>7 DEF Write, Flush
  <1>8. CASE RouteToSink \/ RouteToSource \/ ServeSinkClosed \/ LinkDown \/ ReceiverFails
    BY <1>8 DEF RouteToSink, RouteToSource, ServeSinkClosed, LinkDown, ReceiverFails
  <1>9. CASE ShutdownAtSink \/ ShutdownAtSource
    BY <1>9 DEF ShutdownAtSink, ShutdownAtSource, BeginShutdownAtSink,
                BeginShutdownAtSource, ShutdownSink, ShutdownSource
  <1> QED
    BY <1>1, <1>2, <1>3, <1>4, <1>5, <1>6, <1>7, <1>8, <1>9
       DEF Next, SourceStep, SinkStep, Terminated

\* An Ack finds the source waiting for it, with its packet written.
LEMMA AckTaken ==
    ASSUME Inv, SourceTake
    PROVE  /\ src'.pc # "panicked"
           /\ src'.pc = "select" => Len(out) = src.n
  <1>1. /\ src \in SourceState /\ src.pc \in {"select", "ack"}
        /\ src' = SourceRecv(src, Head(srcRx))
    BY DEF Inv, TypeOK, SourceTake, SourceListening
  <1>2. /\ Head(srcRx) \in SinkAction
        /\ Head(srcRx) = Ack => AckIn(srcRx)
    BY TailFacts, AckInFacts DEF Inv, TypeOK, SourceTake
  <1>3. CASE Head(srcRx) = Ack
    <2>1. AckUnderWay
      BY <1>2, <1>3 DEF AckUnderWay
    <2>2. src.pc = "ack" /\ src.n = Len(out)
      BY <1>1, <2>1 DEF Inv, OnePacket
    <2>3. src'.pc = "select"
      BY <1>1, <1>3, <2>2 DEF SourceRecv, SourceState, Ack, SinkClosed
    <2> QED
      BY <2>2, <2>3
  <1>4. CASE Head(srcRx) = SinkClosed
    BY <1>1, <1>4 DEF SourceRecv, SourceState, Ack, SinkClosed
  <1> QED
    BY <1>2, <1>3, <1>4 DEF SinkAction

\* source.rs never reaches its panic, whatever is closed, lost or shut down.
THEOREM NoPanicCorrect == Spec => []NoPanic
  <1>1. Init => NoPanic
    BY DEF Init, NoPanic, SourceNew
  <1>2. Inv /\ NoPanic /\ [Next]_vars => NoPanic'
    BY SourceSteps, AckTaken DEF Inv, NoPanic
  <1> QED
    BY <1>1, <1>2, Invariance, PTL DEF Spec

\* The source goes on to the next packet only after this one was written.
THEOREM AckedIsWrittenCorrect == Spec => AckedIsWritten
  <1>1. Inv /\ [Next]_vars => [(src.pc = "ack" /\ src'.pc = "select") => Len(out) = src.n]_vars
    BY SourceSteps, AckTaken DEF Inv
  <1> QED
    BY <1>1, Invariance, PTL DEF Spec, AckedIsWritten

-----------------------------------------------------------------------------
(* Closing.  OnePacket says where the packet is; the conjuncts below say    *)
(* where the close messages are, what has caused them, and that a packet    *)
(* only disappears together with the cause of a loss.                       *)

SourceClosedIn(chan) == \E i \in 1..Len(chan) : chan[i].act = "SourceClosed"
LastClose(chan) == \A i \in 1..Len(chan) : chan[i].act = "SourceClosed" => i = Len(chan)
SinkClosedIn(chan) == \E i \in 1..Len(chan) : chan[i] = SinkClosed

\* A receiver only begins its shutdown when the connection is lost, and what was
\* under way to it is dropped then.
ClosingIsDown ==
    /\ snkRcv \in {"closing", "gone"} => link = "down" /\ fwd = <<>>
    /\ srcRcv \in {"closing", "gone"} => link = "down"

\* The close message is the last thing a source sends.
CloseIsLast ==
    /\ SourceClosedIn(fwd) => src.pc = "done"
    /\ LastClose(fwd)

\* A close message in the sink's channel is the receiver's own, or the last message.
CloseArrived ==
    SourceClosedIn(snkRx) => snkRcv = "gone" \/ (src.pc = "done" /\ fwd = <<>>)

\* A sink ends in good order when its receiver has left it, or after the last message.
SinkOver ==
    (snk.pc \in {"shutdown", "done"} /\ snkRcv \notin Silent) =>
        src.pc = "done" /\ fwd = <<>> /\ ~DataIn(snkRx)

\* The source is told to close by serve(), by a sink whose pipe broke, or by the
\* shutdown of its receiver.
CloseHasCause ==
    /\ SinkClosedIn(back) \/ SinkClosedIn(srcRx) => served \/ snk.closed \/ srcRcv = "gone"
    /\ snk.pc = "notify" => snk.closed
    /\ snk.pc = "write" => ~snk.closed

\* A source that closes with its packet under way was told to by serve().
CloseServed ==
    (src.pc \in {"close", "done"} /\ link = "up" /\ DataUnderWay /\ ~snk.closed) => served

\* So was one whose close message has overtaken its packet's acknowledgement.
ClosedArrived ==
    /\ SourceClosedIn(fwd) \/ (SourceClosedIn(snkRx) /\ snkRcv # "gone")
    /\ DataUnderWay
    /\ ~snk.closed
    => served

\* A packet that was read is written, still under way, or lost with a cause.
NotLost ==
    (src.n = Len(out) + 1 /\ ~snk.closed /\ snk.pc # "failed" /\ ~Faulty) =>
        src.pc = "send" \/ DataUnderWay

CloseInv ==
    /\ ClosingIsDown
    /\ CloseIsLast
    /\ CloseArrived
    /\ SinkOver
    /\ CloseHasCause
    /\ CloseServed
    /\ ClosedArrived
    /\ NotLost

-----------------------------------------------------------------------------
(* The channels.                                                           *)

\* Where the close message can be after a channel was appended to, consumed or cut.
LEMMA SourceClosedFacts ==
    ASSUME NEW s \in Seq(SourceAction)
    PROVE  /\ ~SourceClosedIn(<<>>)
           /\ \A x \in SourceAction :
                SourceClosedIn(Append(s, x)) <=> SourceClosedIn(s) \/ x.act = "SourceClosed"
           /\ s # <<>> => /\ SourceClosedIn(Tail(s)) => SourceClosedIn(s)
                          /\ Head(s).act = "SourceClosed" => SourceClosedIn(s)
                          /\ Len(s) = 1 => ~SourceClosedIn(Tail(s))
           /\ \A k \in 0..Len(s) : SourceClosedIn(SubSeq(s, 1, k)) => SourceClosedIn(s)
  <1>1. ~SourceClosedIn(<<>>)
    BY DEF SourceClosedIn
  <1>2. ASSUME NEW x \in SourceAction
        PROVE  SourceClosedIn(Append(s, x)) <=> SourceClosedIn(s) \/ x.act = "SourceClosed"
    BY AppendFacts DEF SourceClosedIn
  <1>3. ASSUME s # <<>>
        PROVE  /\ SourceClosedIn(Tail(s)) => SourceClosedIn(s)
               /\ Head(s).act = "SourceClosed" => SourceClosedIn(s)
               /\ Len(s) = 1 => ~SourceClosedIn(Tail(s))
    BY <1>3, TailFacts DEF SourceClosedIn
  <1>4. ASSUME NEW k \in 0..Len(s)
        PROVE  SourceClosedIn(SubSeq(s, 1, k)) => SourceClosedIn(s)
    BY PrefixFacts DEF SourceClosedIn
  <1> QED
    BY <1>1, <1>2, <1>3, <1>4

\* Nothing follows a close message: a message only goes to a channel without one,
\* and when it is taken the channel is empty.
LEMMA LastCloseFacts ==
    ASSUME NEW s \in Seq(SourceAction)
    PROVE  /\ LastClose(<<>>)
           /\ \A x \in SourceAction : ~SourceClosedIn(s) => LastClose(Append(s, x))
           /\ LastClose(s) /\ s # <<>> =>
                /\ LastClose(Tail(s))
                /\ Head(s).act = "SourceClosed" => Tail(s) = <<>>
           /\ \A k \in 0..Len(s) : LastClose(s) => LastClose(SubSeq(s, 1, k))
  <1>1. LastClose(<<>>)
    BY DEF LastClose
  <1>2. ASSUME NEW x \in SourceAction, ~SourceClosedIn(s)
        PROVE  LastClose(Append(s, x))
    BY <1>2, AppendFacts DEF SourceClosedIn, LastClose
  <1>3. ASSUME LastClose(s), s # <<>>
        PROVE  /\ LastClose(Tail(s))
               /\ Head(s).act = "SourceClosed" => Tail(s) = <<>>
    <2> DEFINE t == Tail(s)
    <2>1. /\ Head(s) = s[1] /\ Len(t) = Len(s) - 1 /\ 1 \in 1..Len(s)
          /\ t \in Seq(SourceAction) /\ Len(s) \in Nat
          /\ \A i \in 1..Len(t) : t[i] = s[i + 1]
      BY <1>3, TailFacts
    <2> HIDE DEF t
    <2>2. ASSUME NEW i \in 1..Len(t), t[i].act = "SourceClosed"
          PROVE  i = Len(t)
      <3>1. i + 1 \in 1..Len(s) /\ s[i + 1].act = "SourceClosed"
        BY <2>1, <2>2
      <3>2. i + 1 = Len(s)
        BY <1>3, <3>1 DEF LastClose
      <3> QED
        BY <2>1, <3>2
    <2>3. ASSUME Head(s).act = "SourceClosed" PROVE t = <<>>
      <3>1. 1 = Len(s)
        BY <1>3, <2>1, <2>3 DEF LastClose
      <3> QED
        BY <2>1, <3>1
    <2>4. LastClose(t)
      BY <2>2 DEF LastClose
    <2> QED
      BY <2>3, <2>4 DEF t
  <1>4. ASSUME NEW k \in 0..Len(s), LastClose(s)
        PROVE  LastClose(SubSeq(s, 1, k))
    <2>1. /\ Len(SubSeq(s, 1, k)) = k /\ k <= Len(s) /\ Len(s) \in Nat
          /\ \A i \in 1..k : SubSeq(s, 1, k)[i] = s[i]
      BY PrefixFacts
    <2>2. ASSUME NEW i \in 1..k, s[i].act = "SourceClosed"
          PROVE  i = k
      <3>1. i \in 1..Len(s)
        BY <2>1
      <3>2. i = Len(s)
        BY <1>4, <2>2, <3>1 DEF LastClose
      <3> QED
        BY <2>1, <3>2
    <2> QED
      BY <2>1, <2>2 DEF LastClose
  <1> QED
    BY <1>1, <1>2, <1>3, <1>4

\* As SourceClosedFacts, for the message that a sink sends when it is closed.
LEMMA SinkClosedFacts ==
    ASSUME NEW s \in Seq(SinkAction)
    PROVE  /\ ~SinkClosedIn(<<>>)
           /\ \A x \in SinkAction :
                SinkClosedIn(Append(s, x)) <=> SinkClosedIn(s) \/ x = SinkClosed
           /\ s # <<>> => /\ SinkClosedIn(Tail(s)) => SinkClosedIn(s)
                          /\ Head(s) = SinkClosed => SinkClosedIn(s)
           /\ \A k \in 0..Len(s) : SinkClosedIn(SubSeq(s, 1, k)) => SinkClosedIn(s)
  <1>1. ~SinkClosedIn(<<>>)
    BY DEF SinkClosedIn
  <1>2. ASSUME NEW x \in SinkAction
        PROVE  SinkClosedIn(Append(s, x)) <=> SinkClosedIn(s) \/ x = SinkClosed
    BY AppendFacts DEF SinkClosedIn
  <1>3. ASSUME s # <<>>
        PROVE  /\ SinkClosedIn(Tail(s)) => SinkClosedIn(s)
               /\ Head(s) = SinkClosed => SinkClosedIn(s)
    BY <1>3, TailFacts DEF SinkClosedIn
  <1>4. ASSUME NEW k \in 0..Len(s)
        PROVE  SinkClosedIn(SubSeq(s, 1, k)) => SinkClosedIn(s)
    BY PrefixFacts DEF SinkClosedIn
  <1> QED
    BY <1>1, <1>2, <1>3, <1>4

-----------------------------------------------------------------------------
(* The invariant.                                                          *)

\* Nothing is closed at the start.
LEMMA CloseInit == Init => CloseInv
  <1>1. /\ ~DataIn(<<>>) /\ ~SourceClosedIn(<<>>) /\ ~SinkClosedIn(<<>>) /\ LastClose(<<>>)
    BY DEF DataIn, SourceClosedIn, SinkClosedIn, LastClose
  <1>2. Len(<<>>) = 0
    OBVIOUS
  <1> SUFFICES ASSUME Init PROVE CloseInv
    OBVIOUS
  <1>3. src.pc = "select" /\ src.n = 0 /\ snk.pc = "recv" /\ Len(out) = 0
    BY <1>2 DEF Init, SourceNew, SinkNew
  <1> QED
    BY <1>1, <1>3 DEF Init, CloseInv, ClosingIsDown, CloseIsLast, CloseArrived, SinkOver,
           CloseHasCause, CloseServed, ClosedArrived, NotLost

\* Every step keeps the close messages in their place.
LEMMA CloseNext == Inv /\ CloseInv /\ [Next]_vars => CloseInv'
  <1> SUFFICES ASSUME Inv, CloseInv, [Next]_vars PROVE CloseInv'
    OBVIOUS
  <1> USE DEF DataUnderWay, Faulty, Silent
  <1>0. /\ TypeOK /\ src.n \in Nat /\ Len(out) \in Nat
        /\ src \in SourceState /\ snk \in SinkState
        /\ fwd \in Seq(SourceAction) /\ snkRx \in Seq(SourceAction)
        /\ back \in Seq(SinkAction) /\ srcRx \in Seq(SinkAction)
        /\ snkRcv \in ReceiverState /\ srcRcv \in ReceiverState /\ link \in {"up", "down"}
    BY DEF Inv, TypeOK, SourceState
  <1>a. /\ ClosingIsDown /\ CloseIsLast /\ CloseArrived /\ SinkOver /\ CloseHasCause
        /\ CloseServed /\ ClosedArrived /\ NotLost
    BY DEF CloseInv
  <1>b. /\ src.pc \in {"select", "send"} => ~DataUnderWay
        /\ src.pc = "select" => src.n = Len(out)
        /\ DataUnderWay => src.n = Len(out) + 1
        /\ src.n # Len(out) + 2
    BY <1>0 DEF Inv, OnePacket, OneBehind
  <1>c. /\ snkRx = <<>> \/ Len(snkRx) = 1
        /\ srcRx = <<>> \/ Len(srcRx) = 1
    BY <1>0, ShortSeq DEF TypeOK
  <1>d. /\ SourceClosed \in SourceAction /\ SourceClosed.act = "SourceClosed"
        /\ SinkClosed \in SinkAction /\ Ack \in SinkAction /\ SinkClosed # Ack
        /\ Data(src.n) \in SourceAction /\ Data(src.n).act = "Data"
        /\ ~DataIn(<<>>) /\ ~SourceClosedIn(<<>>) /\ ~SinkClosedIn(<<>>) /\ LastClose(<<>>)
    BY <1>0 DEF SourceClosed, SinkClosed, Ack, Data, SourceAction, SinkAction,
                DataIn, SourceClosedIn, SinkClosedIn, LastClose
  <1> USE DEF CloseInv, ClosingIsDown, CloseIsLast, CloseArrived, SinkOver, CloseHasCause,
              CloseServed, ClosedArrived, NotLost
  <1>1. CASE Read
    <2>1. src'.pc = "send" /\ src'.n = src.n + 1 /\ src.pc = "select"
      BY <1>0, <1>1 DEF SourceState, Read, SourceRead
    <2> QED
      BY <1>a, <1>b, <1>1, <2>1 DEF Read
  <1>2. CASE EndOfInput
    <2>1. src'.pc = "close" /\ src'.n = src.n /\ src.pc = "select"
      BY <1>0, <1>2 DEF SourceState, EndOfInput, SourceBreak
    <2> QED
      BY <1>a, <1>b, <1>2, <2>1 DEF EndOfInput
  <1>3. CASE SourceSend /\ src.pc = "send"
    <2>1. /\ src'.pc = "ack" /\ src'.n = src.n
          /\ IF link = "up" THEN fwd' = Append(fwd, Data(src.n)) ELSE fwd' = fwd
      BY <1>0, <1>3 DEF SourceState, SourceSend, SourceSent, Sent, SourceMsg
    <2>2. /\ DataIn(Append(fwd, Data(src.n)))
          /\ ~SourceClosedIn(Append(fwd, Data(src.n)))
          /\ LastClose(Append(fwd, Data(src.n)))
      BY <1>0, <1>a, <1>3, <1>d, DataInFacts, SourceClosedFacts, LastCloseFacts
    <2> QED
      BY <1>0, <1>a, <1>b, <1>3, <2>1, <2>2 DEF SourceSend
  <1>4. CASE SourceSend /\ src.pc = "close"
    <2>1. /\ src'.pc = "done" /\ src'.n = src.n
          /\ IF link = "up" THEN fwd' = Append(fwd, SourceClosed) ELSE fwd' = fwd
      BY <1>0, <1>4 DEF SourceState, SourceSend, SourceSent, Sent, SourceMsg
    <2>2. /\ DataIn(Append(fwd, SourceClosed)) <=> DataIn(fwd)
          /\ SourceClosedIn(Append(fwd, SourceClosed))
          /\ LastClose(Append(fwd, SourceClosed))
      BY <1>0, <1>a, <1>4, <1>d, DataInFacts, SourceClosedFacts, LastCloseFacts
    <2> QED
      BY <1>a, <1>b, <1>4, <2>1, <2>2 DEF SourceSend
  <1>5. CASE SourceTake
    <2>1. PICK a \in SinkAction :
            /\ src' = SourceRecv(src, a) /\ src.pc \in {"select", "ack"}
            /\ a = SinkClosed => SinkClosedIn(srcRx)
            /\ SinkClosedIn(srcRx') => SinkClosedIn(srcRx)
      BY <1>0, <1>5, TailFacts, SinkClosedFacts DEF SourceTake, SourceListening
    <2>2. /\ src'.n = src.n
          /\ src'.pc \in {"select", "close", "panicked"}
          /\ src'.pc = "close" => a = SinkClosed
      BY <1>0, <1>d, <2>1 DEF SourceRecv, SourceState, SinkAction
    <2> QED
      BY <1>a, <1>b, <1>5, <2>1, <2>2 DEF SourceTake
  <1>6. CASE SourceNone
    <2>1. src'.pc = "failed" /\ src'.n = src.n /\ src.pc \in {"select", "ack"}
      BY <1>0, <1>6 DEF SourceState, SourceNone, SourceRecvNone, SourceListening
    <2> QED
      BY <1>a, <1>6, <2>1 DEF SourceNone
  <1>7. CASE SinkTake
    <2>1. PICK a \in SourceAction :
            /\ snk' = SinkRecv(snk, a) /\ snk.pc = "recv"
            /\ a.act = "Data" <=> DataIn(snkRx)
            /\ a.act = "SourceClosed" <=> SourceClosedIn(snkRx)
            /\ ~DataIn(snkRx') /\ ~SourceClosedIn(snkRx')
      <3>1. /\ snkRx # <<>> /\ snkRx' = Tail(snkRx) /\ snk.pc = "recv"
            /\ snk' = SinkRecv(snk, Head(snkRx))
        BY <1>7 DEF SinkTake
      <3>2. Len(snkRx) = 1 /\ Head(snkRx) \in SourceAction /\ Head(snkRx) = snkRx[1]
        BY <1>0, <1>c, <3>1, TailFacts
      <3>3. /\ Head(snkRx).act = "Data" <=> DataIn(snkRx)
            /\ Head(snkRx).act = "SourceClosed" <=> SourceClosedIn(snkRx)
        BY <3>2 DEF DataIn, SourceClosedIn
      <3> QED
        BY <1>0, <3>1, <3>2, <3>3, DataInFacts, SourceClosedFacts
    <2>2. /\ snk'.closed = snk.closed
          /\ CASE a.act = "SourceClosed" -> snk'.pc = "shutdown"
               [] a.act # "SourceClosed" /\ snk.closed -> snk'.pc = "notify"
               [] OTHER -> snk'.pc = "write"
          /\ a.act \in {"Data", "SourceClosed"}
      BY <1>0, <2>1 DEF SinkRecv, SinkState, SourceAction
    <2> QED
      BY <1>a, <1>b, <1>7, <2>1, <2>2 DEF SinkTake
  <1>8. CASE SinkNone
    <2>1. /\ snk'.pc = "shutdown" /\ snk'.closed = snk.closed /\ snk.pc = "recv"
          /\ snkRcv \in Silent
      BY <1>0, <1>8 DEF SinkState, SinkNone, SinkRecvNone
    <2> QED
      BY <1>a, <1>8, <2>1 DEF SinkNone
  <1>9. ASSUME NEW res \in WriteResults, Write(res) PROVE CloseInv'
    <2>1. CASE res = "ok"
      <3>1. snk'.pc = "ack" /\ snk'.closed = snk.closed /\ snk.pc = "write"
            /\ out' = Append(out, snk.n)
        BY <1>0, <1>9, <2>1 DEF Write, SinkIo, SinkState
      <3>2. Len(out') = Len(out) + 1
        BY <1>0, <3>1 DEF TypeOK
      <3> QED
        BY <1>a, <1>b, <1>9, <3>1, <3>2 DEF Write
    <2>2. CASE res # "ok"
      <3>1. /\ snk.pc = "write" /\ out' = out
            /\ \/ snk'.pc = "notify" /\ snk'.closed
               \/ snk'.pc = "failed" /\ snk'.closed = snk.closed
        BY <1>0, <1>9, <2>2 DEF Write, SinkIo, SinkState
      <3> QED
        BY <1>a, <1>b, <1>9, <3>1 DEF Write
    <2> QED
      BY <2>1, <2>2
  <1>10. ASSUME NEW res \in WriteResults, Flush(res) PROVE CloseInv'
    <2>1. /\ snk.pc = "flush"
          /\ \/ snk'.pc = "recv" /\ snk'.closed = snk.closed
             \/ snk'.pc = "notify" /\ snk'.closed
             \/ snk'.pc = "failed" /\ snk'.closed = snk.closed
      BY <1>0, <1>10 DEF Flush, SinkIo, SinkState
    <2> QED
      BY <1>a, <1>b, <1>10, <2>1 DEF Flush
  <1>11. CASE SinkSend
    <2>1. /\ snk.pc \in {"ack", "notify"} /\ snk'.pc \in {"flush", "recv"}
          /\ snk'.closed = snk.closed
          /\ SinkMsg(snk) \in SinkAction /\ (SinkMsg(snk) = SinkClosed => snk.pc = "notify")
          /\ back' \in {back, Append(back, SinkMsg(snk))}
      BY <1>0, <1>11, <1>d, MsgTypes
         DEF SinkState, SinkSend, SinkSending, SinkSent, Sent, SinkMsg
    <2>2. SinkClosedIn(back') => SinkClosedIn(back) \/ snk.pc = "notify"
      <3>1. SinkClosedIn(Append(back, SinkMsg(snk))) => SinkClosedIn(back) \/ snk.pc = "notify"
        BY <1>0, <2>1, SinkClosedFacts
      <3> QED
        BY <2>1, <3>1
    <2> QED
      BY <1>a, <1>b, <1>11, <2>1, <2>2 DEF SinkSend
  <1>12. CASE SinkFinish
    <2>1. snk'.pc = "done" /\ snk.pc = "shutdown" /\ snk'.closed = snk.closed
      BY <1>0, <1>12 DEF SinkState, SinkFinish, SinkShutdown
    <2> QED
      BY <1>a, <1>12, <2>1 DEF SinkFinish
  <1>13. CASE RouteToSink
    <2>0. /\ fwd # <<>> /\ fwd' = Tail(fwd) /\ snkRcv = "route"
          /\ \/ snkRcv' = "failed" /\ snkRx' = snkRx
             \/ /\ snkRcv' = snkRcv /\ snkRx = <<>> /\ snkRx' = Append(snkRx, Head(fwd))
                /\ snk.pc \notin {"done", "failed"}
      <3>1. HasRoom(snkRx) => snkRx = <<>>
        BY <1>0, <1>c DEF HasRoom, ChanCap
      <3> QED
        BY <1>13, <3>1, Zenon DEF RouteToSink, SinkEnded
    <2>1. PICK a \in SourceAction :
            /\ a = Head(fwd)
            /\ a.act = "Data" => DataIn(fwd)
            /\ a.act = "SourceClosed" => SourceClosedIn(fwd) /\ fwd' = <<>>
            /\ a.act # "Data" /\ DataIn(fwd) => DataIn(fwd')
            /\ DataIn(fwd') => DataIn(fwd)
            /\ SourceClosedIn(fwd') => SourceClosedIn(fwd)
            /\ LastClose(fwd')
      <3>1. /\ Head(fwd) = fwd[1] /\ Head(fwd) \in SourceAction /\ Len(fwd') = Len(fwd) - 1
            /\ Len(fwd) \in Nat
            /\ \A i \in 1..Len(fwd') : fwd'[i] = fwd[i + 1]
        BY <1>0, <2>0, TailFacts
      <3>2. Head(fwd).act # "Data" /\ DataIn(fwd) => DataIn(fwd')
        <4> SUFFICES ASSUME Head(fwd).act # "Data", DataIn(fwd) PROVE DataIn(fwd')
          OBVIOUS
        <4>1. PICK i \in 1..Len(fwd) : fwd[i].act = "Data"
          BY DEF DataIn
        <4>2. i - 1 \in 1..Len(fwd') /\ fwd'[i - 1] = fwd[i]
          BY <3>1, <4>1
        <4> QED
          BY <4>1, <4>2 DEF DataIn
      <3> QED
        BY <1>0, <1>a, <2>0, <3>1, <3>2, DataInFacts, SourceClosedFacts, LastCloseFacts
    <2>2. ASSUME snkRx = <<>>, snkRx' = Append(snkRx, a)
          PROVE  /\ DataIn(snkRx') <=> a.act = "Data"
                 /\ SourceClosedIn(snkRx') <=> a.act = "SourceClosed"
      BY <1>0, <1>d, <2>1, <2>2, DataInFacts, SourceClosedFacts
    <2>3. CASE snkRcv' = "failed" /\ snkRx' = snkRx
      BY <1>a, <1>b, <1>13, <2>0, <2>1, <2>3 DEF RouteToSink
    <2>4. CASE /\ snkRcv' = snkRcv /\ snkRx = <<>> /\ snkRx' = Append(snkRx, Head(fwd))
               /\ snk.pc \notin {"done", "failed"}
      <3>1. /\ ~DataIn(snkRx) /\ ~SourceClosedIn(snkRx)
            /\ DataIn(snkRx') <=> a.act = "Data"
            /\ SourceClosedIn(snkRx') <=> a.act = "SourceClosed"
        BY <1>d, <2>1, <2>2, <2>4
      <3>2. a.act \in {"Data", "SourceClosed"}
        BY <2>1 DEF SourceAction
      <3> QED
        BY <1>a, <1>b, <1>13, <2>0, <2>1, <2>4, <3>1, <3>2 DEF RouteToSink
    <2> QED
      BY <2>0, <2>3, <2>4
  <1>14. CASE RouteToSource
    <2>1. /\ SinkClosedIn(back') => SinkClosedIn(back)
          /\ SinkClosedIn(srcRx') => SinkClosedIn(srcRx) \/ SinkClosedIn(back)
      <3>1. /\ back # <<>> /\ back' = Tail(back)
            /\ srcRx' \in {srcRx, Append(srcRx, Head(back))} /\ Head(back) \in SinkAction
        BY <1>0, <1>14, TailFacts DEF RouteToSource
      <3>2. /\ SinkClosedIn(Tail(back)) => SinkClosedIn(back)
            /\ Head(back) = SinkClosed => SinkClosedIn(back)
        BY <1>0, <3>1, SinkClosedFacts
      <3>3. SinkClosedIn(Append(srcRx, Head(back))) => SinkClosedIn(srcRx) \/ Head(back) = SinkClosed
        BY <1>0, <3>1, SinkClosedFacts
      <3> QED
        BY <3>1, <3>2, <3>3
    <2> QED
      BY <1>a, <1>14, <2>1 DEF RouteToSource
  <1>15. CASE ServeSinkClosed
    BY <1>a, <1>15 DEF ServeSinkClosed
  <1>16. CASE LinkDown
    <2>1. PICK i \in 0..Len(fwd), j \in 0..Len(back) :
            fwd' = SubSeq(fwd, 1, i) /\ back' = SubSeq(back, 1, j)
      BY <1>16 DEF LinkDown
    <2>2. /\ DataIn(fwd') => DataIn(fwd)
          /\ SourceClosedIn(fwd') => SourceClosedIn(fwd)
          /\ LastClose(fwd')
          /\ SinkClosedIn(back') => SinkClosedIn(back)
          /\ fwd = <<>> => fwd' = <<>>
      <3>1. fwd = <<>> => fwd' = <<>>
        BY <1>0, <2>1, PrefixFacts
      <3> QED
        BY <1>0, <1>a, <2>1, <3>1, DataInFacts, SourceClosedFacts, LastCloseFacts, SinkClosedFacts
    <2> QED
      BY <1>a, <1>16, <2>2 DEF LinkDown
  <1>17. CASE BeginShutdownAtSink
    BY <1>a, <1>d, <1>17 DEF BeginShutdownAtSink
  <1>18. CASE BeginShutdownAtSource
    BY <1>a, <1>d, <1>18 DEF BeginShutdownAtSource
  <1>19. CASE ShutdownSink
    <2>1. /\ snkRx' \in {snkRx, Append(snkRx, SourceClosed)}
          /\ snkRcv = "closing" /\ snkRcv' = "gone"
      BY <1>19 DEF ShutdownSink
    <2>2. DataIn(snkRx') => DataIn(snkRx)
      <3>1. DataIn(Append(snkRx, SourceClosed)) => DataIn(snkRx)
        BY <1>0, <1>d, DataInFacts
      <3> QED
        BY <2>1, <3>1
    <2> QED
      BY <1>a, <1>19, <2>1, <2>2 DEF ShutdownSink
  <1>20. CASE ShutdownSource
    <2>1. srcRcv = "closing" /\ srcRcv' = "gone"
      BY <1>20 DEF ShutdownSource
    <2> QED
      BY <1>a, <1>20, <2>1 DEF ShutdownSource
  <1>21. CASE ReceiverFails
    BY <1>a, <1>21 DEF ReceiverFails
  <1>22. CASE UNCHANGED vars
    BY <1>a, <1>22 DEF vars
  <1>23. SourceSend => src.pc \in {"send", "close"}
    BY DEF SourceSend, SourceSending
  <1> QED
    BY <1>1, <1>2, <1>3, <1>4, <1>5, <1>6, <1>7, <1>8, <1>9, <1>10, <1>11, <1>12, <1>13,
       <1>14, <1>15, <1>16, <1>17, <1>18, <1>19, <1>20, <1>21, <1>22, <1>23, Zenon
       DEF Next, SourceStep, SinkStep, ShutdownAtSink, ShutdownAtSource, Terminated

\* The close messages are in their place in every reachable state of a stream.
THEOREM CloseInvariance == Spec => []CloseInv
  BY CloseInit, CloseNext, Invariance, PTL DEF Spec

-----------------------------------------------------------------------------
(* What the invariant says about the end of a stream.                      *)

\* The receiver never finds its sink gone, but for one that failed on a write
\* (Stream.tla), so that no close in good order can end a receiver task.
THEOREM NoStraySourceActionCorrect == Spec => []NoStraySourceAction
  <1>1. CloseInv => NoStraySourceAction
    BY DEF CloseInv, SinkOver, NoStraySourceAction, SinkEnded, Silent
  <1> QED
    BY <1>1, CloseInvariance, PTL

\* While a sink writes, its channel is empty or holds the last message there is.
LEMMA FullWhileWriting ==
    ASSUME Inv, CloseInv, ~HasRoom(snkRx), snk.pc = "write"
    PROVE  SourceClosedIn(snkRx)
  <1>1. snkRx \in Seq(SourceAction) /\ Len(snkRx) = 1
    BY ShortSeq DEF Inv, TypeOK, HasRoom, ChanCap
  <1>2. 1 \in 1..Len(snkRx) /\ snkRx[1] \in SourceAction
    BY <1>1
  <1>3. ~DataIn(snkRx)
    BY DEF Inv, OnePacket
  <1>4. snkRx[1].act = "SourceClosed"
    BY <1>2, <1>3 DEF DataIn, SourceAction
  <1> QED
    BY <1>2, <1>4 DEF SourceClosedIn

\* No message is stuck behind an output that does not accept data, and the shutdown
\* of a receiver can only be held up there once the child process has exited.
THEOREM NeverStallsCorrect == Spec => []NeverStalls
  <1>1. Inv /\ CloseInv => NeverStalls
    <2> SUFFICES ASSUME Inv, CloseInv, ~HasRoom(snkRx), snk.pc = "write"
                 PROVE  fwd = <<>> /\ (snkRcv = "closing" => served)
      BY DEF NeverStalls
    <2>1. SourceClosedIn(snkRx)
      BY FullWhileWriting
    <2> QED
      BY <2>1 DEF CloseInv, CloseArrived, ClosingIsDown, ClosedArrived, CloseHasCause,
                  DataUnderWay
  <1> QED
    BY <1>1, CloseInvariance, Invariance, PTL

-----------------------------------------------------------------------------
(* The stream implements a pipe.                                           *)

\* The pipe's variables in the stream (P of Stream.tla).
PipeCut == snk.closed \/ snk.pc = "failed" \/ Faulty
PipeEnded == snk.pc \in {"shutdown", "done", "failed"}

\* A stream that has ended was cut, or has written everything that was read.
EndsComplete == PipeEnded => PipeCut \/ src.n = Len(out)

\* A sink only leaves its loop cut or complete.
LEMMA EndIsComplete == Inv /\ CloseInv => EndsComplete
  <1> SUFFICES ASSUME Inv, CloseInv, PipeEnded, ~PipeCut
               PROVE  src.n = Len(out)
    BY DEF EndsComplete
  <1>1. /\ snk.pc \in {"shutdown", "done"} /\ ~snk.closed /\ snk.pc # "failed" /\ ~Faulty
        /\ snkRcv \notin Silent
    BY DEF PipeEnded, PipeCut, Faulty, Silent
  <1>2. src.pc = "done" /\ fwd = <<>> /\ ~DataIn(snkRx)
    BY <1>1 DEF CloseInv, SinkOver
  <1>3. ~DataUnderWay
    BY <1>1, <1>2 DEF DataUnderWay, DataIn
  <1>4. src.n # Len(out) + 1
    BY <1>1, <1>2, <1>3 DEF CloseInv, NotLost
  <1>5. src.n \in Nat /\ Len(out) \in Nat /\ src.n - Len(out) \in {0, 1}
    BY DEF Inv, TypeOK, SourceState, OneBehind
  <1> QED
    BY <1>4, <1>5

\* A sink that ends in good order has written everything that was read.
THEOREM CompleteCorrect == Spec => []Complete
  <1>1. EndsComplete => Complete
    BY DEF EndsComplete, PipeEnded, PipeCut, Complete
  <1> QED
    BY <1>1, EndIsComplete, CloseInvariance, Invariance, PTL

\* A step that moves no packet cuts the pipe, ends it, or changes nothing of it.
LEMMA CutEndOrStutter ==
    ASSUME src'.n = src.n, out' = out,
           PipeCut => PipeCut', PipeEnded => PipeEnded', EndsComplete'
    PROVE  [P!Next]_(P!vars)
  <1>1. CASE ~PipeCut /\ PipeCut'
    <2>1. /\ ~PipeCut /\ PipeCut' = TRUE
          /\ PipeEnded' = PipeEnded \/ PipeEnded' = TRUE
      BY <1>1 DEF PipeCut, PipeEnded
    <2>2. PipeEnded' \in {PipeEnded, TRUE}
      BY <2>1
    <2>3. P!Cut
      BY <2>1, <2>2, Zenon DEF P!Cut, PipeCut, PipeEnded
    <2> QED
      BY <2>3 DEF P!Next
  <1>2. CASE PipeCut' <=> PipeCut
    <2>1. CASE ~PipeEnded /\ PipeEnded'
      <3>1. PipeCut \/ Len(out) = src.n
        BY <1>2, <2>1 DEF EndsComplete
      <3>2. P!End
        BY <1>2, <2>1, <3>1 DEF P!End, PipeCut, PipeEnded
      <3> QED
        BY <3>2 DEF P!Next
    <2>2. CASE PipeEnded' <=> PipeEnded
      BY <1>2, <2>2 DEF P!vars, PipeCut, PipeEnded
    <2> QED
      BY <2>1, <2>2
  <1> QED
    BY <1>1, <1>2

\* Reading takes a packet in, a write that succeeds puts it out, and every other
\* step of the stream moves no packet.
LEMMA PipeStep ==
    ASSUME Inv, CloseInv, EndsComplete', [Next]_vars
    PROVE  [P!Next]_(P!vars)
  <1>0. /\ src \in SourceState /\ snk \in SinkState
        /\ src.n \in Nat /\ Len(out) \in Nat
    BY DEF Inv, TypeOK, SourceState
  <1>1. CASE Read
    <2>1. src.pc = "select" /\ src'.n = src.n + 1
      BY <1>1 DEF Read, SourceRead
    <2>2. src.n = Len(out)
      BY <2>1 DEF Inv, OnePacket
    <2>3. PipeEnded => PipeCut
      BY <2>1 DEF PipeEnded, PipeCut, CloseInv, SinkOver, Faulty, Silent
    <2>4. P!Take
      BY <1>1, <2>1, <2>2, <2>3 DEF Read, P!Take, PipeCut, PipeEnded, Faulty
    <2> QED
      BY <2>4 DEF P!Next
  <1>2. ASSUME NEW res \in WriteResults, Write(res), res = "ok"
        PROVE  [P!Next]_(P!vars)
    <2>1. /\ snk.pc = "write" /\ snk'.pc = "ack" /\ snk'.closed = snk.closed
          /\ out' = Append(out, snk.n)
      BY <1>0, <1>2 DEF Write, SinkIo, SinkState
    <2>2. snk.n = src.n /\ src.n = Len(out) + 1
      BY <2>1 DEF Inv, OnePacket, DataUnderWay
    <2>3. P!Put
      BY <1>0, <1>2, <2>1, <2>2 DEF Write, P!Put, Faulty
    <2> QED
      BY <2>3 DEF P!Next
  <1>3. ASSUME NEW res \in WriteResults, (Write(res) /\ res # "ok") \/ Flush(res)
        PROVE  [P!Next]_(P!vars)
    <2>1. /\ snk.pc \in {"write", "flush"} /\ out' = out
          /\ snk.closed => snk'.closed
      BY <1>0, <1>3 DEF Write, Flush, SinkIo, SinkState
    <2>2. UNCHANGED <<src, link, srcRcv, snkRcv>>
      BY <1>3 DEF Write, Flush
    <2> QED
      BY <2>1, <2>2, CutEndOrStutter DEF PipeCut, PipeEnded, Faulty
  <1>4. CASE EndOfInput \/ SourceSend \/ SourceTake \/ SourceNone
    <2>1. src'.n = src.n
      BY <1>0, <1>4 DEF EndOfInput, SourceSend, SourceTake, SourceNone,
                        SourceBreak, SourceSent, SourceRecv, SourceRecvNone, SourceState
    <2>2. UNCHANGED <<snk, out, link, srcRcv, snkRcv>>
      BY <1>4 DEF EndOfInput, SourceSend, SourceTake, SourceNone
    <2> QED
      BY <2>1, <2>2, CutEndOrStutter DEF PipeCut, PipeEnded, Faulty
  <1>5. CASE SinkTake \/ SinkNone \/ SinkSend \/ SinkFinish
    <2>1. /\ snk'.closed = snk.closed
          /\ snk.pc # "failed" /\ (snk.pc = "shutdown" => snk'.pc = "done") /\ snk.pc # "done"
      BY <1>0, <1>5 DEF SinkTake, SinkNone, SinkSend, SinkFinish, SinkSending,
                        SinkRecv, SinkRecvNone, SinkSent, SinkShutdown, SinkState
    <2>2. UNCHANGED <<src, out, link, srcRcv, snkRcv>>
      BY <1>5 DEF SinkTake, SinkNone, SinkSend, SinkFinish
    <2> QED
      BY <2>1, <2>2, CutEndOrStutter DEF PipeCut, PipeEnded, Faulty
  <1>6. CASE \/ RouteToSink \/ RouteToSource \/ ServeSinkClosed
             \/ LinkDown \/ ShutdownAtSink \/ ShutdownAtSource \/ ReceiverFails
    <2>1. UNCHANGED <<src, snk, out>>
      BY <1>6 DEF RouteToSink, RouteToSource, ServeSinkClosed, LinkDown, ReceiverFails,
                  ShutdownAtSink, ShutdownAtSource, BeginShutdownAtSink, ShutdownSink,
                  BeginShutdownAtSource, ShutdownSource
    <2>2. Faulty => Faulty'
      BY <1>6 DEF RouteToSink, RouteToSource, ServeSinkClosed, LinkDown, ReceiverFails,
                  ShutdownAtSink, ShutdownAtSource, BeginShutdownAtSink, ShutdownSink,
                  BeginShutdownAtSource, ShutdownSource, Faulty
    <2> QED
      BY <2>1, <2>2, CutEndOrStutter DEF PipeCut, PipeEnded
  <1>7. CASE UNCHANGED vars
    BY <1>7, CutEndOrStutter DEF vars, PipeCut, PipeEnded, Faulty
  <1> QED
    BY <1>1, <1>2, <1>3, <1>4, <1>5, <1>6, <1>7, Zenon
       DEF Next, SourceStep, SinkStep, Terminated

\* Whatever closes, fails or is lost, the two tasks and the receivers between them
\* behave as the pipe of Pipe.tla.
THEOREM ImplementsPipeCorrect == Spec => ImplementsPipe
  <1>1. Init => P!Init
    BY DEF Init, SourceNew, SinkNew, P!Init, Faulty
  <1> QED
    BY <1>1, PipeStep, EndIsComplete, CloseInvariance, Invariance, PTL
       DEF Spec, ImplementsPipe, P!Spec

=============================================================================
