------------------------- MODULE PortForwardProofs -------------------------
(***************************************************************************)
(* Proofs about port forwarding, for every number of connections and of     *)
(* packets and every choice of faults: PortForward.tla says what the        *)
(* properties mean.  A request and its answer are one token, and so are a   *)
(* packet and its acknowledgement; what is last on a way is last.  Where     *)
(* nothing fails, each direction of a connection is a Stream.               *)
(***************************************************************************)
EXTENDS PortForward, StreamTasksProofs

-----------------------------------------------------------------------------
(* The messages.                                                           *)

ForSinks == [id : Conns, act : {"Data", "SourceClosed"}, n : Nat]
ForSources == [id : Conns, act : {"Ack", "SinkClosed"}, n : {0}]
Requests == {Connect(c) : c \in Conns} \cup {ListenerClosed}
Answers(c) == {ConnectResponse(c, ok) : ok \in BOOLEAN}
Responses == UNION {Answers(c) : c \in Conns}

\* What a side sends.
Msgs(sd) ==
    ForSinks \cup ForSources \cup {Finished} \cup
    IF sd = "client" THEN Requests ELSE Responses \cup {Exit}

-----------------------------------------------------------------------------
(* Types.                                                                  *)

ReceiverState ==
    [pc : {"route", "shutdown", "finished", "closed", "failed"},
     todo : SUBSET ({"sink", "source"} \X Conns)]

PortTypes ==
    /\ listener \in [pc : {"accept", "request", "response", "close", "done"},
                     conn : 1..MaxConns + 1]
    /\ listener.pc \in {"request", "response"} => listener.conn \in Conns
    /\ listenRx \in Seq(Responses)
    /\ connecter \in {"recv", "done"}
    /\ connRx \in Seq(Requests)
    /\ dial \in [Conns -> {"none", "connect", "ok", "err", "open", "refused"}]

TaskTypes ==
    /\ src \in [Sides -> [Conns -> SourceState \cup {NoSource}]]
    /\ snk \in [Sides -> [Conns -> SinkState \cup {NoSink}]]
    /\ srcRx \in [Sides -> [Conns -> Seq(SinkAction)]]
    /\ snkRx \in [Sides -> [Conns -> Seq(SourceAction)]]
    /\ wrote \in [Sides -> [Conns -> Nat]]
    /\ \A sd \in Sides, c \in Conns :
         Len(srcRx[sd][c]) <= ChanCap /\ Len(snkRx[sd][c]) <= ChanCap

WayTypes ==
    /\ DOMAIN path = Sides
    /\ \A sd \in Sides : path[sd] \in Seq(Msgs(sd))
    /\ link \in {"up", "down"}

EndTypes ==
    /\ receiver \in [Sides -> ReceiverState]
    /\ sender \in [Sides -> {"run", "done"}]
    /\ serve \in {"wait", "join", "over"}
    /\ status \in {"none", "exit", "lost"}
    /\ client \in {"status", "join", "over"}

Types == PortTypes /\ TaskTypes /\ WayTypes /\ EndTypes

\* The sides.
LEMMA SideFacts ==
    /\ "client" \in Sides /\ "server" \in Sides
    /\ \A sd \in Sides : /\ Peer(sd) \in Sides /\ Peer(sd) # sd /\ Peer(Peer(sd)) = sd
                         /\ sd \in {"client", "server"}
  BY DEF Sides, Peer

\* What a task sends is a message of its connection.
LEMMA TaskMsgs ==
    ASSUME NEW sd \in Sides, NEW c \in Conns
    PROVE  /\ \A t \in SourceState :
                SourceSending(t) => /\ StreamMsg(c, SourceMsg(t)) \in ForSinks
                                    /\ StreamMsg(c, SourceMsg(t)) \in Msgs(sd)
                                    /\ StreamMsg(c, SourceMsg(t)).id = c
                                    /\ StreamMsg(c, SourceMsg(t)).act =
                                         IF t.pc = "send" THEN "Data" ELSE "SourceClosed"
           /\ \A t : /\ StreamMsg(c, SinkMsg(t)) \in ForSources
                     /\ StreamMsg(c, SinkMsg(t)) \in Msgs(sd)
                     /\ StreamMsg(c, SinkMsg(t)).id = c
                     /\ StreamMsg(c, SinkMsg(t)).act = IF t.pc = "ack" THEN "Ack" ELSE "SinkClosed"
  <1>1. ASSUME NEW t \in SourceState
        PROVE  /\ StreamMsg(c, SourceMsg(t)) \in ForSinks
               /\ StreamMsg(c, SourceMsg(t)).id = c
               /\ StreamMsg(c, SourceMsg(t)).act = IF t.pc = "send" THEN "Data" ELSE "SourceClosed"
    BY DEF SourceState, StreamMsg, SourceMsg, Data, SourceClosed, ForSinks
  <1>2. ASSUME NEW t
        PROVE  /\ StreamMsg(c, SinkMsg(t)) \in ForSources
               /\ StreamMsg(c, SinkMsg(t)).id = c
               /\ StreamMsg(c, SinkMsg(t)).act = IF t.pc = "ack" THEN "Ack" ELSE "SinkClosed"
    BY DEF StreamMsg, SinkMsg, Ack, SinkClosed, ForSources
  <1>3. ForSinks \subseteq Msgs(sd) /\ ForSources \subseteq Msgs(sd)
    BY DEF Msgs
  <1> QED
    BY <1>1, <1>2, <1>3

\* What a message is for.
LEMMA MsgFacts ==
    ASSUME NEW sd \in Sides, NEW m \in Msgs(sd)
    PROVE  /\ m.act \in {"Data", "SourceClosed"} => m \in ForSinks
           /\ m.act \in {"Ack", "SinkClosed"} => m \in ForSources
           /\ m.act \in {"Connect", "ListenerClosed"} => sd = "client" /\ m \in Requests
           /\ m.act \in {"Connected", "Refused"} => sd = "server" /\ m \in Responses
           /\ m.act = "Finished" => m = Finished
           /\ m.act = "Exit" => sd = "server" /\ m = Exit
  <1>1. \A x \in ForSinks : x.act \in {"Data", "SourceClosed"}
    BY DEF ForSinks
  <1>2. \A x \in ForSources : x.act \in {"Ack", "SinkClosed"}
    BY DEF ForSources
  <1>3. \A x \in Requests : x.act \in {"Connect", "ListenerClosed"}
    BY DEF Requests, Connect, ListenerClosed
  <1>4. \A x \in Responses : x.act \in {"Connected", "Refused"}
    BY DEF Responses, Answers, ConnectResponse
  <1>5. Finished.act = "Finished" /\ Exit.act = "Exit"
    BY DEF Finished, Exit
  <1>6. \/ m \in ForSinks \/ m \in ForSources \/ m = Finished
        \/ sd = "client" /\ m \in Requests
        \/ sd = "server" /\ (m \in Responses \/ m = Exit)
    BY SideFacts DEF Msgs
  <1> QED
    BY <1>1, <1>2, <1>3, <1>4, <1>5, <1>6

\* A message for a task, without the id of its connection.
LEMMA ActionTypes ==
    /\ \A m \in ForSinks : /\ ActionOf(m) \in SourceAction /\ m.id \in Conns
                           /\ ActionOf(m).act = m.act
    /\ \A m \in ForSources : /\ ActionOf(m) \in SinkAction /\ m.id \in Conns
                             /\ ActionOf(m).act = m.act
  <1>1. ASSUME NEW m \in ForSinks
        PROVE  ActionOf(m) \in SourceAction /\ m.id \in Conns /\ ActionOf(m).act = m.act
    BY DEF ForSinks, ActionOf, SourceAction
  <1>2. ASSUME NEW m \in ForSources
        PROVE  ActionOf(m) \in SinkAction /\ m.id \in Conns /\ ActionOf(m).act = m.act
    <2>1. m.id \in Conns /\ m.act \in {"Ack", "SinkClosed"} /\ m.n = 0
      BY DEF ForSources
    <2> QED
      BY <2>1 DEF ActionOf, SinkAction, Ack, SinkClosed
  <1> QED
    BY <1>1, <1>2

\* Types hold initially.
LEMMA TypesInit == Init => Types
  <1> SUFFICES ASSUME Init PROVE Types
    OBVIOUS
  <1>1. PortTypes
    BY PortForwardAssumption DEF Init, PortTypes
  <1>2. TaskTypes
    BY DEF Init, TaskTypes, ChanCap
  <1>3. WayTypes
    BY DEF Init, WayTypes
  <1>4. EndTypes
    BY DEF Init, EndTypes, ReceiverState
  <1> QED
    BY <1>1, <1>2, <1>3, <1>4 DEF Types

\* A message that is sent is put on the way from its side, while there is a connection.
LEMMA SendFacts ==
    ASSUME WayTypes, NEW sd \in Sides, NEW m \in Msgs(sd), Send(sd, m)
    PROVE  /\ DOMAIN path' = Sides
           /\ \A e \in Sides : path'[e] \in Seq(Msgs(e))
           /\ \A e \in Sides : e # sd => path'[e] = path[e]
           /\ link = "up" => Appended(path'[sd], path[sd], m)
           /\ link # "up" => path' = path
  <1>1. CASE link = "up"
    <2>1. path' = [path EXCEPT ![sd] = Append(path[sd], m)]
      BY <1>1 DEF Send
    <2>2. Append(path[sd], m) \in Seq(Msgs(sd))
      BY AppendFacts DEF WayTypes
    <2> QED
      BY <1>1, <2>1, <2>2 DEF WayTypes, Appended
  <1>2. CASE link # "up"
    BY <1>2 DEF Send, WayTypes
  <1> QED
    BY <1>1, <1>2

\* The loss of the connection leaves a prefix of each way.
LEMMA DisconnectFacts ==
    ASSUME WayTypes, Disconnect
    PROVE  /\ WayTypes' /\ link' = "down"
           /\ \A e \in Sides : Kept(path'[e], path[e])
  <1>1. PICK i \in 0..Len(path["client"]), j \in 0..Len(path["server"]) :
          path' = [sd \in Sides |-> SubSeq(path[sd], 1, IF sd = "client" THEN i ELSE j)]
    BY DEF Disconnect
  <1>2. ASSUME NEW e \in Sides
        PROVE  path'[e] \in Seq(Msgs(e)) /\ Kept(path'[e], path[e])
    <2> DEFINE k == IF e = "client" THEN i ELSE j
               q == path[e]
    <2>1. k \in 0..Len(q) /\ q \in Seq(Msgs(e))
      BY SideFacts DEF WayTypes
    <2>2. path'[e] = SubSeq(q, 1, k)
      BY <1>1
    <2> HIDE DEF k, q
    <2>3. SubSeq(q, 1, k) \in Seq(Msgs(e))
      BY <2>1, PrefixFacts
    <2>4. ASSUME NEW C, NEW D
          PROVE  /\ Has(SubSeq(q, 1, k), C) => Has(q, C)
                 /\ NoneAfter(q, C, D) => NoneAfter(SubSeq(q, 1, k), C, D)
      BY <2>1, PrefixOrder
    <2> QED
      BY <2>2, <2>3, <2>4 DEF Kept, q
  <1> QED
    BY <1>1, <1>2 DEF WayTypes, Disconnect

\* A message that is received is the first on its way.
LEMMA ReceiveFacts ==
    ASSUME WayTypes, NEW sd \in Sides, Receive(sd)
    PROVE  LET p == Peer(sd) IN
           /\ Head(path[p]) \in Msgs(p)
           /\ FirstOf(Head(path[p]), path[p], path'[p])
           /\ Kept(path'[p], path[p])
           /\ path'[p] \in Seq(Msgs(p))
           /\ path'[sd] = path[sd]
           /\ DOMAIN path' = Sides
  <1> DEFINE p == Peer(sd)
             q == path[p]
             m == Head(q)
             r == Tail(q)
             S == Msgs(p)
  <1>0. p \in Sides /\ p # sd
    BY SideFacts
  <1>1. /\ path' = [path EXCEPT ![p] = Tail(@)] /\ q # <<>>
        /\ q \in Seq(S) /\ DOMAIN path = Sides
    BY <1>0 DEF Receive, WayTypes
  <1>2. path'[p] = r /\ path'[sd] = path[sd] /\ DOMAIN path' = Sides
    BY <1>0, <1>1
  <1> HIDE DEF p, q, S
  <1>3. m \in S /\ r \in Seq(S) /\ Taken(q, m, r)
    BY <1>1, TailFacts, HeadFirst
  <1> HIDE DEF m, r
  <1>4. ASSUME NEW C, NEW D
        PROVE  /\ Has(q, C) <=> m \in C \/ Has(r, C)
               /\ NoneAfter(q, C, D) <=> NoneAfter(r, C, D) /\ (m \in C => ~Has(r, D))
    BY <1>3, TakenOrder
  <1>5. FirstOf(m, q, r) /\ Kept(r, q)
    BY <1>4 DEF FirstOf, Kept
  <1> QED
    BY <1>2, <1>3, <1>5 DEF p, q, m, S

\* The step puts m on the way from a side.
Adds(e, m) ==
    \/ SenderFinish(e) /\ m = Finished
    \/ e = "client" /\ ListenerRequest /\ m = Connect(listener.conn)
    \/ e = "client" /\ ListenerClose /\ m = ListenerClosed
    \/ e = "server" /\ ServeExit /\ m = Exit
    \/ \E c \in Conns :
         e = "server" /\ DialReply(c) /\ m = ConnectResponse(c, dial[c] = "ok")
    \/ \E c \in Conns : SourceSend(e, c) /\ m = StreamMsg(c, SourceMsg(src[e][c]))
    \/ \E c \in Conns : SinkSend(e, c) /\ m = StreamMsg(c, SinkMsg(snk[e][c]))

\* A step that may only change the ways in one of these manners.
WayStep(e) ==
    \/ /\ Kept(path'[e], path[e])
       /\ path'[e] = path[e] \/ link' = "down" \/ Receive(Peer(e))
    \/ /\ link = "up"
       /\ \E m \in Msgs(e) : Appended(path'[e], path[e], m) /\ Adds(e, m)

\* A step adds one message to a way, or none; only a receiver takes one off, or the
\* loss of the connection.
LEMMA PathStep ==
    ASSUME Types, [Next]_vars
    PROVE  WayTypes' /\ \A e \in Sides : WayStep(e)
  <1> DEFINE Goal == WayTypes' /\ \A e \in Sides : WayStep(e)
  <1> SUFFICES Goal
    OBVIOUS
  <1>0. WayTypes /\ PortTypes /\ TaskTypes /\ EndTypes
    BY DEF Types
  <1>a. UNCHANGED <<path, link>> => Goal
    BY <1>0 DEF WayTypes, WayStep, Kept
  <1>b. ASSUME NEW sd \in Sides, NEW m \in Msgs(sd), Send(sd, m), Adds(sd, m), link' = link
        PROVE  Goal
    <2>1. WayTypes'
      BY <1>0, <1>b, SendFacts DEF WayTypes
    <2>2. ASSUME NEW e \in Sides
          PROVE  WayStep(e)
      <3>1. path'[e] = path[e] \/ (e = sd /\ link = "up" /\ Appended(path'[e], path[e], m))
        BY <1>0, <1>b, SendFacts
      <3> QED
        BY <1>b, <3>1 DEF WayStep, Kept
    <2> QED
      BY <2>1, <2>2
  <1> HIDE DEF Goal
  <1>1. CASE ListenerAccept \/ ListenerAcceptFails \/ ListenerEnd \/ ListenerResponse
    BY <1>1, <1>a DEF ListenerAccept, ListenerAcceptFails, ListenerEnd, ListenerResponse
  <1>2. CASE ListenerRequest
    <2> DEFINE m == Connect(listener.conn)
    <2>1. m \in Msgs("client") /\ "client" \in Sides
      <3>1. listener.conn \in Conns
        BY <1>0, <1>2 DEF PortTypes, ListenerRequest
      <3> QED
        BY <3>1 DEF Msgs, Requests, Sides
    <2>2. Send("client", m) /\ Adds("client", m) /\ link' = link
      BY <1>2 DEF ListenerRequest, Adds
    <2> HIDE DEF m
    <2> QED
      BY <1>b, <2>1, <2>2
  <1>3. CASE ListenerClose
    <2>1. ListenerClosed \in Msgs("client") /\ "client" \in Sides
      BY DEF Msgs, Requests, Sides
    <2>2. Send("client", ListenerClosed) /\ Adds("client", ListenerClosed) /\ link' = link
      BY <1>3 DEF ListenerClose, Adds
    <2> QED
      BY <1>b, <2>1, <2>2
  <1>4. CASE ConnecterRecv \/ ConnecterNone \/ \E c \in Conns : Dialed(c)
    BY <1>4, <1>a DEF ConnecterRecv, ConnecterNone, Dialed
  <1>5. ASSUME NEW c \in Conns, DialReply(c)
        PROVE  Goal
    <2> DEFINE m == ConnectResponse(c, dial[c] = "ok")
    <2>1. m \in Msgs("server") /\ "server" \in Sides
      <3>1. m \in Answers(c)
        BY DEF Answers
      <3> QED
        BY <3>1 DEF Msgs, Responses, Sides
    <2>2. Send("server", m) /\ Adds("server", m) /\ link' = link
      BY <1>5 DEF DialReply, Adds
    <2> HIDE DEF m
    <2> QED
      BY <1>b, <2>1, <2>2
  <1>6. ASSUME NEW sd \in Sides, NEW c \in Conns, SourceIn(sd, c) \/ TaskStep(sd, c)
        PROVE  Goal
    <2>1. CASE SourceSend(sd, c)
      <3> DEFINE m == StreamMsg(c, SourceMsg(src[sd][c]))
      <3>1. src[sd][c] \in SourceState /\ SourceSending(src[sd][c])
        BY <1>0, <2>1 DEF TaskTypes, SourceSend, SourceSending, NoSource
      <3>2. m \in Msgs(sd)
        BY <3>1, TaskMsgs
      <3>3. Send(sd, m) /\ Adds(sd, m) /\ link' = link
        BY <2>1 DEF SourceSend, Adds
      <3> HIDE DEF m
      <3> QED
        BY <1>b, <3>2, <3>3
    <2>2. CASE SinkSend(sd, c)
      <3> DEFINE m == StreamMsg(c, SinkMsg(snk[sd][c]))
      <3>1. m \in Msgs(sd)
        BY TaskMsgs
      <3>2. Send(sd, m) /\ Adds(sd, m) /\ link' = link
        BY <2>2 DEF SinkSend, Adds
      <3> HIDE DEF m
      <3> QED
        BY <1>b, <3>1, <3>2
    <2>3. CASE SourceIn(sd, c) \/ SourceTake(sd, c)
      BY <1>a, <2>3 DEF SourceIn, ReadPacket, EndOfInput, SourceTake
    <2>4. CASE SinkTake(sd, c) \/ SinkWrite(sd, c) \/ SinkFinish(sd, c)
      BY <1>a, <2>4 DEF SinkTake, SinkWrite, SinkFinish
    <2> QED
      BY <1>6, <2>1, <2>2, <2>3, <2>4 DEF TaskStep
  <1>7. ASSUME NEW sd \in Sides, Receive(sd)
        PROVE  Goal
    <2>1. /\ \A e \in Sides : e # sd => e = Peer(sd) /\ Peer(e) = sd
          /\ link' = link
      BY <1>7, SideFacts DEF Receive
    <2>2. WayTypes'
      BY <1>0, <1>7, <2>1, ReceiveFacts DEF WayTypes
    <2>3. path'[sd] = path[sd] /\ Kept(path'[Peer(sd)], path[Peer(sd)])
      BY <1>0, <1>7, ReceiveFacts
    <2>4. Kept(path'[sd], path[sd])
      BY <2>3 DEF Kept
    <2> QED
      BY <1>7, <2>1, <2>2, <2>3, <2>4 DEF Goal, WayStep
  <1>8. ASSUME NEW sd \in Sides, BeginShutdown(sd)
        PROVE  Goal
    <2>1. /\ link = "down" /\ link' = link /\ path' = [path EXCEPT ![Peer(sd)] = <<>>]
          /\ DOMAIN path = Sides
      BY <1>0, <1>8 DEF BeginShutdown, WayTypes
    <2>2. ASSUME NEW e \in Sides
          PROVE  path'[e] \in Seq(Msgs(e)) /\ Kept(path'[e], path[e])
      <3>1. CASE path'[e] = <<>>
        BY <3>1, EmptyOrder DEF Kept
      <3>2. CASE path'[e] = path[e]
        BY <1>0, <3>2 DEF Kept, WayTypes
      <3> QED
        BY <2>1, <3>1, <3>2
    <2> QED
      BY <1>0, <2>1, <2>2 DEF Goal, WayStep, WayTypes
  <1>9. ASSUME NEW sd \in Sides, ShutdownOne(sd) \/ ShutdownEnd(sd)
        PROVE  Goal
    BY <1>9, <1>a DEF ShutdownOne, ShutdownEnd
  <1>10. ASSUME NEW sd \in Sides, SenderFinish(sd)
         PROVE  Goal
    <2>1. Finished \in Msgs(sd) /\ Send(sd, Finished) /\ Adds(sd, Finished) /\ link' = link
      BY <1>10 DEF SenderFinish, Adds, Msgs
    <2> QED
      BY <1>b, <2>1
  <1>11. CASE ServeExit
    <2>1. /\ Exit \in Msgs("server") /\ "server" \in Sides
          /\ Send("server", Exit) /\ Adds("server", Exit) /\ link' = link
      BY <1>11 DEF ServeExit, Adds, Msgs, Sides
    <2> QED
      BY <1>b, <2>1
  <1>12. CASE ServeKill \/ ServeJoin
    BY <1>12, <1>a DEF ServeKill, ServeJoin
  <1>13. CASE ClientStatus \/ ClientJoin \/ LinkDown
    <2>1. Disconnect \/ UNCHANGED <<path, link>>
      BY <1>13 DEF ClientStatus, ClientJoin, LinkDown, ClientExits
    <2>2. Disconnect => Goal
      BY <1>0, DisconnectFacts DEF Goal, WayStep
    <2> QED
      BY <1>a, <2>1, <2>2
  <1>14. CASE UNCHANGED vars
    BY <1>14, <1>a DEF vars
  <1> QED
    BY <1>1, <1>2, <1>3, <1>4, <1>5, <1>6, <1>7, <1>8, <1>9, <1>10, <1>11, <1>12, <1>13, <1>14
       DEF Next, ListenerStep, ConnecterStep, ReceiverStep, Terminated

-----------------------------------------------------------------------------
(* The tasks of one stream.                                                *)

\* g is f but for one connection of one side.
Sets(f, g, sd, c, v) == g = [f EXCEPT ![sd][c] = v]

\* f has a value of S for each connection of each side.
Table(f, S) == f \in [Sides -> [Conns -> S]]

LEMMA SetFacts ==
    ASSUME NEW S, NEW f, Table(f, S), NEW g, NEW sd \in Sides,
           NEW c \in Conns, NEW v \in S, Sets(f, g, sd, c, v)
    PROVE  /\ Table(g, S)
           /\ g[sd][c] = v
           /\ \A e \in Sides, d \in Conns : e # sd \/ d # c => g[e][d] = f[e][d]
  BY DEF Sets, Table

\* The two tasks of a connection are started at a side.
StartsAt(sd, c) ==
    \/ /\ sd = "client" /\ ListenerResponse
       /\ c = listener.conn /\ Head(listenRx).act = "Connected"
    \/ sd = "server" /\ DialReply(c) /\ dial[c] = "ok"

SameSource(p, c) == src'[p][c] = src[p][c] /\ srcRx'[p][c] = srcRx[p][c]

SameSink(q, c) ==
    snk'[q][c] = snk[q][c] /\ snkRx'[q][c] = snkRx[q][c] /\ wrote'[q][c] = wrote[q][c]

\* What the source of a stream does.
SourceTurn(p, c) ==
    \/ /\ SourceIn(p, c) /\ src[p][c].pc = "select"
       /\ \/ src'[p][c] = SourceRead(src[p][c])
          \/ src'[p][c] = SourceBreak(src[p][c])
       /\ srcRx'[p][c] = srcRx[p][c]
    \/ /\ SourceSend(p, c) /\ SourceSending(src[p][c])
       /\ src'[p][c] = SourceSent(src[p][c])
       /\ srcRx'[p][c] = srcRx[p][c]
    \/ /\ SourceTake(p, c) /\ SourceListening(src[p][c]) /\ srcRx[p][c] # <<>>
       /\ src'[p][c] = SourceRecv(src[p][c], Head(srcRx[p][c]))
       /\ srcRx'[p][c] = Tail(srcRx[p][c])
    \/ /\ SourceTake(p, c) /\ SourceListening(src[p][c]) /\ RouterDropped(p)
       /\ src'[p][c] = SourceRecvNone(src[p][c])
       /\ srcRx'[p][c] = srcRx[p][c]

\* What the sink of a stream does.
SinkTurn(q, c) ==
    \/ /\ SinkTake(q, c) /\ snk[q][c].pc = "recv" /\ snkRx[q][c] # <<>>
       /\ snk'[q][c] = SinkRecv(snk[q][c], Head(snkRx[q][c]))
       /\ snkRx'[q][c] = Tail(snkRx[q][c]) /\ wrote'[q][c] = wrote[q][c]
    \/ /\ SinkTake(q, c) /\ snk[q][c].pc = "recv" /\ RouterDropped(q)
       /\ snk'[q][c] = SinkRecvNone(snk[q][c])
       /\ snkRx'[q][c] = snkRx[q][c] /\ wrote'[q][c] = wrote[q][c]
    \/ /\ SinkWrite(q, c) /\ snk[q][c].pc \in {"write", "flush"}
       /\ \E res \in WriteResults :
            /\ snk'[q][c] = SinkIo(snk[q][c], res)
            /\ wrote'[q][c] = IF snk[q][c].pc = "write" /\ res = "ok"
                              THEN wrote[q][c] + 1 ELSE wrote[q][c]
       /\ snkRx'[q][c] = snkRx[q][c]
    \/ /\ SinkSend(q, c) /\ SinkSending(snk[q][c])
       /\ snk'[q][c] = SinkSent(snk[q][c])
       /\ snkRx'[q][c] = snkRx[q][c] /\ wrote'[q][c] = wrote[q][c]
    \/ /\ SinkFinish(q, c) /\ snk[q][c].pc = "shutdown"
       /\ snk'[q][c] = SinkShutdown(snk[q][c])
       /\ snkRx'[q][c] = snkRx[q][c] /\ wrote'[q][c] = wrote[q][c]

\* What a receiver puts into the channel of a source, or of a sink.
SourceTold(p, c) ==
    /\ src'[p][c] = src[p][c]
    /\ \/ LET m == Head(path[Peer(p)]) IN
          /\ Receive(p) /\ m \in ForSources /\ m.id = c /\ ActionOf(m) \in SinkAction
          /\ srcRx'[p][c] = Append(srcRx[p][c], ActionOf(m))
       \/ /\ ShutdownOne(p) /\ receiver[p].pc = "shutdown"
          /\ srcRx'[p][c] = Append(srcRx[p][c], SinkClosed)

SinkTold(q, c) ==
    /\ snk'[q][c] = snk[q][c] /\ wrote'[q][c] = wrote[q][c]
    /\ \/ LET m == Head(path[Peer(q)]) IN
          /\ Receive(q) /\ m \in ForSinks /\ m.id = c /\ ActionOf(m) \in SourceAction
          /\ ~SinkOver(snk[q][c])
          /\ snkRx'[q][c] = Append(snkRx[q][c], ActionOf(m))
       \/ /\ ShutdownOne(q) /\ receiver[q].pc = "shutdown"
          /\ snkRx'[q][c] = Append(snkRx[q][c], SourceClosed)

\* Whose step it is, for the stream of a connection from p to its peer.
StreamTurn(p, c) ==
    \/ SameSource(p, c) /\ SameSink(Peer(p), c)
    \/ SourceTurn(p, c) /\ SameSink(Peer(p), c)
    \/ SinkTurn(Peer(p), c) /\ SameSource(p, c)
    \/ SourceTold(p, c) /\ SameSink(Peer(p), c)
    \/ SinkTold(Peer(p), c) /\ SameSource(p, c)
    \/ /\ StartsAt(p, c) /\ src'[p][c] = SourceNew /\ srcRx'[p][c] = srcRx[p][c]
       /\ SameSink(Peer(p), c)
    \/ /\ StartsAt(Peer(p), c) /\ snk'[Peer(p)][c] = SinkNew
       /\ snkRx'[Peer(p)][c] = snkRx[Peer(p)][c] /\ wrote'[Peer(p)][c] = wrote[Peer(p)][c]
       /\ SameSource(p, c)

\* A task that is not there, or has ended, is not at one of its awaits.
LEMMA TaskStates ==
    ASSUME TaskTypes, NEW sd \in Sides, NEW c \in Conns
    PROVE  /\ src[sd][c].pc # "none" => src[sd][c] \in SourceState
           /\ snk[sd][c].pc # "none" => snk[sd][c] \in SinkState
           /\ src[sd][c].pc = "none" <=> src[sd][c] = NoSource
           /\ snk[sd][c].pc = "none" <=> snk[sd][c] = NoSink
           /\ SourceOver(src[sd][c]) <=> src[sd][c].pc \in {"none", "done", "failed", "panicked"}
           /\ SinkOver(snk[sd][c]) <=> snk[sd][c].pc \in {"none", "done", "failed"}
           /\ src[sd][c].n \in Nat
           /\ snk[sd][c].closed \in BOOLEAN
  <1>1. src[sd][c] \in SourceState \cup {NoSource} /\ snk[sd][c] \in SinkState \cup {NoSink}
    BY DEF TaskTypes
  <1>2. NoSource.pc = "none" /\ NoSink.pc = "none" /\ NoSource.n = 0 /\ NoSink.closed = FALSE
    BY DEF NoSource, NoSink
  <1>3. \A t \in SourceState : t.pc # "none" /\ t.n \in Nat
    BY DEF SourceState
  <1>4. \A t \in SinkState : t.pc # "none" /\ t.closed \in BOOLEAN
    BY DEF SinkState
  <1>5. /\ src[sd][c].pc # "none" => src[sd][c] \in SourceState
        /\ src[sd][c].pc = "none" <=> src[sd][c] = NoSource
        /\ src[sd][c].n \in Nat
    BY <1>1, <1>2, <1>3
  <1>6. /\ snk[sd][c].pc # "none" => snk[sd][c] \in SinkState
        /\ snk[sd][c].pc = "none" <=> snk[sd][c] = NoSink
        /\ snk[sd][c].closed \in BOOLEAN
    BY <1>1, <1>2, <1>4
  <1>7. SourceOver(src[sd][c]) <=> src[sd][c].pc \in {"none", "done", "failed", "panicked"}
    BY <1>5 DEF SourceOver, SourceEnded
  <1>8. SinkOver(snk[sd][c]) <=> snk[sd][c].pc \in {"none", "done", "failed"}
    BY <1>6 DEF SinkOver, SinkEnded
  <1> QED
    BY <1>5, <1>6, <1>7, <1>8

\* A step of a source task.
LEMMA SourceSteps ==
    ASSUME TaskTypes, NEW sd \in Sides, NEW c \in Conns,
           SourceIn(sd, c) \/ SourceSend(sd, c) \/ SourceTake(sd, c)
    PROVE  /\ TaskTypes' /\ SourceTurn(sd, c)
           /\ \A e \in Sides, d \in Conns : e # sd \/ d # c => SameSource(e, d)
           /\ UNCHANGED <<snk, snkRx, wrote>>
  <1> DEFINE t == src[sd][c]
             S == SourceState \cup {NoSource}
  <1>0. /\ Table(src, S) /\ Table(srcRx, Seq(SinkAction))
        /\ srcRx[sd][c] \in Seq(SinkAction) /\ Len(srcRx[sd][c]) <= ChanCap
    BY DEF TaskTypes, Table
  <1>1. UNCHANGED <<snk, snkRx, wrote>>
    BY DEF SourceIn, ReadPacket, EndOfInput, SourceSend, SourceTake
  <1>2. t.pc # "none" => t \in SourceState
    BY TaskStates
  <1>a. ASSUME NEW v \in S, Sets(src, src', sd, c, v), srcRx' = srcRx
        PROVE  /\ TaskTypes' /\ src'[sd][c] = v /\ srcRx'[sd][c] = srcRx[sd][c]
               /\ \A e \in Sides, d \in Conns : e # sd \/ d # c => SameSource(e, d)
    <2>1. /\ Table(src', S) /\ src'[sd][c] = v
          /\ \A e \in Sides, d \in Conns : e # sd \/ d # c => src'[e][d] = src[e][d]
      BY <1>0, <1>a, SetFacts
    <2> QED
      BY <1>1, <1>a, <2>1 DEF TaskTypes, Table, SameSource
  <1> HIDE DEF S
  <1>3. CASE SourceIn(sd, c)
    <2>1. /\ t.pc = "select" /\ srcRx' = srcRx
          /\ \/ Sets(src, src', sd, c, SourceRead(t))
             \/ Sets(src, src', sd, c, SourceBreak(t))
      BY <1>3 DEF SourceIn, ReadPacket, EndOfInput, Sets
    <2>2. SourceRead(t) \in S /\ SourceBreak(t) \in S
      BY <1>2, <2>1, SourceTypes DEF S
    <2> HIDE DEF t
    <2>3. /\ TaskTypes' /\ (src'[sd][c] = SourceRead(t) \/ src'[sd][c] = SourceBreak(t))
          /\ srcRx'[sd][c] = srcRx[sd][c]
          /\ \A e \in Sides, d \in Conns : e # sd \/ d # c => SameSource(e, d)
      BY <1>a, <2>1, <2>2
    <2> QED
      BY <1>1, <1>3, <2>1, <2>3 DEF SourceTurn, t
  <1>4. CASE SourceSend(sd, c)
    <2>1. SourceSending(t) /\ srcRx' = srcRx /\ Sets(src, src', sd, c, SourceSent(t))
      BY <1>4 DEF SourceSend, Sets
    <2>2. SourceSent(t) \in S
      BY <1>2, <2>1, SourceTypes DEF S, SourceSending
    <2> HIDE DEF t
    <2>3. /\ TaskTypes' /\ src'[sd][c] = SourceSent(t) /\ srcRx'[sd][c] = srcRx[sd][c]
          /\ \A e \in Sides, d \in Conns : e # sd \/ d # c => SameSource(e, d)
      BY <1>a, <2>1, <2>2
    <2> QED
      BY <1>1, <1>4, <2>1, <2>3 DEF SourceTurn, t
  <1>5. CASE SourceTake(sd, c)
    <2>1. SourceListening(t) /\ t \in SourceState
      BY <1>2, <1>5 DEF SourceTake, SourceListening
    <2>2. CASE /\ srcRx[sd][c] # <<>>
               /\ Sets(src, src', sd, c, SourceRecv(t, Head(srcRx[sd][c])))
               /\ Sets(srcRx, srcRx', sd, c, Tail(srcRx[sd][c]))
      <3> DEFINE a == Head(srcRx[sd][c])
                 r == Tail(srcRx[sd][c])
      <3>1. a \in SinkAction /\ r \in Seq(SinkAction) /\ Len(r) <= ChanCap
        <4>1. a \in SinkAction /\ r \in Seq(SinkAction) /\ Len(r) = Len(srcRx[sd][c]) - 1
              /\ Len(srcRx[sd][c]) \in Nat
          BY <1>0, <2>2, TailFacts
        <4> QED
          BY <1>0, <4>1 DEF ChanCap
      <3>2. SourceRecv(t, a) \in S
        BY <2>1, <3>1, SourceTypes DEF S
      <3> HIDE DEF a, r
      <3>3. /\ Table(src', S) /\ src'[sd][c] = SourceRecv(t, a)
            /\ \A e \in Sides, d \in Conns : e # sd \/ d # c => src'[e][d] = src[e][d]
        BY <1>0, <2>2, <3>2, SetFacts DEF a
      <3>4. /\ Table(srcRx', Seq(SinkAction)) /\ srcRx'[sd][c] = r
            /\ \A e \in Sides, d \in Conns : e # sd \/ d # c => srcRx'[e][d] = srcRx[e][d]
        <4> DEFINE Q == Seq(SinkAction)
        <4>1. Table(srcRx, Q) /\ r \in Q /\ Sets(srcRx, srcRx', sd, c, r)
          BY <1>0, <2>2, <3>1 DEF r
        <4> HIDE DEF Q
        <4>2. /\ Table(srcRx', Q) /\ srcRx'[sd][c] = r
              /\ \A e \in Sides, d \in Conns : e # sd \/ d # c => srcRx'[e][d] = srcRx[e][d]
          BY <4>1, SetFacts
        <4> QED
          BY <4>2 DEF Q
      <3>5. \A e \in Sides, d \in Conns : Len(srcRx'[e][d]) <= ChanCap
        BY <3>1, <3>4 DEF TaskTypes
      <3>6. TaskTypes'
        BY <1>1, <3>3, <3>4, <3>5 DEF TaskTypes, Table, S
      <3>7. SourceTurn(sd, c)
        BY <1>5, <2>1, <2>2, <3>3, <3>4 DEF SourceTurn, a, r
      <3> QED
        BY <1>1, <3>3, <3>4, <3>6, <3>7 DEF SameSource
    <2>3. CASE /\ RouterDropped(sd) /\ srcRx' = srcRx
               /\ Sets(src, src', sd, c, SourceRecvNone(t))
      <3>1. SourceRecvNone(t) \in S
        BY <2>1, SourceTypes DEF S
      <3> HIDE DEF t
      <3>2. /\ TaskTypes' /\ src'[sd][c] = SourceRecvNone(t) /\ srcRx'[sd][c] = srcRx[sd][c]
            /\ \A e \in Sides, d \in Conns : e # sd \/ d # c => SameSource(e, d)
        BY <1>a, <2>3, <3>1
      <3> QED
        BY <1>1, <1>5, <2>1, <2>3, <3>2 DEF SourceTurn, t
    <2> QED
      BY <1>5, <2>2, <2>3 DEF SourceTake, Sets
  <1> QED
    BY <1>3, <1>4, <1>5

\* A step of a sink task.
LEMMA SinkSteps ==
    ASSUME TaskTypes, NEW sd \in Sides, NEW c \in Conns,
           SinkTake(sd, c) \/ SinkWrite(sd, c) \/ SinkSend(sd, c) \/ SinkFinish(sd, c)
    PROVE  /\ TaskTypes' /\ SinkTurn(sd, c)
           /\ \A e \in Sides, d \in Conns : e # sd \/ d # c => SameSink(e, d)
           /\ UNCHANGED <<src, srcRx>>
  <1> DEFINE t == snk[sd][c]
             S == SinkState \cup {NoSink}
  <1>0. /\ Table(snk, S) /\ Table(snkRx, Seq(SourceAction))
        /\ Table(wrote, Nat) /\ wrote[sd][c] \in Nat
        /\ snkRx[sd][c] \in Seq(SourceAction) /\ Len(snkRx[sd][c]) <= ChanCap
    BY DEF TaskTypes, Table
  <1>1. UNCHANGED <<src, srcRx>>
    BY DEF SinkTake, SinkWrite, SinkSend, SinkFinish
  <1>2. t.pc # "none" => t \in SinkState
    BY TaskStates
  <1>a. ASSUME NEW v \in S, Sets(snk, snk', sd, c, v), UNCHANGED <<snkRx, wrote>>
        PROVE  /\ TaskTypes' /\ snk'[sd][c] = v /\ snkRx'[sd][c] = snkRx[sd][c]
               /\ wrote'[sd][c] = wrote[sd][c]
               /\ \A e \in Sides, d \in Conns : e # sd \/ d # c => SameSink(e, d)
    <2>1. /\ Table(snk', S) /\ snk'[sd][c] = v
          /\ \A e \in Sides, d \in Conns : e # sd \/ d # c => snk'[e][d] = snk[e][d]
      BY <1>0, <1>a, SetFacts
    <2> QED
      BY <1>1, <1>a, <2>1 DEF TaskTypes, Table, SameSink
  <1> HIDE DEF S
  <1>3. CASE SinkTake(sd, c)
    <2>1. t.pc = "recv" /\ t \in SinkState /\ wrote' = wrote
      BY <1>2, <1>3 DEF SinkTake
    <2>2. CASE /\ snkRx[sd][c] # <<>>
               /\ Sets(snk, snk', sd, c, SinkRecv(t, Head(snkRx[sd][c])))
               /\ Sets(snkRx, snkRx', sd, c, Tail(snkRx[sd][c]))
      <3> DEFINE a == Head(snkRx[sd][c])
                 r == Tail(snkRx[sd][c])
      <3>1. a \in SourceAction /\ r \in Seq(SourceAction) /\ Len(r) <= ChanCap
        <4>1. a \in SourceAction /\ r \in Seq(SourceAction) /\ Len(r) = Len(snkRx[sd][c]) - 1
              /\ Len(snkRx[sd][c]) \in Nat
          BY <1>0, <2>2, TailFacts
        <4> QED
          BY <1>0, <4>1 DEF ChanCap
      <3>2. SinkRecv(t, a) \in S
        BY <2>1, <3>1, SinkTypes DEF S
      <3> HIDE DEF a, r
      <3>3. /\ Table(snk', S) /\ snk'[sd][c] = SinkRecv(t, a)
            /\ \A e \in Sides, d \in Conns : e # sd \/ d # c => snk'[e][d] = snk[e][d]
        BY <1>0, <2>2, <3>2, SetFacts DEF a
      <3>4. /\ Table(snkRx', Seq(SourceAction)) /\ snkRx'[sd][c] = r
            /\ \A e \in Sides, d \in Conns : e # sd \/ d # c => snkRx'[e][d] = snkRx[e][d]
        <4> DEFINE Q == Seq(SourceAction)
        <4>1. Table(snkRx, Q) /\ r \in Q /\ Sets(snkRx, snkRx', sd, c, r)
          BY <1>0, <2>2, <3>1 DEF r
        <4> HIDE DEF Q
        <4>2. /\ Table(snkRx', Q) /\ snkRx'[sd][c] = r
              /\ \A e \in Sides, d \in Conns : e # sd \/ d # c => snkRx'[e][d] = snkRx[e][d]
          BY <4>1, SetFacts
        <4> QED
          BY <4>2 DEF Q
      <3>5. \A e \in Sides, d \in Conns : Len(snkRx'[e][d]) <= ChanCap
        BY <3>1, <3>4 DEF TaskTypes
      <3>6. TaskTypes'
        BY <1>1, <2>1, <3>3, <3>4, <3>5 DEF TaskTypes, Table, S
      <3>7. SinkTurn(sd, c)
        BY <1>3, <2>1, <2>2, <3>3, <3>4 DEF SinkTurn, a, r
      <3> QED
        BY <1>1, <2>1, <3>3, <3>4, <3>6, <3>7 DEF SameSink
    <2>3. CASE /\ RouterDropped(sd) /\ snkRx' = snkRx
               /\ Sets(snk, snk', sd, c, SinkRecvNone(t))
      <3>1. SinkRecvNone(t) \in S
        BY <2>1, SinkTypes DEF S
      <3> HIDE DEF t
      <3>2. /\ TaskTypes' /\ snk'[sd][c] = SinkRecvNone(t) /\ snkRx'[sd][c] = snkRx[sd][c]
            /\ wrote'[sd][c] = wrote[sd][c]
            /\ \A e \in Sides, d \in Conns : e # sd \/ d # c => SameSink(e, d)
        BY <1>a, <2>1, <2>3, <3>1
      <3> QED
        BY <1>1, <1>3, <2>1, <2>3, <3>2 DEF SinkTurn, t
    <2> QED
      BY <1>3, <2>2, <2>3 DEF SinkTake, Sets
  <1>4. CASE SinkWrite(sd, c)
    <2>1. PICK res \in WriteResults :
            /\ Sets(snk, snk', sd, c, SinkIo(t, res))
            /\ IF t.pc = "write" /\ res = "ok"
               THEN Sets(wrote, wrote', sd, c, wrote[sd][c] + 1) ELSE wrote' = wrote
      BY <1>4 DEF SinkWrite, Sets
    <2>2. t.pc \in {"write", "flush"} /\ t \in SinkState /\ snkRx' = snkRx
      BY <1>2, <1>4 DEF SinkWrite
    <2>3. SinkIo(t, res) \in S
      BY <2>2, SinkTypes, PortForwardAssumption DEF S
    <2>4. /\ Table(snk', S) /\ snk'[sd][c] = SinkIo(t, res)
          /\ \A e \in Sides, d \in Conns : e # sd \/ d # c => snk'[e][d] = snk[e][d]
      BY <1>0, <2>1, <2>3, SetFacts
    <2>5. /\ Table(wrote', Nat)
          /\ wrote'[sd][c] = IF t.pc = "write" /\ res = "ok"
                             THEN wrote[sd][c] + 1 ELSE wrote[sd][c]
          /\ \A e \in Sides, d \in Conns : e # sd \/ d # c => wrote'[e][d] = wrote[e][d]
      <3>1. wrote[sd][c] + 1 \in Nat
        BY <1>0
      <3>2. CASE t.pc = "write" /\ res = "ok"
        BY <1>0, <2>1, <3>1, <3>2, SetFacts
      <3>3. CASE ~(t.pc = "write" /\ res = "ok")
        BY <1>0, <2>1, <3>3
      <3> QED
        BY <3>2, <3>3
    <2>6. TaskTypes'
      BY <1>1, <2>2, <2>4, <2>5 DEF TaskTypes, Table, S
    <2>7. SinkTurn(sd, c)
      <3>1. \E x \in WriteResults :
              /\ snk'[sd][c] = SinkIo(snk[sd][c], x)
              /\ wrote'[sd][c] = IF snk[sd][c].pc = "write" /\ x = "ok"
                                 THEN wrote[sd][c] + 1 ELSE wrote[sd][c]
        BY <2>4, <2>5
      <3>2. snkRx'[sd][c] = snkRx[sd][c]
        BY <2>2
      <3> QED
        BY <1>4, <2>2, <3>1, <3>2 DEF SinkTurn
    <2> QED
      BY <1>1, <2>2, <2>4, <2>5, <2>6, <2>7 DEF SameSink
  <1>5. CASE SinkSend(sd, c)
    <2>1. SinkSending(t) /\ UNCHANGED <<snkRx, wrote>> /\ Sets(snk, snk', sd, c, SinkSent(t))
      BY <1>5 DEF SinkSend, Sets
    <2>2. SinkSent(t) \in S
      BY <1>2, <2>1, SinkTypes DEF S, SinkSending
    <2> HIDE DEF t
    <2>3. /\ TaskTypes' /\ snk'[sd][c] = SinkSent(t) /\ snkRx'[sd][c] = snkRx[sd][c]
          /\ wrote'[sd][c] = wrote[sd][c]
          /\ \A e \in Sides, d \in Conns : e # sd \/ d # c => SameSink(e, d)
      BY <1>a, <2>1, <2>2
    <2> QED
      BY <1>1, <1>5, <2>1, <2>3 DEF SinkTurn, t
  <1>6. CASE SinkFinish(sd, c)
    <2>1. /\ t.pc = "shutdown" /\ UNCHANGED <<snkRx, wrote>>
          /\ Sets(snk, snk', sd, c, SinkShutdown(t))
      BY <1>6 DEF SinkFinish, Sets
    <2>2. SinkShutdown(t) \in S
      BY <1>2, <2>1, SinkTypes DEF S
    <2> HIDE DEF t
    <2>3. /\ TaskTypes' /\ snk'[sd][c] = SinkShutdown(t) /\ snkRx'[sd][c] = snkRx[sd][c]
          /\ wrote'[sd][c] = wrote[sd][c]
          /\ \A e \in Sides, d \in Conns : e # sd \/ d # c => SameSink(e, d)
      BY <1>a, <2>1, <2>2
    <2> QED
      BY <1>1, <1>6, <2>1, <2>3 DEF SinkTurn, t
  <1> QED
    BY <1>3, <1>4, <1>5, <1>6

\* The start of the two tasks of a connection.
LEMMA StartSteps ==
    ASSUME TaskTypes, NEW sd \in Sides, NEW c \in Conns, StartTasks(sd, c)
    PROVE  /\ TaskTypes' /\ src'[sd][c] = SourceNew /\ snk'[sd][c] = SinkNew
           /\ \A e \in Sides, d \in Conns :
                e # sd \/ d # c => src'[e][d] = src[e][d] /\ snk'[e][d] = snk[e][d]
           /\ UNCHANGED <<srcRx, snkRx, wrote>>
  <1> DEFINE S == SourceState \cup {NoSource}
             T == SinkState \cup {NoSink}
  <1>1. UNCHANGED <<srcRx, snkRx, wrote>>
    BY DEF StartTasks
  <1>2. Table(src, S) /\ SourceNew \in S /\ Sets(src, src', sd, c, SourceNew)
    BY SourceTypes DEF TaskTypes, Table, StartTasks, Sets
  <1>6. Table(snk, T) /\ SinkNew \in T /\ Sets(snk, snk', sd, c, SinkNew)
    BY SinkTypes DEF TaskTypes, Table, StartTasks, Sets
  <1> HIDE DEF S, T
  <1>3. /\ Table(src', S) /\ src'[sd][c] = SourceNew
        /\ \A e \in Sides, d \in Conns : e # sd \/ d # c => src'[e][d] = src[e][d]
    BY <1>2, SetFacts
  <1>4. /\ Table(snk', T) /\ snk'[sd][c] = SinkNew
        /\ \A e \in Sides, d \in Conns : e # sd \/ d # c => snk'[e][d] = snk[e][d]
    BY <1>6, SetFacts
  <1>5. TaskTypes'
    BY <1>1, <1>3, <1>4 DEF TaskTypes, Table, S, T
  <1> QED
    BY <1>1, <1>3, <1>4, <1>5

\* A receiver puts a message into the channel of a source.
LEMMA TellSource ==
    ASSUME TaskTypes, NEW sd \in Sides, NEW c \in Conns, NEW a \in SinkAction,
           HasRoom(srcRx[sd][c]), Sets(srcRx, srcRx', sd, c, Append(srcRx[sd][c], a)),
           UNCHANGED <<src, snk, snkRx, wrote>>
    PROVE  /\ TaskTypes' /\ srcRx'[sd][c] = Append(srcRx[sd][c], a)
           /\ \A e \in Sides, d \in Conns : e # sd \/ d # c => SameSource(e, d)
  <1> DEFINE Q == Seq(SinkAction)
             r == Append(srcRx[sd][c], a)
  <1>1. Table(srcRx, Q) /\ srcRx[sd][c] \in Q /\ Sets(srcRx, srcRx', sd, c, r)
    BY DEF TaskTypes, Table
  <1>2. r \in Q /\ Len(r) = Len(srcRx[sd][c]) + 1 /\ Len(srcRx[sd][c]) \in Nat
    BY <1>1, AppendFacts
  <1>3. Len(r) <= ChanCap
    BY <1>2 DEF HasRoom, ChanCap
  <1> HIDE DEF Q, r
  <1>4. /\ Table(srcRx', Q) /\ srcRx'[sd][c] = r
        /\ \A e \in Sides, d \in Conns : e # sd \/ d # c => srcRx'[e][d] = srcRx[e][d]
    BY <1>1, <1>2, SetFacts
  <1>5. \A e \in Sides, d \in Conns : Len(srcRx'[e][d]) <= ChanCap
    BY <1>3, <1>4 DEF TaskTypes
  <1>6. TaskTypes'
    BY <1>4, <1>5 DEF TaskTypes, Table, Q
  <1> QED
    BY <1>4, <1>6 DEF SameSource, r

\* A receiver puts a message into the channel of a sink.
LEMMA TellSink ==
    ASSUME TaskTypes, NEW sd \in Sides, NEW c \in Conns, NEW a \in SourceAction,
           HasRoom(snkRx[sd][c]), Sets(snkRx, snkRx', sd, c, Append(snkRx[sd][c], a)),
           UNCHANGED <<src, snk, srcRx, wrote>>
    PROVE  /\ TaskTypes' /\ snkRx'[sd][c] = Append(snkRx[sd][c], a)
           /\ \A e \in Sides, d \in Conns : e # sd \/ d # c => SameSink(e, d)
  <1> DEFINE Q == Seq(SourceAction)
             r == Append(snkRx[sd][c], a)
  <1>1. Table(snkRx, Q) /\ snkRx[sd][c] \in Q /\ Sets(snkRx, snkRx', sd, c, r)
    BY DEF TaskTypes, Table
  <1>2. r \in Q /\ Len(r) = Len(snkRx[sd][c]) + 1 /\ Len(snkRx[sd][c]) \in Nat
    BY <1>1, AppendFacts
  <1>3. Len(r) <= ChanCap
    BY <1>2 DEF HasRoom, ChanCap
  <1> HIDE DEF Q, r
  <1>4. /\ Table(snkRx', Q) /\ snkRx'[sd][c] = r
        /\ \A e \in Sides, d \in Conns : e # sd \/ d # c => snkRx'[e][d] = snkRx[e][d]
    BY <1>1, <1>2, SetFacts
  <1>5. \A e \in Sides, d \in Conns : Len(snkRx'[e][d]) <= ChanCap
    BY <1>3, <1>4 DEF TaskTypes
  <1>6. TaskTypes'
    BY <1>4, <1>5 DEF TaskTypes, Table, Q
  <1> QED
    BY <1>4, <1>6 DEF SameSink, r

\* What a receiver does to the channels of the tasks.
LEMMA RoutingSteps ==
    ASSUME Types, NEW sd \in Sides, Receive(sd) \/ ShutdownOne(sd)
    PROVE  /\ TaskTypes' /\ UNCHANGED <<src, snk, wrote>>
           /\ \/ UNCHANGED <<srcRx, snkRx>>
              \/ /\ UNCHANGED snkRx
                 /\ \E c \in Conns :
                      /\ SourceTold(sd, c)
                      /\ \A e \in Sides, d \in Conns : e # sd \/ d # c => SameSource(e, d)
              \/ /\ UNCHANGED srcRx
                 /\ \E c \in Conns :
                      /\ SinkTold(sd, c)
                      /\ \A e \in Sides, d \in Conns : e # sd \/ d # c => SameSink(e, d)
  <1>0. TaskTypes /\ WayTypes /\ EndTypes
    BY DEF Types
  <1>1. UNCHANGED <<src, snk, wrote>>
    BY DEF Receive, ShutdownOne
  <1>2. UNCHANGED <<srcRx, snkRx>> => TaskTypes'
    BY <1>0, <1>1 DEF TaskTypes
  <1>3. CASE Receive(sd)
    <2> DEFINE m == Head(path[Peer(sd)])
    <2>1. m \in Msgs(Peer(sd)) /\ Peer(sd) \in Sides
      BY <1>0, <1>3, ReceiveFacts, SideFacts
    <2>2. \/ m.act \in {"Data", "SourceClosed"} /\ ToSink(sd, m)
          \/ m.act \in {"Ack", "SinkClosed"} /\ ToSource(sd, m)
          \/ UNCHANGED <<srcRx, snkRx>>
      BY <1>3 DEF Receive, ToConnecter, ToListener, Fails
    <2>a. /\ m.act \in {"Data", "SourceClosed"} => m \in ForSinks
          /\ m.act \in {"Ack", "SinkClosed"} => m \in ForSources
      BY <2>1, MsgFacts
    <2> HIDE DEF m
    <2>3. CASE m.act \in {"Data", "SourceClosed"} /\ ToSink(sd, m)
      <3>1. m \in ForSinks /\ m.id \in Conns /\ ActionOf(m) \in SourceAction
        BY <2>a, <2>3, ActionTypes
      <3>2. \/ UNCHANGED <<srcRx, snkRx>>
            \/ /\ ~SinkOver(snk[sd][m.id]) /\ HasRoom(snkRx[sd][m.id]) /\ srcRx' = srcRx
               /\ Sets(snkRx, snkRx', sd, m.id, Append(snkRx[sd][m.id], ActionOf(m)))
        BY <2>3 DEF ToSink, Fails, Sets
      <3>3. CASE UNCHANGED <<srcRx, snkRx>>
        BY <1>1, <1>2, <3>3
      <3>4. CASE /\ ~SinkOver(snk[sd][m.id]) /\ HasRoom(snkRx[sd][m.id]) /\ srcRx' = srcRx
                 /\ Sets(snkRx, snkRx', sd, m.id, Append(snkRx[sd][m.id], ActionOf(m)))
        <4>1. /\ TaskTypes' /\ snkRx'[sd][m.id] = Append(snkRx[sd][m.id], ActionOf(m))
              /\ \A e \in Sides, d \in Conns : e # sd \/ d # m.id => SameSink(e, d)
          BY <1>0, <1>1, <3>1, <3>4, TellSink
        <4>2. SinkTold(sd, m.id)
          BY <1>1, <1>3, <3>1, <3>4, <4>1 DEF SinkTold, m
        <4> QED
          BY <1>1, <3>1, <3>4, <4>1, <4>2
      <3> QED
        BY <3>2, <3>3, <3>4
    <2>4. CASE m.act \in {"Ack", "SinkClosed"} /\ ToSource(sd, m)
      <3>1. m \in ForSources /\ m.id \in Conns /\ ActionOf(m) \in SinkAction
        BY <2>a, <2>4, ActionTypes
      <3>2. \/ UNCHANGED <<srcRx, snkRx>>
            \/ /\ HasRoom(srcRx[sd][m.id]) /\ snkRx' = snkRx
               /\ Sets(srcRx, srcRx', sd, m.id, Append(srcRx[sd][m.id], ActionOf(m)))
        BY <2>4 DEF ToSource, Fails, Sets
      <3>3. CASE UNCHANGED <<srcRx, snkRx>>
        BY <1>1, <1>2, <3>3
      <3>4. CASE /\ HasRoom(srcRx[sd][m.id]) /\ snkRx' = snkRx
                 /\ Sets(srcRx, srcRx', sd, m.id, Append(srcRx[sd][m.id], ActionOf(m)))
        <4>1. /\ TaskTypes' /\ srcRx'[sd][m.id] = Append(srcRx[sd][m.id], ActionOf(m))
              /\ \A e \in Sides, d \in Conns : e # sd \/ d # m.id => SameSource(e, d)
          BY <1>0, <1>1, <3>1, <3>4, TellSource
        <4>2. SourceTold(sd, m.id)
          BY <1>1, <1>3, <3>1, <3>4, <4>1 DEF SourceTold, m
        <4> QED
          BY <1>1, <3>1, <3>4, <4>1, <4>2
      <3> QED
        BY <3>2, <3>3, <3>4
    <2>5. CASE UNCHANGED <<srcRx, snkRx>>
      BY <1>1, <1>2, <2>5
    <2> QED
      BY <2>2, <2>3, <2>4, <2>5
  <1>4. CASE ShutdownOne(sd)
    <2>1. PICK x \in receiver[sd].todo :
            \/ /\ SinkEnded(snk[sd][x[2]]) \/ HasRoom(snkRx[sd][x[2]])
               /\ snkRx' = IF SinkEnded(snk[sd][x[2]]) THEN snkRx
                           ELSE [snkRx EXCEPT ![sd][x[2]] = Append(@, SourceClosed)]
               /\ UNCHANGED srcRx
            \/ /\ SourceEnded(src[sd][x[2]]) \/ HasRoom(srcRx[sd][x[2]])
               /\ srcRx' = IF SourceEnded(src[sd][x[2]]) THEN srcRx
                           ELSE [srcRx EXCEPT ![sd][x[2]] = Append(@, SinkClosed)]
               /\ UNCHANGED snkRx
      BY <1>4 DEF ShutdownOne
    <2> DEFINE c == x[2]
    <2>2. c \in Conns /\ receiver[sd].pc = "shutdown"
      BY <1>0, <1>4, <2>1 DEF EndTypes, ReceiverState, ShutdownOne
    <2>3. SourceClosed \in SourceAction /\ SinkClosed \in SinkAction
      BY DEF SourceClosed, SourceAction, SinkClosed, SinkAction
    <2>4. \/ UNCHANGED <<srcRx, snkRx>>
          \/ /\ HasRoom(snkRx[sd][c]) /\ srcRx' = srcRx
             /\ Sets(snkRx, snkRx', sd, c, Append(snkRx[sd][c], SourceClosed))
          \/ /\ HasRoom(srcRx[sd][c]) /\ snkRx' = snkRx
             /\ Sets(srcRx, srcRx', sd, c, Append(srcRx[sd][c], SinkClosed))
      BY <2>1 DEF Sets
    <2> HIDE DEF c
    <2>5. CASE UNCHANGED <<srcRx, snkRx>>
      BY <1>1, <1>2, <2>5
    <2>6. CASE /\ HasRoom(snkRx[sd][c]) /\ srcRx' = srcRx
               /\ Sets(snkRx, snkRx', sd, c, Append(snkRx[sd][c], SourceClosed))
      <3>1. /\ TaskTypes' /\ snkRx'[sd][c] = Append(snkRx[sd][c], SourceClosed)
            /\ \A e \in Sides, d \in Conns : e # sd \/ d # c => SameSink(e, d)
        BY <1>0, <1>1, <2>2, <2>3, <2>6, TellSink
      <3>2. SinkTold(sd, c)
        BY <1>1, <1>4, <2>2, <3>1 DEF SinkTold
      <3> QED
        BY <1>1, <2>2, <2>6, <3>1, <3>2
    <2>7. CASE /\ HasRoom(srcRx[sd][c]) /\ snkRx' = snkRx
               /\ Sets(srcRx, srcRx', sd, c, Append(srcRx[sd][c], SinkClosed))
      <3>1. /\ TaskTypes' /\ srcRx'[sd][c] = Append(srcRx[sd][c], SinkClosed)
            /\ \A e \in Sides, d \in Conns : e # sd \/ d # c => SameSource(e, d)
        BY <1>0, <1>1, <2>2, <2>3, <2>7, TellSource
      <3>2. SourceTold(sd, c)
        BY <1>1, <1>4, <2>2, <3>1 DEF SourceTold
      <3> QED
        BY <1>1, <2>2, <2>7, <3>1, <3>2
    <2> QED
      BY <2>4, <2>5, <2>6, <2>7
  <1> QED
    BY <1>3, <1>4

\* Each step is somebody's, for each stream.
LEMMA TaskSteps ==
    ASSUME Types, [Next]_vars
    PROVE  TaskTypes' /\ \A p \in Sides, c \in Conns : StreamTurn(p, c)
  <1> DEFINE Goal == TaskTypes' /\ \A p \in Sides, c \in Conns : StreamTurn(p, c)
  <1> SUFFICES Goal
    OBVIOUS
  <1>0. TaskTypes /\ PortTypes
    BY DEF Types
  <1>a. UNCHANGED taskVars => Goal
    BY <1>0 DEF taskVars, TaskTypes, StreamTurn, SameSource, SameSink
  <1>b. ASSUME NEW sd \in Sides, NEW c \in Conns, StartsAt(sd, c), StartTasks(sd, c)
        PROVE  Goal
    <2>1. /\ TaskTypes' /\ src'[sd][c] = SourceNew /\ snk'[sd][c] = SinkNew
          /\ \A e \in Sides, d \in Conns :
               e # sd \/ d # c => src'[e][d] = src[e][d] /\ snk'[e][d] = snk[e][d]
          /\ UNCHANGED <<srcRx, snkRx, wrote>>
      BY <1>0, <1>b, StartSteps
    <2>2. ASSUME NEW p \in Sides, NEW d \in Conns PROVE StreamTurn(p, d)
      <3>1. Peer(p) \in Sides /\ Peer(p) # p
        BY SideFacts
      <3>2. CASE p = sd /\ d = c
        BY <1>b, <2>1, <3>1, <3>2 DEF StreamTurn, SameSink
      <3>3. CASE Peer(p) = sd /\ d = c
        BY <1>b, <2>1, <3>1, <3>3 DEF StreamTurn, SameSource
      <3>4. CASE (p # sd /\ Peer(p) # sd) \/ d # c
        BY <2>1, <3>1, <3>4 DEF StreamTurn, SameSource, SameSink
      <3> QED
        BY <3>2, <3>3, <3>4
    <2> QED
      BY <2>1, <2>2
  <1> HIDE DEF Goal
  <1>1. CASE ListenerAccept \/ ListenerAcceptFails \/ ListenerEnd \/ ListenerRequest \/ ListenerClose
    BY <1>1, <1>a DEF ListenerAccept, ListenerAcceptFails, ListenerEnd, ListenerRequest, ListenerClose
  <1>2. CASE ListenerResponse
    <2>1. listener.conn \in Conns /\ "client" \in Sides
      BY <1>0, <1>2, SideFacts DEF PortTypes, ListenerResponse
    <2>2. \/ UNCHANGED taskVars
          \/ StartsAt("client", listener.conn) /\ StartTasks("client", listener.conn)
      BY <1>2 DEF ListenerResponse, StartsAt
    <2> QED
      BY <1>a, <1>b, <2>1, <2>2
  <1>3. CASE ConnecterRecv \/ ConnecterNone \/ \E c \in Conns : Dialed(c)
    BY <1>3, <1>a DEF ConnecterRecv, ConnecterNone, Dialed
  <1>4. ASSUME NEW c \in Conns, DialReply(c)
        PROVE  Goal
    <2>1. "server" \in Sides
      BY SideFacts
    <2>2. \/ UNCHANGED taskVars
          \/ StartsAt("server", c) /\ StartTasks("server", c)
      BY <1>4 DEF DialReply, StartsAt
    <2> QED
      BY <1>a, <1>b, <2>1, <2>2
  <1>5. ASSUME NEW sd \in Sides, NEW c \in Conns,
               SourceIn(sd, c) \/ SourceSend(sd, c) \/ SourceTake(sd, c)
        PROVE  Goal
    <2>1. /\ TaskTypes' /\ SourceTurn(sd, c)
          /\ \A e \in Sides, d \in Conns : e # sd \/ d # c => SameSource(e, d)
          /\ UNCHANGED <<snk, snkRx, wrote>>
      BY <1>0, <1>5, SourceSteps
    <2>2. ASSUME NEW p \in Sides, NEW d \in Conns PROVE StreamTurn(p, d)
      <3>1. SameSink(Peer(p), d)
        BY <2>1 DEF SameSink
      <3> QED
        BY <2>1, <3>1 DEF StreamTurn
    <2> QED
      BY <2>1, <2>2 DEF Goal
  <1>6. ASSUME NEW sd \in Sides, NEW c \in Conns,
               SinkTake(sd, c) \/ SinkWrite(sd, c) \/ SinkSend(sd, c) \/ SinkFinish(sd, c)
        PROVE  Goal
    <2>1. /\ TaskTypes' /\ SinkTurn(sd, c)
          /\ \A e \in Sides, d \in Conns : e # sd \/ d # c => SameSink(e, d)
          /\ UNCHANGED <<src, srcRx>>
      BY <1>0, <1>6, SinkSteps
    <2>2. ASSUME NEW p \in Sides, NEW d \in Conns PROVE StreamTurn(p, d)
      <3>1. SameSource(p, d) /\ Peer(p) \in Sides
        BY <2>1, SideFacts DEF SameSource
      <3> QED
        BY <2>1, <3>1 DEF StreamTurn
    <2> QED
      BY <2>1, <2>2 DEF Goal
  <1>7. ASSUME NEW sd \in Sides, Receive(sd) \/ ShutdownOne(sd)
        PROVE  Goal
    <2>1. /\ TaskTypes' /\ UNCHANGED <<src, snk, wrote>>
          /\ \/ UNCHANGED <<srcRx, snkRx>>
             \/ /\ UNCHANGED snkRx
                /\ \E c \in Conns :
                     /\ SourceTold(sd, c)
                     /\ \A e \in Sides, d \in Conns : e # sd \/ d # c => SameSource(e, d)
             \/ /\ UNCHANGED srcRx
                /\ \E c \in Conns :
                     /\ SinkTold(sd, c)
                     /\ \A e \in Sides, d \in Conns : e # sd \/ d # c => SameSink(e, d)
      BY <1>7, RoutingSteps
    <2>2. ASSUME NEW p \in Sides, NEW d \in Conns PROVE StreamTurn(p, d)
      <3>1. Peer(p) \in Sides
        BY SideFacts
      <3>2. snkRx' = snkRx => SameSink(Peer(p), d)
        BY <2>1 DEF SameSink
      <3>3. srcRx' = srcRx => SameSource(p, d)
        BY <2>1 DEF SameSource
      <3> QED
        BY <2>1, <3>1, <3>2, <3>3 DEF StreamTurn
    <2> QED
      BY <2>1, <2>2 DEF Goal
  <1>8. ASSUME NEW sd \in Sides, BeginShutdown(sd) \/ ShutdownEnd(sd) \/ SenderFinish(sd)
        PROVE  Goal
    BY <1>8, <1>a DEF BeginShutdown, ShutdownEnd, SenderFinish
  <1>9. CASE ServeExit \/ ServeKill \/ ServeJoin \/ ClientStatus \/ ClientJoin \/ LinkDown
    BY <1>9, <1>a DEF ServeExit, ServeKill, ServeJoin, ClientStatus, ClientJoin, LinkDown, taskVars
  <1>10. CASE UNCHANGED vars
    BY <1>10, <1>a DEF vars
  <1> QED
    BY <1>1, <1>2, <1>3, <1>4, <1>5, <1>6, <1>7, <1>8, <1>9, <1>10
       DEF Next, ListenerStep, ConnecterStep, TaskStep, ReceiverStep, Terminated

-----------------------------------------------------------------------------
(* The listener, the connecter and the ends.                               *)

\* A receiver puts a message into the channel of the connecter, or of the listener.
ConnecterTold ==
    LET m == Head(path["client"]) IN
    /\ Receive("server") /\ m \in Requests /\ connecter = "recv"
    /\ connRx' = Append(connRx, m)
    /\ UNCHANGED <<listener, listenRx, connecter, dial, receiver>>

ListenerTold ==
    LET m == Head(path["server"]) IN
    /\ Receive("client") /\ m \in Responses
    /\ listener.pc \in {"request", "response"} /\ listener.conn = m.id
    /\ listenRx' = Append(listenRx, m)
    /\ UNCHANGED <<listener, connecter, connRx, dial, receiver>>

\* Whose step it is, for the request of a connection.
PortTurn ==
    \/ UNCHANGED portVars
    \/ ListenerAccept \/ ListenerAcceptFails \/ ListenerEnd
    \/ ListenerRequest \/ ListenerResponse \/ ListenerClose
    \/ ConnecterRecv \/ ConnecterNone
    \/ \E c \in Conns : Dialed(c) \/ DialReply(c)
    \/ ConnecterTold \/ ListenerTold

\* What a receiver does, in which only the ports' channels matter.
LEMMA ReceivePorts ==
    ASSUME Types, NEW sd \in Sides, Receive(sd)
    PROVE  /\ UNCHANGED portVars \/ ConnecterTold \/ ListenerTold
           /\ receiver[sd].pc = "route"
           /\ \/ receiver' = receiver
              \/ receiver' = [receiver EXCEPT ![sd].pc = "failed"]
              \/ /\ receiver' = [receiver EXCEPT ![sd].pc = "finished"]
                 /\ Head(path[Peer(sd)]) = Finished
           /\ status' \in {status, "lost", "exit"}
  <1> DEFINE m == Head(path[Peer(sd)])
  <1>0. WayTypes /\ PortTypes
    BY DEF Types
  <1>1. m \in Msgs(Peer(sd)) /\ Peer(sd) \in Sides
    BY <1>0, ReceiveFacts, SideFacts
  <1>2. /\ m.act = "Finished" => m = Finished
        /\ m.act \in {"Connect", "ListenerClosed"} => Peer(sd) = "client" /\ m \in Requests
        /\ m.act \in {"Connected", "Refused"} => Peer(sd) = "server" /\ m \in Responses
    BY <1>1, MsgFacts
  <1>3. /\ Peer(sd) = "client" => sd = "server"
        /\ Peer(sd) = "server" => sd = "client"
    BY SideFacts DEF Peer
  <1>4. /\ receiver[sd].pc = "route" /\ UNCHANGED <<listener, connecter, dial>>
        /\ \/ m.act \in {"Data", "SourceClosed"} /\ ToSink(sd, m)
           \/ m.act \in {"Ack", "SinkClosed"} /\ ToSource(sd, m)
           \/ m.act \in {"Connect", "ListenerClosed"} /\ ToConnecter(m)
           \/ m.act \in {"Connected", "Refused"} /\ ToListener(m)
           \/ /\ m.act = "Exit"
              /\ status' = "exit"
              /\ UNCHANGED <<receiver, srcRx, snkRx, listenRx, connRx>>
           \/ /\ m.act = "Finished"
              /\ receiver' = [receiver EXCEPT ![sd].pc = "finished"]
              /\ UNCHANGED <<status, srcRx, snkRx, listenRx, connRx>>
    BY DEF Receive
  <1>5. /\ \A d \in Sides : StatusLost(d) \in {status, "lost"}
        /\ "client" \in Sides /\ "server" \in Sides
    BY SideFacts DEF StatusLost
  <1> HIDE DEF m
  <1>6. CASE m.act \in {"Data", "SourceClosed"} /\ ToSink(sd, m)
    BY <1>4, <1>5, <1>6 DEF ToSink, Fails, portVars
  <1>7. CASE m.act \in {"Ack", "SinkClosed"} /\ ToSource(sd, m)
    BY <1>4, <1>5, <1>7 DEF ToSource, Fails, portVars
  <1>8. CASE m.act \in {"Connect", "ListenerClosed"} /\ ToConnecter(m)
    <2>1. sd = "server" /\ Peer(sd) = "client" /\ m \in Requests
      BY <1>2, <1>3, <1>8
    <2>2. CASE connecter = "done" /\ Fails("server")
      BY <1>4, <1>5, <2>1, <2>2 DEF Fails, portVars
    <2>3. CASE /\ connecter # "done" /\ connRx' = Append(connRx, m)
               /\ UNCHANGED <<receiver, status, srcRx, snkRx, listenRx>>
      <3>1. m = Head(path["client"]) /\ connecter = "recv"
        BY <1>0, <2>1, <2>3 DEF m, PortTypes
      <3>2. ConnecterTold
        BY <1>4, <2>1, <2>3, <3>1 DEF ConnecterTold
      <3> QED
        BY <1>4, <2>3, <3>2
    <2> QED
      BY <1>8, <2>2, <2>3 DEF ToConnecter
  <1>9. CASE m.act \in {"Connected", "Refused"} /\ ToListener(m)
    <2>1. sd = "client" /\ Peer(sd) = "server" /\ m \in Responses
      BY <1>2, <1>3, <1>9
    <2>2. CASE Fails("client") /\ ~(listener.pc \in {"request", "response"} /\ listener.conn = m.id)
      BY <1>4, <1>5, <2>1, <2>2 DEF Fails, portVars
    <2>3. CASE /\ listener.pc \in {"request", "response"} /\ listener.conn = m.id
               /\ listenRx' = Append(listenRx, m)
               /\ UNCHANGED <<receiver, status, srcRx, snkRx, connRx>>
      <3>1. m = Head(path["server"])
        BY <2>1 DEF m
      <3>2. ListenerTold
        BY <1>4, <2>1, <2>3, <3>1 DEF ListenerTold
      <3> QED
        BY <1>4, <2>3, <3>2
    <2> QED
      BY <1>9, <2>2, <2>3 DEF ToListener
  <1>10. CASE m.act = "Exit" /\ status' = "exit" /\ UNCHANGED <<receiver, listenRx, connRx>>
    BY <1>4, <1>10 DEF portVars
  <1>11. CASE /\ m.act = "Finished" /\ receiver' = [receiver EXCEPT ![sd].pc = "finished"]
              /\ UNCHANGED <<status, listenRx, connRx>>
    BY <1>2, <1>4, <1>11 DEF portVars, m
  <1> QED
    BY <1>4, <1>6, <1>7, <1>8, <1>9, <1>10, <1>11

\* Each step is somebody's, for the requests.
LEMMA PortSteps ==
    ASSUME Types, [Next]_vars
    PROVE  PortTypes' /\ PortTurn
  <1>0. PortTypes
    BY DEF Types
  <1>1. PortTurn
    <2>1. ASSUME NEW sd \in Sides, NEW c \in Conns, SourceIn(sd, c) \/ TaskStep(sd, c)
          PROVE  UNCHANGED portVars
      BY <2>1 DEF SourceIn, ReadPacket, EndOfInput, TaskStep, SourceSend, SourceTake,
                  SinkTake, SinkWrite, SinkSend, SinkFinish
    <2>2. ASSUME NEW sd \in Sides, Receive(sd)
          PROVE  PortTurn
      BY <2>2, ReceivePorts DEF PortTurn
    <2>3. ASSUME NEW sd \in Sides,
                 BeginShutdown(sd) \/ ShutdownOne(sd) \/ ShutdownEnd(sd) \/ SenderFinish(sd)
          PROVE  UNCHANGED portVars
      BY <2>3 DEF BeginShutdown, ShutdownOne, ShutdownEnd, SenderFinish
    <2>4. ServeExit \/ ServeKill \/ ServeJoin \/ ClientStatus \/ ClientJoin \/ LinkDown
            => UNCHANGED portVars
      BY DEF ServeExit, ServeKill, ServeJoin, ClientStatus, ClientJoin, LinkDown
    <2>5. UNCHANGED vars => UNCHANGED portVars
      BY DEF vars
    <2> QED
      BY <2>1, <2>2, <2>3, <2>4, <2>5
         DEF Next, PortTurn, ListenerStep, ConnecterStep, ReceiverStep, Terminated
  <1>2. PortTypes'
    <2>1. CASE UNCHANGED portVars
      BY <1>0, <2>1 DEF PortTypes, portVars
    <2>2. CASE ListenerAccept \/ ListenerAcceptFails \/ ListenerEnd
      <3>1. /\ UNCHANGED <<listenRx, connecter, connRx, dial>>
            /\ \/ listener.conn \in Conns /\ listener' = [listener EXCEPT !.pc = "request"]
               \/ listener.conn \in Conns /\ listener.pc = "accept"
                  /\ listener' = [listener EXCEPT !.conn = listener.conn + 1]
               \/ listener' = [listener EXCEPT !.pc = "close"]
        BY <2>2 DEF ListenerAccept, ListenerAcceptFails, ListenerEnd
      <3>2. listener.conn \in Conns => listener.conn + 1 \in 1..MaxConns + 1
        BY PortForwardAssumption DEF Conns
      <3> QED
        BY <1>0, <3>1, <3>2 DEF PortTypes
    <2>3. CASE ListenerRequest \/ ListenerClose
      <3>1. /\ UNCHANGED <<listenRx, connecter, connRx, dial>>
            /\ \/ listener.pc = "request" /\ listener' = [listener EXCEPT !.pc = "response"]
               \/ listener' = [listener EXCEPT !.pc = "done"]
        BY <2>3 DEF ListenerRequest, ListenerClose
      <3> QED
        BY <1>0, <3>1 DEF PortTypes
    <2>4. CASE ListenerResponse
      <3>1. /\ UNCHANGED <<connecter, connRx, dial>> /\ listenRx # <<>>
            /\ listenRx' = Tail(listenRx) /\ listener.pc = "response"
            /\ listener' = [pc |-> "accept", conn |-> listener.conn + 1]
        BY <2>4 DEF ListenerResponse
      <3>2. listenRx' \in Seq(Responses)
        BY <1>0, <3>1, TailFacts DEF PortTypes
      <3>3. listener.conn \in Conns => listener.conn + 1 \in 1..MaxConns + 1
        BY PortForwardAssumption DEF Conns
      <3> QED
        BY <1>0, <3>1, <3>2, <3>3 DEF PortTypes
    <2>5. CASE ConnecterRecv \/ ConnecterNone
      <3>1. /\ UNCHANGED <<listener, listenRx>>
            /\ connRx' = connRx \/ (connRx # <<>> /\ connRx' = Tail(connRx))
            /\ connecter' \in {connecter, "done"}
            /\ dial' = dial \/ dial' = [dial EXCEPT ![Head(connRx).id] = "connect"]
        BY <2>5 DEF ConnecterRecv, ConnecterNone
      <3>2. connRx' \in Seq(Requests)
        <4>1. connRx \in Seq(Requests)
          BY <1>0 DEF PortTypes
        <4>2. ASSUME connRx # <<>> PROVE Tail(connRx) \in Seq(Requests)
          BY <4>1, <4>2, TailFacts
        <4> QED
          BY <3>1, <4>1, <4>2
      <3>3. connecter' \in {"recv", "done"}
        BY <1>0, <3>1 DEF PortTypes
      <3>4. dial' \in [Conns -> {"none", "connect", "ok", "err", "open", "refused"}]
        BY <1>0, <3>1 DEF PortTypes
      <3> QED
        BY <1>0, <3>1, <3>2, <3>3, <3>4 DEF PortTypes
    <2>6. ASSUME NEW c \in Conns, Dialed(c) \/ DialReply(c)
          PROVE  PortTypes'
      <3>1. /\ UNCHANGED <<listener, listenRx, connecter, connRx>>
            /\ \E v \in {"ok", "err", "open", "refused"} : dial' = [dial EXCEPT ![c] = v]
        BY <2>6 DEF Dialed, DialReply
      <3> QED
        BY <1>0, <3>1 DEF PortTypes
    <2>7. CASE ConnecterTold
      <3>1. connRx' \in Seq(Requests)
        BY <1>0, <2>7, AppendFacts DEF ConnecterTold, PortTypes
      <3> QED
        BY <1>0, <2>7, <3>1 DEF ConnecterTold, PortTypes
    <2>8. CASE ListenerTold
      <3>1. listenRx' \in Seq(Responses)
        BY <1>0, <2>8, AppendFacts DEF ListenerTold, PortTypes
      <3> QED
        BY <1>0, <2>8, <3>1 DEF ListenerTold, PortTypes
    <2> QED
      BY <1>1, <2>1, <2>2, <2>3, <2>4, <2>5, <2>6, <2>7, <2>8 DEF PortTurn
  <1> QED
    BY <1>1, <1>2

\* How a receiver task goes on.
ReceiverTurn(sd) ==
    \/ receiver'[sd] = receiver[sd]
    \/ /\ Receive(sd) /\ receiver[sd].pc = "route"
       /\ \/ receiver'[sd].pc = "failed"
          \/ receiver'[sd].pc = "finished" /\ Head(path[Peer(sd)]) = Finished
    \/ BeginShutdown(sd) /\ receiver[sd].pc = "route" /\ receiver'[sd].pc = "shutdown"
    \/ ShutdownOne(sd) /\ receiver[sd].pc = "shutdown" /\ receiver'[sd].pc = "shutdown"
    \/ ShutdownEnd(sd) /\ receiver[sd].pc = "shutdown" /\ receiver'[sd].pc = "closed"

\* Only serve() and main() of its side end a side, and only its sender says so.
EndTurn ==
    /\ \A sd \in Sides : sender'[sd] = sender[sd] \/ (SenderFinish(sd) /\ sender'[sd] = "done")
    /\ serve' = serve \/ (serve = "wait" /\ serve' = "join") \/ (ServeJoin /\ serve' = "over")
    /\ link' = link \/ link' = "down"
    /\ client' = client \/ client' = "join" \/ (client' = "over" /\ link' = "down")

\* Each step is somebody's, for the receivers and the ends.
LEMMA EndSteps ==
    ASSUME Types, [Next]_vars
    PROVE  EndTypes' /\ EndTurn /\ \A sd \in Sides : ReceiverTurn(sd)
  <1> DEFINE Goal == EndTypes' /\ EndTurn /\ \A sd \in Sides : ReceiverTurn(sd)
  <1> SUFFICES Goal
    OBVIOUS
  <1>0. EndTypes /\ DOMAIN receiver = Sides /\ \A sd \in Sides : receiver[sd] \in ReceiverState
    BY DEF Types, EndTypes
  <1>a. UNCHANGED <<sessionVars, link>> => Goal
    BY <1>0 DEF EndTypes, EndTurn, ReceiverTurn, sessionVars
  <1> HIDE DEF Goal
  <1>1. ASSUME \/ ListenerAccept \/ ListenerAcceptFails \/ ListenerEnd \/ ListenerStep
               \/ ConnecterStep \/ \E c \in Conns : Dialed(c) \/ DialReply(c)
        PROVE  Goal
    <2>1. CASE ListenerAccept \/ ListenerAcceptFails \/ ListenerEnd \/ ListenerStep
      BY <1>a, <2>1 DEF ListenerStep, ListenerAccept, ListenerAcceptFails, ListenerEnd,
           ListenerRequest, ListenerResponse, ListenerClose
    <2>2. CASE ConnecterStep \/ \E c \in Conns : Dialed(c) \/ DialReply(c)
      BY <1>a, <2>2 DEF ConnecterStep, ConnecterRecv, ConnecterNone, Dialed, DialReply
    <2> QED
      BY <1>1, <2>1, <2>2
  <1>2. ASSUME NEW sd \in Sides, NEW c \in Conns, SourceIn(sd, c) \/ TaskStep(sd, c)
        PROVE  Goal
    BY <1>2, <1>a DEF SourceIn, ReadPacket, EndOfInput, TaskStep, SourceSend, SourceTake,
         SinkTake, SinkWrite, SinkSend, SinkFinish
  <1>3. ASSUME NEW sd \in Sides, ReceiverStep(sd)
        PROVE  Goal
    <2> DEFINE other == \A e \in Sides : e # sd => receiver'[e] = receiver[e]
    <2>1. UNCHANGED <<sender, serve, client, link>>
      BY <1>3 DEF ReceiverStep, Receive, BeginShutdown, ShutdownOne, ShutdownEnd
    <2>2. CASE Receive(sd)
      <3>1. /\ receiver[sd].pc = "route"
            /\ \/ receiver' = receiver
               \/ receiver' = [receiver EXCEPT ![sd].pc = "failed"]
               \/ /\ receiver' = [receiver EXCEPT ![sd].pc = "finished"]
                  /\ Head(path[Peer(sd)]) = Finished
            /\ status' \in {status, "lost", "exit"}
        BY <2>2, ReceivePorts
      <3>2. receiver' \in [Sides -> ReceiverState] /\ other /\ ReceiverTurn(sd)
        BY <1>0, <2>2, <3>1 DEF ReceiverState, ReceiverTurn, EndTypes
      <3> QED
        BY <1>0, <2>1, <3>1, <3>2 DEF EndTypes, EndTurn, ReceiverTurn, Goal
    <2>3. CASE BeginShutdown(sd)
      <3>1. /\ receiver[sd].pc = "route" /\ status' = status
            /\ receiver' = [receiver EXCEPT ![sd] = [pc |-> "shutdown", todo |-> Drained(sd)]]
        BY <2>3 DEF BeginShutdown
      <3>2. Drained(sd) \in SUBSET ({"sink", "source"} \X Conns)
        BY DEF Drained
      <3>3. receiver' \in [Sides -> ReceiverState] /\ other /\ ReceiverTurn(sd)
        BY <1>0, <2>3, <3>1, <3>2 DEF ReceiverState, ReceiverTurn, EndTypes
      <3> QED
        BY <1>0, <2>1, <3>1, <3>3 DEF EndTypes, EndTurn, ReceiverTurn, Goal
    <2>4. CASE ShutdownOne(sd)
      <3>1. /\ receiver[sd].pc = "shutdown" /\ status' = status
            /\ \E x : receiver' = [receiver EXCEPT ![sd].todo = receiver[sd].todo \ {x}]
        BY <2>4 DEF ShutdownOne
      <3>2. receiver' \in [Sides -> ReceiverState] /\ other /\ ReceiverTurn(sd)
        BY <1>0, <2>4, <3>1 DEF ReceiverState, ReceiverTurn, EndTypes
      <3> QED
        BY <1>0, <2>1, <3>1, <3>2 DEF EndTypes, EndTurn, ReceiverTurn, Goal
    <2>5. CASE ShutdownEnd(sd)
      <3>1. /\ receiver[sd].pc = "shutdown" /\ status' \in {status, "lost"}
            /\ receiver' = [receiver EXCEPT ![sd].pc = "closed"]
        BY <2>5 DEF ShutdownEnd, StatusLost
      <3>2. receiver' \in [Sides -> ReceiverState] /\ other /\ ReceiverTurn(sd)
        BY <1>0, <2>5, <3>1 DEF ReceiverState, ReceiverTurn, EndTypes
      <3> QED
        BY <1>0, <2>1, <3>1, <3>2 DEF EndTypes, EndTurn, ReceiverTurn, Goal
    <2> QED
      BY <1>3, <2>2, <2>3, <2>4, <2>5 DEF ReceiverStep
  <1>4. ASSUME NEW sd \in Sides, SenderFinish(sd)
        PROVE  Goal
    <2>1. /\ sender' = [sender EXCEPT ![sd] = "done"] /\ UNCHANGED <<link, receiver, serve, status, client>>
      BY <1>4 DEF SenderFinish
    <2> QED
      BY <1>0, <1>4, <2>1 DEF EndTypes, EndTurn, ReceiverTurn, Goal
  <1>5. CASE ServeExit \/ ServeKill \/ ServeJoin
    <2>1. /\ UNCHANGED <<link, receiver, sender, status, client>>
          /\ (serve = "wait" /\ serve' = "join") \/ (ServeJoin /\ serve' = "over")
      BY <1>5 DEF ServeExit, ServeKill, ServeJoin
    <2> QED
      BY <1>0, <2>1 DEF EndTypes, EndTurn, ReceiverTurn, Goal
  <1>6. CASE ClientStatus \/ ClientJoin \/ LinkDown
    <2>1. /\ UNCHANGED <<receiver, sender, serve, status>>
          /\ link' = link \/ link' = "down"
          /\ client' = client \/ client' = "join" \/ (client' = "over" /\ link' = "down")
      <3>1. Disconnect => link' = "down"
        BY DEF Disconnect
      <3>2. ClientExits => client' = "over" /\ link' = "down"
        BY <3>1 DEF ClientExits, Types, WayTypes
      <3> QED
        BY <1>6, <3>1, <3>2 DEF ClientStatus, ClientJoin, LinkDown, sessionVars
    <2> QED
      BY <1>0, <2>1 DEF EndTypes, EndTurn, ReceiverTurn, Goal
  <1>7. CASE UNCHANGED vars
    BY <1>7, <1>a DEF vars
  <1> QED
    BY <1>1, <1>2, <1>3, <1>4, <1>5, <1>6, <1>7 DEF Next, Terminated

\* Types are preserved.
LEMMA TypesNext == Types /\ [Next]_vars => Types'
  BY PathStep, TaskSteps, PortSteps, EndSteps DEF Types

-----------------------------------------------------------------------------
(* What is new on a way.                                                   *)

\* What is on a way after a step was there before, or has just been put there.
LEMMA WayChanges ==
    ASSUME Types, [Next]_vars, NEW e \in Sides, NEW C, NEW D
    PROVE  /\ Has(path'[e], C) =>
                Has(path[e], C) \/ (link = "up" /\ \E m \in C \cap Msgs(e) : Adds(e, m))
           /\ NoneAfter(path[e], C, D) =>
                \/ NoneAfter(path'[e], C, D)
                \/ Has(path[e], C) /\ \E m \in D \cap Msgs(e) : Adds(e, m)
  <1> DEFINE p == path[e]
             r == path'[e]
             S == Msgs(e)
  <1>1. p \in Seq(S)
    BY DEF Types, WayTypes
  <1>2. Kept(r, p) \/ (link = "up" /\ \E m \in S : Appended(r, p, m) /\ Adds(e, m))
    BY PathStep DEF WayStep
  <1> HIDE DEF p, r, S
  <1>3. CASE Kept(r, p)
    <2>1. /\ Has(r, C) => Has(p, C)
          /\ NoneAfter(p, C, D) => NoneAfter(r, C, D)
      BY <1>3 DEF Kept
    <2> QED
      BY <2>1 DEF p, r
  <1>4. ASSUME link = "up", NEW m \in S, Appended(r, p, m), Adds(e, m)
        PROVE  /\ Has(r, C) => Has(p, C) \/ (link = "up" /\ \E x \in C \cap S : Adds(e, x))
               /\ NoneAfter(p, C, D) =>
                    NoneAfter(r, C, D) \/ (Has(p, C) /\ \E x \in D \cap S : Adds(e, x))
    <2>1. /\ Has(r, C) <=> Has(p, C) \/ m \in C
          /\ NoneAfter(r, C, D) <=> NoneAfter(p, C, D) /\ (Has(p, C) => m \notin D)
      BY <1>1, <1>4, AppendOrder
    <2> QED
      BY <1>4, <2>1
  <1> QED
    BY <1>2, <1>3, <1>4 DEF p, r, S

\* Who has put a message there.
LEMMA AddsFacts ==
    ASSUME Types, NEW e \in Sides, NEW m, Adds(e, m)
    PROVE  /\ m.act = "Connect" =>
                e = "client" /\ ListenerRequest /\ m = Connect(listener.conn)
           /\ m.act = "ListenerClosed" => e = "client" /\ ListenerClose
           /\ m.act \in {"Connected", "Refused"} =>
                e = "server" /\ \E c \in Conns :
                  DialReply(c) /\ m = ConnectResponse(c, dial[c] = "ok")
           /\ m.act = "Finished" => SenderFinish(e)
           /\ m.act = "Exit" => e = "server" /\ ServeExit
           /\ m.act \in {"Data", "SourceClosed"} =>
                /\ m.id \in Conns /\ SourceSend(e, m.id)
                /\ m = StreamMsg(m.id, SourceMsg(src[e][m.id]))
                /\ src[e][m.id].pc = IF m.act = "Data" THEN "send" ELSE "close"
           /\ m.act \in {"Ack", "SinkClosed"} =>
                /\ m.id \in Conns /\ SinkSend(e, m.id)
                /\ snk[e][m.id].pc = IF m.act = "Ack" THEN "ack" ELSE "notify"
  <1>0. TaskTypes
    BY DEF Types
  <1>1. CASE SenderFinish(e) /\ m = Finished
    BY <1>1 DEF Finished
  <1>2. CASE e = "client" /\ ListenerRequest /\ m = Connect(listener.conn)
    BY <1>2 DEF Connect
  <1>3. CASE e = "client" /\ ListenerClose /\ m = ListenerClosed
    BY <1>3 DEF ListenerClosed
  <1>4. CASE e = "server" /\ ServeExit /\ m = Exit
    BY <1>4 DEF Exit
  <1>5. ASSUME NEW c \in Conns, e = "server", DialReply(c), m = ConnectResponse(c, dial[c] = "ok")
        PROVE  m.act \in {"Connected", "Refused"}
    BY <1>5 DEF ConnectResponse
  <1>6. ASSUME NEW c \in Conns, SourceSend(e, c), m = StreamMsg(c, SourceMsg(src[e][c]))
        PROVE  /\ m.id = c /\ m.act \in {"Data", "SourceClosed"}
               /\ src[e][c].pc = IF m.act = "Data" THEN "send" ELSE "close"
    <2>1. SourceSending(src[e][c]) /\ src[e][c].pc # "none"
      BY <1>6 DEF SourceSend, SourceSending
    <2>2. src[e][c] \in SourceState
      BY <1>0, <2>1, TaskStates
    <2>3. /\ m.id = c
          /\ m.act = IF src[e][c].pc = "send" THEN "Data" ELSE "SourceClosed"
      BY <1>6, <2>1, <2>2, TaskMsgs
    <2> QED
      BY <2>1, <2>3 DEF SourceSending
  <1>7. ASSUME NEW c \in Conns, SinkSend(e, c), m = StreamMsg(c, SinkMsg(snk[e][c]))
        PROVE  /\ m.id = c /\ m.act \in {"Ack", "SinkClosed"}
               /\ snk[e][c].pc = IF m.act = "Ack" THEN "ack" ELSE "notify"
    <2>1. SinkSending(snk[e][c])
      BY <1>7 DEF SinkSend
    <2>2. /\ m.id = c
          /\ m.act = IF snk[e][c].pc = "ack" THEN "Ack" ELSE "SinkClosed"
      BY <1>7, TaskMsgs
    <2> QED
      BY <2>1, <2>2 DEF SinkSending
  <1>8. CASE \E c \in Conns :
               e = "server" /\ DialReply(c) /\ m = ConnectResponse(c, dial[c] = "ok")
    BY <1>5, <1>8
  <1>9. CASE \E c \in Conns : SourceSend(e, c) /\ m = StreamMsg(c, SourceMsg(src[e][c]))
    <2>1. PICK c \in Conns : SourceSend(e, c) /\ m = StreamMsg(c, SourceMsg(src[e][c]))
      BY <1>9
    <2>2. /\ m.id = c /\ m.act \in {"Data", "SourceClosed"}
          /\ src[e][c].pc = IF m.act = "Data" THEN "send" ELSE "close"
      BY <1>6, <2>1
    <2> QED
      BY <2>1, <2>2
  <1>10. CASE \E c \in Conns : SinkSend(e, c) /\ m = StreamMsg(c, SinkMsg(snk[e][c]))
    <2>1. PICK c \in Conns : SinkSend(e, c) /\ m = StreamMsg(c, SinkMsg(snk[e][c]))
      BY <1>10
    <2>2. /\ m.id = c /\ m.act \in {"Ack", "SinkClosed"}
          /\ snk[e][c].pc = IF m.act = "Ack" THEN "ack" ELSE "notify"
      BY <1>7, <2>1
    <2> QED
      BY <2>1, <2>2
  <1> QED
    BY <1>1, <1>2, <1>3, <1>4, <1>8, <1>9, <1>10 DEF Adds

\* The two tasks of a connection are there or not, as before, but for their start.
LEMMA StartedStays ==
    ASSUME Types, [Next]_vars, NEW sd \in Sides, NEW c \in Conns
    PROVE  \/ /\ src'[sd][c] = NoSource <=> src[sd][c] = NoSource
              /\ snk'[sd][c] = NoSink <=> snk[sd][c] = NoSink
           \/ /\ StartsAt(sd, c) /\ src'[sd][c] = SourceNew /\ snk'[sd][c] = SinkNew
  <1>0. TaskTypes /\ Peer(sd) \in Sides /\ Peer(Peer(sd)) = sd
    BY SideFacts DEF Types
  <1>1. StreamTurn(sd, c) /\ StreamTurn(Peer(sd), c) /\ TaskTypes'
    BY <1>0, TaskSteps
  <1>2. SourceTurn(sd, c) => src[sd][c].pc # "none" /\ src'[sd][c].pc # "none"
    <2>1. SourceTurn(sd, c) => src[sd][c].pc # "none"
      BY DEF SourceTurn, SourceSending, SourceListening
    <2>2. SourceTurn(sd, c) => src[sd][c] \in SourceState
      BY <1>0, <2>1, TaskStates
    <2>3. \A t \in SourceState : /\ SourceRead(t).pc # "none" /\ SourceBreak(t).pc # "none"
                                 /\ SourceSent(t).pc # "none" /\ SourceRecvNone(t).pc # "none"
                                 /\ \A a : SourceRecv(t, a).pc # "none"
      BY DEF SourceState, SourceRead, SourceBreak, SourceSent, SourceRecvNone, SourceRecv
    <2> QED
      BY <2>1, <2>2, <2>3 DEF SourceTurn
  <1>3. SinkTurn(sd, c) => snk[sd][c].pc # "none" /\ snk'[sd][c].pc # "none"
    <2>1. SinkTurn(sd, c) => snk[sd][c].pc # "none"
      BY DEF SinkTurn, SinkSending
    <2>2. SinkTurn(sd, c) => snk[sd][c] \in SinkState
      BY <1>0, <2>1, TaskStates
    <2>3. \A t \in SinkState : /\ SinkSent(t).pc # "none" /\ SinkShutdown(t).pc # "none"
                               /\ SinkRecvNone(t).pc # "none"
                               /\ \A a : SinkRecv(t, a).pc # "none" /\ SinkIo(t, a).pc # "none"
      BY DEF SinkState, SinkSent, SinkShutdown, SinkRecvNone, SinkRecv, SinkIo
    <2> QED
      BY <2>1, <2>2, <2>3 DEF SinkTurn
  <1>4. NoSource.pc = "none" /\ NoSink.pc = "none"
    BY DEF NoSource, NoSink
  <1>5. \/ src'[sd][c] = NoSource <=> src[sd][c] = NoSource
        \/ StartsAt(sd, c)
    BY <1>1, <1>2, <1>4 DEF StreamTurn, SameSource, SourceTold
  <1>6. \/ snk'[sd][c] = NoSink <=> snk[sd][c] = NoSink
        \/ StartsAt(sd, c)
    BY <1>0, <1>1, <1>3, <1>4 DEF StreamTurn, SameSink, SinkTold
  <1>7. StartsAt(sd, c) => src'[sd][c] = SourceNew /\ snk'[sd][c] = SinkNew
    <2>1. StartsAt(sd, c) => StartTasks(sd, c)
      BY DEF StartsAt, ListenerResponse, DialReply
    <2> QED
      BY <1>0, <2>1, StartSteps
  <1> QED
    BY <1>5, <1>6, <1>7

-----------------------------------------------------------------------------
(* The request of a connection.                                            *)

Waiting(c) == listener.pc = "response" /\ listener.conn = c
Asked(c) == Has(path["client"], {Connect(c)})
Queued(c) == Has(connRx, {Connect(c)})
Answered(c) == Has(path["server"], Answers(c))
Told(c) == Has(listenRx, Answers(c))
Spoken(c) == src["client"][c] # NoSource

StreamOf(c) == [id : {c}, act : {"Data", "SourceClosed", "Ack", "SinkClosed"}, n : Nat]

\* The request or its answer is in one place at most, as long as the listener waits.
RequestToken(c) ==
    /\ Asked(c) \/ Queued(c) \/ Dialing(c) \/ Answered(c) \/ Told(c) => Waiting(c)
    /\ Asked(c) \/ Queued(c) => dial[c] = "none"
    /\ ~(Asked(c) /\ Queued(c)) /\ ~(Answered(c) /\ Told(c))
    /\ NoneAfter(path["client"], {Connect(c)}, {Connect(c)})
    /\ NoneAfter(connRx, {Connect(c)}, {Connect(c)})
    /\ NoneAfter(path["server"], Answers(c), Answers(c))

\* The answer is the outcome, and the tasks of the connection are started when it is
\* made: at the server at once, at the client when the listener is told.
ToldResult(c, ok) ==
    Has(path["server"], {ConnectResponse(c, ok)}) \/ Has(listenRx, {ConnectResponse(c, ok)})
      => dial[c] = IF ok THEN "open" ELSE "refused"

RequestResult(c) ==
    /\ \A ok \in BOOLEAN : ToldResult(c, ok)
    /\ dial[c] # "none" => c < listener.conn \/ Waiting(c)
    /\ dial[c] = "open" <=> src["server"][c] # NoSource
    /\ dial[c] = "open" => Spoken(c) \/ Waiting(c)
    /\ Spoken(c) => dial[c] = "open" /\ c < listener.conn
    /\ Has(path["client"], StreamOf(c)) => Spoken(c)

\* Both tasks of a connection are there, or none.
Paired == \A sd \in Sides, c \in Conns : src[sd][c] = NoSource <=> snk[sd][c] = NoSink

OneTold == Len(listenRx) <= 1

Requested == OneTold /\ Paired /\ \A c \in Conns : RequestToken(c) /\ RequestResult(c)

\* Both tasks are started together.
LEMMA PairedNext == Types /\ Paired /\ [Next]_vars => Paired'
  <1>1. SourceNew # NoSource /\ SinkNew # NoSink
    BY DEF SourceNew, NoSource, SinkNew, NoSink
  <1>2. ASSUME Types, Paired, [Next]_vars, NEW sd \in Sides, NEW c \in Conns
        PROVE  src'[sd][c] = NoSource <=> snk'[sd][c] = NoSink
    BY <1>1, <1>2, StartedStays DEF Paired
  <1> QED
    BY <1>2 DEF Paired

\* The messages of a request.
LEMMA RequestFacts ==
    ASSUME NEW c \in Conns
    PROVE  /\ \A d \in Conns : Connect(d) = Connect(c) <=> d = c
           /\ Connect(c) # ListenerClosed /\ Connect(c).id = c /\ Connect(c).act = "Connect"
           /\ \A m : m \in Answers(c) <=> \E ok \in BOOLEAN : m = ConnectResponse(c, ok)
           /\ \A d \in Conns, ok \in BOOLEAN :
                ConnectResponse(d, ok) \in Answers(c) => d = c
           /\ \A ok \in BOOLEAN : /\ ConnectResponse(c, ok).id = c
                                  /\ ConnectResponse(c, ok).act =
                                       IF ok THEN "Connected" ELSE "Refused"
           /\ \A m \in Answers(c) : m \in Responses /\ m.id = c
                                    /\ m.act \in {"Connected", "Refused"}
  <1>1. ASSUME NEW d \in Conns
        PROVE  /\ Connect(d).id = d /\ Connect(d).act = "Connect"
               /\ \A ok : ConnectResponse(d, ok).id = d
                          /\ ConnectResponse(d, ok).act = IF ok THEN "Connected" ELSE "Refused"
    BY DEF Connect, ConnectResponse
  <1>2. ListenerClosed.act = "ListenerClosed"
    BY DEF ListenerClosed
  <1>3. \A m : m \in Answers(c) <=> \E ok \in BOOLEAN : m = ConnectResponse(c, ok)
    BY DEF Answers
  <1>4. \A m \in Answers(c) : m \in Responses
    BY DEF Responses
  <1> QED
    BY <1>1, <1>2, <1>3, <1>4

\* A response is the answer to one request.
LEMMA ResponseFacts ==
    ASSUME NEW m \in Responses
    PROVE  /\ m.id \in Conns /\ m \in Answers(m.id)
           /\ m = ConnectResponse(m.id, m.act = "Connected")
  <1>1. PICK c \in Conns : m \in Answers(c)
    BY DEF Responses
  <1>2. PICK ok \in BOOLEAN : m = ConnectResponse(c, ok)
    BY <1>1 DEF Answers
  <1>3. m.id = c /\ m.act = IF ok THEN "Connected" ELSE "Refused"
    BY <1>2 DEF ConnectResponse
  <1> QED
    BY <1>1, <1>2, <1>3

\* Who puts a request, or its answer, on the way, and who speaks of a connection.
LEMMA RequestWay ==
    ASSUME Types, [Next]_vars, NEW c \in Conns
    PROVE  /\ \/ /\ Asked(c)' => Asked(c)
                 /\ NoneAfter(path["client"], {Connect(c)}, {Connect(c)}) =>
                      NoneAfter(path["client"], {Connect(c)}, {Connect(c)})'
              \/ /\ ListenerRequest /\ listener.conn = c
                 /\ NoneAfter(path["client"], {Connect(c)}, {Connect(c)}) =>
                      NoneAfter(path["client"], {Connect(c)}, {Connect(c)})' \/ Asked(c)
           /\ \/ /\ Answered(c)' => Answered(c)
                 /\ \A ok \in BOOLEAN : Has(path["server"], {ConnectResponse(c, ok)})' =>
                                        Has(path["server"], {ConnectResponse(c, ok)})
                 /\ NoneAfter(path["server"], Answers(c), Answers(c)) =>
                      NoneAfter(path["server"], Answers(c), Answers(c))'
              \/ /\ DialReply(c)
                 /\ \A ok \in BOOLEAN : Has(path["server"], {ConnectResponse(c, ok)})' =>
                      Has(path["server"], {ConnectResponse(c, ok)}) \/ ok = (dial[c] = "ok")
                 /\ NoneAfter(path["server"], Answers(c), Answers(c)) =>
                      NoneAfter(path["server"], Answers(c), Answers(c))' \/ Answered(c)
           /\ Has(path["client"], StreamOf(c))' =>
                \/ Has(path["client"], StreamOf(c))
                \/ SourceSend("client", c) \/ SinkSend("client", c)
  <1>0. "client" \in Sides /\ "server" \in Sides
    BY SideFacts
  <1> DEFINE K == {Connect(c)}
             A == Answers(c)
             R(ok) == {ConnectResponse(c, ok)}
             Z == StreamOf(c)
  <1>1. \A m \in K : Adds("client", m) => ListenerRequest /\ listener.conn = c
    <2> SUFFICES ASSUME Adds("client", Connect(c)) PROVE ListenerRequest /\ listener.conn = c
      OBVIOUS
    <2>1. ListenerRequest /\ Connect(c) = Connect(listener.conn)
      BY <1>0, AddsFacts, RequestFacts
    <2>2. listener.conn \in Conns
      BY <2>1 DEF ListenerRequest, Types, PortTypes
    <2> QED
      BY <2>1, <2>2, RequestFacts
  <1>2. \A m \in A : Adds("server", m) => DialReply(c) /\ m = ConnectResponse(c, dial[c] = "ok")
    <2> SUFFICES ASSUME NEW m \in A, Adds("server", m)
                 PROVE  DialReply(c) /\ m = ConnectResponse(c, dial[c] = "ok")
      OBVIOUS
    <2>1. m.act \in {"Connected", "Refused"} /\ m.id = c
      BY RequestFacts
    <2>2. PICK d \in Conns : DialReply(d) /\ m = ConnectResponse(d, dial[d] = "ok")
      BY <1>0, <2>1, AddsFacts
    <2>3. m.id = d
      BY <2>2, RequestFacts
    <2> QED
      BY <2>1, <2>2, <2>3
  <1>3. \A m \in Z : Adds("client", m) => SourceSend("client", c) \/ SinkSend("client", c)
    <2> SUFFICES ASSUME NEW m \in Z, Adds("client", m)
                 PROVE  SourceSend("client", c) \/ SinkSend("client", c)
      OBVIOUS
    <2>1. m.id = c /\ m.act \in {"Data", "SourceClosed", "Ack", "SinkClosed"}
      BY DEF StreamOf
    <2> QED
      BY <1>0, <2>1, AddsFacts
  <1>4. \A ok \in BOOLEAN : R(ok) \subseteq A
    BY DEF Answers
  <1>5. \A ok \in BOOLEAN : ConnectResponse(c, ok) = ConnectResponse(c, dial[c] = "ok") =>
                            ok = (dial[c] = "ok")
    <2> SUFFICES ASSUME NEW ok \in BOOLEAN,
                        ConnectResponse(c, ok) = ConnectResponse(c, dial[c] = "ok")
                 PROVE  ok <=> dial[c] = "ok"
      OBVIOUS
    <2>1. /\ ConnectResponse(c, ok).act = IF ok THEN "Connected" ELSE "Refused"
          /\ ConnectResponse(c, dial[c] = "ok").act = IF dial[c] = "ok" THEN "Connected" ELSE "Refused"
      BY DEF ConnectResponse
    <2> QED
      BY <2>1
  <1> HIDE DEF K, A, Z
  <1>6. /\ Has(path'["client"], K) => Has(path["client"], K) \/ (ListenerRequest /\ listener.conn = c)
        /\ NoneAfter(path["client"], K, K) =>
             \/ NoneAfter(path'["client"], K, K)
             \/ Has(path["client"], K) /\ ListenerRequest /\ listener.conn = c
    BY <1>0, <1>1, WayChanges
  <1>7. /\ Has(path'["server"], A) => Has(path["server"], A) \/ DialReply(c)
        /\ NoneAfter(path["server"], A, A) =>
             \/ NoneAfter(path'["server"], A, A)
             \/ Has(path["server"], A) /\ DialReply(c)
    BY <1>0, <1>2, WayChanges
  <1>8. ASSUME NEW ok \in BOOLEAN
        PROVE  Has(path'["server"], R(ok)) =>
                 Has(path["server"], R(ok)) \/ (DialReply(c) /\ ok = (dial[c] = "ok"))
    <2> DEFINE B == R(ok)
    <2>1. \A m \in B : m \in A /\ m = ConnectResponse(c, ok)
      BY <1>4
    <2>2. \A m \in B : Adds("server", m) => DialReply(c) /\ ok = (dial[c] = "ok")
      BY <1>2, <1>5, <2>1
    <2> HIDE DEF B
    <2>3. Has(path'["server"], B) => Has(path["server"], B) \/ (DialReply(c) /\ ok = (dial[c] = "ok"))
      BY <1>0, <2>2, WayChanges
    <2> QED
      BY <2>3 DEF B
  <1>9. Has(path'["client"], Z) =>
          Has(path["client"], Z) \/ SourceSend("client", c) \/ SinkSend("client", c)
    BY <1>0, <1>3, WayChanges
  <1> QED
    BY <1>6, <1>7, <1>8, <1>9 DEF Asked, Answered, K, A, Z

\* Who starts the tasks of a connection.
LEMMA Starts ==
    ASSUME Types, [Next]_vars, NEW c \in Conns
    PROVE  /\ src'["client"][c] # NoSource <=> Spoken(c) \/ StartsAt("client", c)
           /\ src'["server"][c] # NoSource <=> src["server"][c] # NoSource \/ StartsAt("server", c)
  <1>1. TaskTypes /\ "client" \in Sides /\ "server" \in Sides /\ SourceNew # NoSource
    BY SideFacts DEF Types, SourceNew, NoSource
  <1>2. ASSUME NEW sd \in Sides, StartsAt(sd, c)
        PROVE  src'[sd][c] = SourceNew
    <2>1. StartTasks(sd, c)
      BY <1>2 DEF StartsAt, ListenerResponse, DialReply
    <2> QED
      BY <1>1, <1>2, <2>1, StartSteps
  <1>3. ASSUME NEW sd \in Sides
        PROVE  src'[sd][c] # NoSource <=> src[sd][c] # NoSource \/ StartsAt(sd, c)
    BY <1>1, <1>2, StartedStays
  <1> QED
    BY <1>1, <1>3 DEF Spoken

\* A task that sends is there.
LEMMA SpeakersAreThere ==
    ASSUME Types, Paired, NEW sd \in Sides, NEW c \in Conns,
           SourceSend(sd, c) \/ SinkSend(sd, c)
    PROVE  src[sd][c] # NoSource
  <1>1. NoSource.pc = "none" /\ NoSink.pc = "none"
    BY DEF NoSource, NoSink
  <1>2. SourceSend(sd, c) => src[sd][c].pc \in {"send", "close"}
    BY DEF SourceSend, SourceSending
  <1>3. SinkSend(sd, c) => snk[sd][c].pc \in {"ack", "notify"}
    BY DEF SinkSend, SinkSending
  <1> QED
    BY <1>1, <1>2, <1>3 DEF Paired

\* What the listener has been told is the answer it waits for.
LEMMA ToldFacts ==
    ASSUME Types, Requested, listenRx # <<>>
    PROVE  /\ Head(listenRx) \in Responses
           /\ Head(listenRx) \in Answers(listener.conn)
           /\ Waiting(listener.conn) /\ Told(listener.conn)
           /\ Tail(listenRx) = <<>>
           /\ \A C : Has(listenRx, C) <=> Head(listenRx) \in C
  <1>1. listenRx \in Seq(Responses) /\ Len(listenRx) <= 1
    BY DEF Types, PortTypes, Requested, OneTold
  <1>2. /\ Head(listenRx) \in Responses /\ Tail(listenRx) = <<>>
        /\ \A C : Has(listenRx, C) <=> Head(listenRx) \in C
    BY <1>1, OneInChannel DEF ChanCap
  <1> DEFINE m == Head(listenRx)
  <1>3. m.id \in Conns /\ m \in Answers(m.id)
    BY <1>2, ResponseFacts
  <1>4. Told(m.id)
    BY <1>2, <1>3 DEF Told
  <1>5. Waiting(m.id)
    BY <1>3, <1>4 DEF Requested, RequestToken
  <1> QED
    BY <1>2, <1>3, <1>4, <1>5 DEF Waiting

\* The token of each request, and its result, are preserved.
LEMMA RequestNext == Types /\ Requested /\ [Next]_vars => Requested'
  <1> SUFFICES ASSUME Types, Requested, [Next]_vars PROVE Requested'
    OBVIOUS
  <1>0. PortTypes /\ PortTypes' /\ PortTurn /\ WayTypes /\ Paired /\ OneTold
    BY PortSteps DEF Types, Requested
  <1>1. listener.conn \in 1..MaxConns + 1 /\ listener.conn \in Nat
    BY <1>0, PortForwardAssumption DEF PortTypes
  <1>2. "client" \in Sides /\ "server" \in Sides /\ Peer("client") = "server"
        /\ Peer("server") = "client"
    BY DEF Sides, Peer
  <1>3. Paired'
    BY <1>0, PairedNext
  <1> DEFINE T(c) == RequestToken(c)' /\ RequestResult(c)'
             Goal == OneTold' /\ \A c \in Conns : T(c)
  <1> SUFFICES Goal
    BY <1>3 DEF Requested
  <1>w. ASSUME NEW c \in Conns
        PROVE  /\ RequestToken(c) /\ RequestResult(c)
               /\ \/ /\ Asked(c)' => Asked(c)
                     /\ NoneAfter(path["client"], {Connect(c)}, {Connect(c)})'
                  \/ ListenerRequest /\ listener.conn = c
               /\ \/ /\ Answered(c)' => Answered(c)
                     /\ \A ok \in BOOLEAN : Has(path["server"], {ConnectResponse(c, ok)})' =>
                                            Has(path["server"], {ConnectResponse(c, ok)})
                     /\ NoneAfter(path["server"], Answers(c), Answers(c))'
                  \/ DialReply(c)
               /\ Spoken(c)' <=> Spoken(c) \/ StartsAt("client", c)
               /\ src'["server"][c] # NoSource <=>
                    src["server"][c] # NoSource \/ StartsAt("server", c)
               /\ Has(path["client"], StreamOf(c))' => Spoken(c)
    <2>1. RequestToken(c) /\ RequestResult(c)
      BY DEF Requested
    <2>2. SourceSend("client", c) \/ SinkSend("client", c) => Spoken(c)
      BY <1>0, <1>2, SpeakersAreThere DEF Spoken
    <2>3. Has(path["client"], StreamOf(c)) => Spoken(c)
      BY <2>1 DEF RequestResult
    <2>4. Has(path["client"], StreamOf(c))' => Spoken(c)
      BY <2>2, <2>3, RequestWay
    <2>5. /\ Spoken(c)' <=> Spoken(c) \/ StartsAt("client", c)
          /\ src'["server"][c] # NoSource <=>
               src["server"][c] # NoSource \/ StartsAt("server", c)
      BY Starts DEF Spoken
    <2>6. /\ NoneAfter(path["client"], {Connect(c)}, {Connect(c)})
          /\ NoneAfter(path["server"], Answers(c), Answers(c))
      BY <2>1 DEF RequestToken
    <2> QED
      BY <2>1, <2>4, <2>5, <2>6, RequestWay
  <1> HIDE DEF Goal
  <1>4. CASE UNCHANGED portVars
    <2>1. ~ListenerRequest /\ \A c \in Conns : ~DialReply(c) /\ ~StartsAt("client", c)
      BY <1>0, <1>4 DEF portVars, ListenerRequest, DialReply, Dialing, StartsAt,
           ListenerResponse, PortTypes
    <2>2. \A c \in Conns : ~StartsAt("server", c)
      BY <2>1 DEF StartsAt
    <2>3. ASSUME NEW c \in Conns PROVE T(c)
      <3>1. RequestToken(c)'
        BY <1>w, <1>4, <2>1, <2>2
           DEF portVars, RequestToken, Asked, Queued, Answered, Told, Waiting, Dialing
      <3>2. ASSUME NEW ok \in BOOLEAN PROVE ToldResult(c, ok)'
        BY <1>w, <1>4, <2>1, <2>2 DEF portVars, RequestResult, ToldResult
      <3>3. RequestResult(c)'
        BY <1>w, <1>4, <2>1, <2>2, <3>2 DEF portVars, RequestResult, Waiting, Spoken
      <3> QED
        BY <3>1, <3>3
    <2> QED
      BY <1>0, <1>4, <2>3 DEF Goal, OneTold, portVars
  <1>5. CASE ListenerAccept \/ ListenerAcceptFails \/ ListenerEnd \/ ListenerClose
    <2>1. /\ UNCHANGED <<listenRx, connecter, connRx, dial>>
          /\ listener.pc \in {"accept", "close"} /\ listener'.pc \in {"accept", "request", "close", "done"}
          /\ listener'.conn \in {listener.conn, listener.conn + 1}
      BY <1>0, <1>5 DEF ListenerAccept, ListenerAcceptFails, ListenerEnd, ListenerClose, PortTypes
    <2>2. ~ListenerRequest /\ \A c \in Conns : ~DialReply(c) /\ ~StartsAt("client", c)
      BY <1>0, <2>1 DEF ListenerRequest, DialReply, Dialing, StartsAt, ListenerResponse, PortTypes
    <2>3. ASSUME NEW c \in Conns PROVE T(c)
      <3>1. ~Waiting(c) /\ ~StartsAt("server", c)
        BY <2>1, <2>2 DEF Waiting, StartsAt
      <3>2. c < listener.conn => c < listener'.conn
        BY <1>1, <2>1 DEF Conns
      <3>3. ~Asked(c) /\ ~Queued(c) /\ ~Dialing(c) /\ ~Answered(c) /\ ~Told(c)
        BY <1>w, <3>1 DEF RequestToken
      <3>4. RequestToken(c)'
        BY <1>w, <2>1, <2>2, <3>1, <3>3
           DEF RequestToken, Asked, Queued, Answered, Told, Waiting, Dialing
      <3>5. ASSUME NEW ok \in BOOLEAN PROVE ToldResult(c, ok)'
        BY <1>w, <2>1, <2>2 DEF RequestResult, ToldResult
      <3>6. RequestResult(c)'
        BY <1>w, <2>1, <2>2, <3>1, <3>2, <3>5 DEF RequestResult, Waiting, Spoken
      <3> QED
        BY <3>4, <3>6
    <2> QED
      BY <1>0, <2>1, <2>3 DEF Goal, OneTold
  <1>6. CASE ListenerRequest
    <2>1. /\ UNCHANGED <<listenRx, connecter, connRx, dial>> /\ listener.pc = "request"
          /\ listener'.pc = "response" /\ listener'.conn = listener.conn
      BY <1>0, <1>6 DEF ListenerRequest, PortTypes
    <2>2. \A c \in Conns : ~DialReply(c) /\ ~StartsAt("client", c)
      BY <1>0, <2>1 DEF DialReply, Dialing, StartsAt, ListenerResponse, PortTypes
    <2>3. ASSUME NEW c \in Conns PROVE T(c)
      <3>1. ~Waiting(c) /\ ~StartsAt("server", c)
        BY <2>1, <2>2 DEF Waiting, StartsAt
      <3>2. ~(c < c)
        BY DEF Conns
      <3>3. ~Asked(c) /\ ~Queued(c) /\ ~Dialing(c) /\ ~Answered(c) /\ ~Told(c)
        BY <1>w, <3>1 DEF RequestToken
      <3>4. c = listener.conn => dial[c] = "none"
        BY <1>w, <3>1, <3>2 DEF RequestResult
      <3>5. NoneAfter(path["client"], {Connect(c)}, {Connect(c)})'
        BY <1>w, <3>3, RequestWay DEF RequestToken
      <3>6. RequestToken(c)'
        BY <1>w, <2>1, <2>2, <3>3, <3>4, <3>5
           DEF RequestToken, Asked, Queued, Answered, Told, Waiting, Dialing
      <3>7. ASSUME NEW ok \in BOOLEAN PROVE ToldResult(c, ok)'
        BY <1>w, <2>1, <2>2 DEF RequestResult, ToldResult
      <3>8. RequestResult(c)'
        BY <1>w, <2>1, <2>2, <3>1, <3>7 DEF RequestResult, Waiting, Spoken
      <3> QED
        BY <3>6, <3>8
    <2> QED
      BY <1>0, <2>1, <2>3 DEF Goal, OneTold
  <1>7. CASE ListenerResponse
    <2> DEFINE d == listener.conn
               m == Head(listenRx)
    <2>1. /\ UNCHANGED <<connecter, connRx, dial>> /\ listener.pc = "response"
          /\ listenRx # <<>> /\ listenRx' = Tail(listenRx)
          /\ listener'.pc = "accept" /\ listener'.conn = listener.conn + 1
          /\ d \in Conns
      BY <1>0, <1>7 DEF ListenerResponse, PortTypes
    <2>2. m \in Answers(d) /\ Told(d) /\ listenRx' = <<>>
      BY <2>1, ToldFacts
    <2>3. PICK ok \in BOOLEAN : m = ConnectResponse(d, ok)
      BY <2>1, <2>2, RequestFacts
    <2>4. /\ m.act = IF ok THEN "Connected" ELSE "Refused"
          /\ Has(listenRx, {ConnectResponse(d, ok)})
      <3>1. m.act = IF ok THEN "Connected" ELSE "Refused"
        BY <2>3 DEF ConnectResponse
      <3>2. m \in {ConnectResponse(d, ok)} => Has(listenRx, {ConnectResponse(d, ok)})
        BY <2>1, ToldFacts
      <3> QED
        BY <2>3, <3>1, <3>2
    <2>5. dial[d] = IF ok THEN "open" ELSE "refused"
      BY <1>w, <2>1, <2>4 DEF RequestResult, ToldResult
    <2>6. \A c \in Conns : StartsAt("client", c) <=> c = d /\ ok
      BY <1>7, <2>4 DEF StartsAt
    <2> HIDE DEF m
    <2>7. /\ ~ListenerRequest /\ \A c \in Conns : ~DialReply(c)
          /\ \A C : ~Has(listenRx', C)
      BY <1>0, <2>1, <2>2, EmptyOrder DEF ListenerRequest, DialReply, Dialing, PortTypes
    <2>8. ASSUME NEW c \in Conns PROVE T(c)
      <3>1. ~StartsAt("server", c)
        BY <2>7 DEF StartsAt
      <3>2. ~Asked(c) /\ ~Queued(c) /\ ~Dialing(c) /\ ~Answered(c)
        <4>1. CASE c = d
          BY <1>w, <2>2, <2>5, <4>1 DEF RequestToken, Dialing
        <4>2. CASE c # d
          <5>1. ~Waiting(c)
            BY <4>2 DEF Waiting
          <5> QED
            BY <1>w, <5>1 DEF RequestToken
        <4> QED
          BY <4>1, <4>2
      <3>3. RequestToken(c)'
        BY <1>w, <2>1, <2>7, <3>2 DEF RequestToken, Asked, Queued, Answered, Told, Dialing
      <3>4. ASSUME NEW b \in BOOLEAN PROVE ToldResult(c, b)'
        BY <1>w, <2>1, <2>7 DEF RequestResult, ToldResult
      <3>5. c < listener.conn => c < listener'.conn
        BY <1>1, <2>1 DEF Conns
      <3>6. c = d => c < listener'.conn
        BY <1>1, <2>1
      <3>7. c # d => ~Waiting(c)
        BY DEF Waiting
      <3>8. dial[c] # "none" => c < listener'.conn
        BY <1>w, <3>5, <3>6, <3>7 DEF RequestResult
      <3>9. c = d => (dial[c] = "open" <=> ok)
        BY <2>5
      <3>10. Spoken(c)' <=> Spoken(c) \/ (c = d /\ ok)
        BY <1>w, <2>6
      <3>11. /\ dial[c] = "open" => Spoken(c)'
             /\ Spoken(c)' => dial[c] = "open"
        BY <1>w, <3>7, <3>9, <3>10 DEF RequestResult
      <3>12. dial[c] = "open" <=> src'["server"][c] # NoSource
        BY <1>w, <3>1 DEF RequestResult
      <3>13. Has(path["client"], StreamOf(c))' => Spoken(c)'
        BY <1>w
      <3>14. RequestResult(c)'
        BY <2>1, <3>4, <3>8, <3>11, <3>12, <3>13 DEF RequestResult
      <3> QED
        BY <3>3, <3>14
    <2>9. OneTold'
      BY <2>2 DEF OneTold
    <2> QED
      BY <2>8, <2>9 DEF Goal
  <1>8. CASE ConnecterRecv \/ ConnecterNone
    <2>1. UNCHANGED <<listener, listenRx>>
      BY <1>8 DEF ConnecterRecv, ConnecterNone
    <2>2. ~ListenerRequest /\ \A c \in Conns : ~StartsAt("client", c)
      BY <1>0, <2>1 DEF ListenerRequest, StartsAt, ListenerResponse, PortTypes
    <2>3. \A c \in Conns : ~DialReply(c)
      <3>1. connRx' # connRx \/ connecter' # connecter
        BY <1>0, <1>8, TailFacts DEF ConnecterRecv, ConnecterNone, PortTypes
      <3> QED
        BY <3>1 DEF DialReply
    <2>4. ASSUME NEW c \in Conns
          PROVE  \/ /\ dial'[c] = dial[c]
                    /\ Queued(c)' => Queued(c)
                    /\ NoneAfter(connRx', {Connect(c)}, {Connect(c)})
                 \/ /\ dial'[c] = "connect" /\ Queued(c) /\ ~Queued(c)'
                    /\ NoneAfter(connRx', {Connect(c)}, {Connect(c)})
      <3> DEFINE C == {Connect(c)}
                 m == Head(connRx)
      <3>1. NoneAfter(connRx, C, C)
        BY <1>w DEF RequestToken
      <3>2. CASE ConnecterNone
        BY <3>1, <3>2 DEF ConnecterNone, Queued
      <3>3. CASE ConnecterRecv
        <4>1. connRx \in Seq(Requests) /\ connRx # <<>> /\ connRx' = Tail(connRx)
          BY <1>0, <3>3 DEF ConnecterRecv, PortTypes
        <4>2. m \in Requests /\ Taken(connRx, m, connRx') /\ connRx' \in Seq(Requests)
          BY <4>1, TailFacts, HeadFirst
        <4>3. /\ Has(connRx, C) <=> m \in C \/ Has(connRx', C)
              /\ NoneAfter(connRx, C, C) <=> NoneAfter(connRx', C, C) /\ (m \in C => ~Has(connRx', C))
          <5> DEFINE r == connRx'
          <5> HIDE DEF m, C, r
          <5>1. r \in Seq(Requests) /\ m \in Requests /\ Taken(connRx, m, r)
            BY <4>2 DEF r
          <5>2. /\ Has(connRx, C) <=> m \in C \/ Has(r, C)
                /\ NoneAfter(connRx, C, C) <=> NoneAfter(r, C, C) /\ (m \in C => ~Has(r, C))
            BY <5>1, TakenOrder
          <5> QED
            BY <5>2 DEF r
        <4>4. m.act = "Connect" => \E x \in Conns : m = Connect(x)
          BY <4>2 DEF Requests, ListenerClosed
        <4>5. \A x \in Conns : Connect(x).id = x
          BY DEF Connect
        <4>6. \/ m.act = "Connect" /\ dial' = [dial EXCEPT ![m.id] = "connect"]
              \/ m.act = "ListenerClosed" /\ dial' = dial
          BY <3>3 DEF ConnecterRecv
        <4>7. Connect(c).act = "Connect" /\ Connect(c).id = c /\ "Connect" # "ListenerClosed"
          BY DEF Connect
        <4>8. m \in C <=> m = Connect(c)
          OBVIOUS
        <4>9. dial \in [Conns -> {"none", "connect", "ok", "err", "open", "refused"}]
          BY <1>0 DEF PortTypes
        <4>10. CASE m = Connect(c)
          <5>1. dial'[c] = "connect"
            BY <4>6, <4>7, <4>9, <4>10
          <5> QED
            BY <3>1, <4>3, <4>10, <5>1 DEF Queued
        <4>11. CASE m # Connect(c)
          <5>1. dial'[c] = dial[c]
            BY <4>4, <4>5, <4>6, <4>9, <4>11
          <5> QED
            BY <3>1, <4>3, <4>11, <5>1 DEF Queued
        <4> QED
          BY <4>10, <4>11
      <3> QED
        BY <1>8, <3>2, <3>3
    <2>5. ASSUME NEW c \in Conns PROVE T(c)
      <3>1. ~StartsAt("server", c)
        BY <2>3 DEF StartsAt
      <3>2. CASE /\ dial'[c] = dial[c]
                 /\ Queued(c)' => Queued(c)
                 /\ NoneAfter(connRx', {Connect(c)}, {Connect(c)})
        <4>1. RequestToken(c)'
          BY <1>w, <2>1, <2>2, <2>3, <3>2
             DEF RequestToken, Asked, Answered, Told, Waiting, Dialing
        <4>2. ASSUME NEW ok \in BOOLEAN PROVE ToldResult(c, ok)'
          BY <1>w, <2>1, <2>3, <3>2 DEF RequestResult, ToldResult
        <4>3. RequestResult(c)'
          BY <1>w, <2>1, <2>2, <3>1, <3>2, <4>2 DEF RequestResult, Waiting, Spoken
        <4> QED
          BY <4>1, <4>3
      <3>3. CASE /\ dial'[c] = "connect" /\ Queued(c) /\ ~Queued(c)'
                 /\ NoneAfter(connRx', {Connect(c)}, {Connect(c)})
        <4>1. Waiting(c) /\ dial[c] = "none" /\ ~Asked(c)
          BY <1>w, <3>3 DEF RequestToken
        <4>2. \A ok \in BOOLEAN : ToldResult(c, ok)
          BY <1>w DEF RequestResult
        <4>3. /\ \A ok \in BOOLEAN : /\ ~Has(path["server"], {ConnectResponse(c, ok)})
                                     /\ ~Has(listenRx, {ConnectResponse(c, ok)})
              /\ ~Spoken(c) /\ ~(src["server"][c] # NoSource)
          BY <1>w, <4>1, <4>2 DEF RequestResult, ToldResult
        <4>4. ~(Answered(c) /\ Told(c))
          BY <1>w DEF RequestToken
        <4>5. RequestToken(c)'
          BY <1>w, <2>1, <2>2, <2>3, <3>3, <4>1, <4>4
             DEF RequestToken, Asked, Answered, Told, Waiting, Dialing
        <4>6. ASSUME NEW ok \in BOOLEAN PROVE ToldResult(c, ok)'
          BY <1>w, <2>1, <2>3, <4>3 DEF RequestResult, ToldResult
        <4>7. RequestResult(c)'
          BY <1>w, <2>1, <2>2, <3>1, <3>3, <4>1, <4>3, <4>6 DEF RequestResult, Waiting, Spoken
        <4> QED
          BY <4>5, <4>7
      <3> QED
        BY <2>4, <3>2, <3>3
    <2> QED
      BY <1>0, <2>1, <2>5 DEF Goal, OneTold
  <1>9. ASSUME NEW d \in Conns, Dialed(d) PROVE Goal
    <2>1. /\ UNCHANGED <<listener, listenRx, connecter, connRx, path, src>> /\ dial[d] = "connect"
          /\ \E res \in {"ok", "err"} : dial' = [dial EXCEPT ![d] = res]
      BY <1>9 DEF Dialed, taskVars
    <2>2. ~ListenerRequest /\ \A c \in Conns : ~StartsAt("client", c)
      BY <1>0, <2>1 DEF ListenerRequest, StartsAt, ListenerResponse, PortTypes
    <2>3. ASSUME NEW c \in Conns PROVE T(c)
      <3>1. \/ dial'[c] = dial[c]
            \/ dial[c] = "connect" /\ dial'[c] \in {"ok", "err"}
        BY <1>0, <2>1 DEF PortTypes
      <3>2. /\ NoneAfter(path["client"], {Connect(c)}, {Connect(c)})'
            /\ NoneAfter(connRx, {Connect(c)}, {Connect(c)})'
            /\ NoneAfter(path["server"], Answers(c), Answers(c))'
        BY <1>w, <2>1 DEF RequestToken
      <3>3. RequestToken(c)'
        BY <1>w, <2>1, <3>1, <3>2
           DEF RequestToken, Asked, Queued, Answered, Told, Waiting, Dialing
      <3>4. ASSUME NEW ok \in BOOLEAN PROVE ToldResult(c, ok)'
        BY <1>w, <2>1, <3>1 DEF RequestResult, ToldResult
      <3>5. RequestResult(c)'
        BY <1>w, <2>1, <3>1, <3>4 DEF RequestResult, Waiting, Spoken
      <3> QED
        BY <3>3, <3>5
    <2> QED
      BY <1>0, <2>1, <2>3 DEF Goal, OneTold
  <1>10. ASSUME NEW d \in Conns, DialReply(d) PROVE Goal
    <2>1. /\ UNCHANGED <<listener, listenRx, connecter, connRx>> /\ dial[d] \in {"ok", "err"}
          /\ dial' = [dial EXCEPT ![d] = IF dial[d] = "ok" THEN "open" ELSE "refused"]
      BY <1>10 DEF DialReply, Dialing
    <2>2. ~ListenerRequest /\ \A c \in Conns : ~StartsAt("client", c)
      BY <1>0, <2>1 DEF ListenerRequest, StartsAt, ListenerResponse, PortTypes
    <2>3. ASSUME NEW c \in Conns, c # d PROVE T(c)
      <3>1. dial'[c] = dial[c] /\ dial'[d] # dial[d]
        BY <1>0, <2>1, <2>3 DEF PortTypes
      <3>2. ~DialReply(c)
        <4>1. DialReply(c) => dial'[d] = dial[d]
          BY <1>0, <2>3 DEF DialReply, PortTypes
        <4> QED
          BY <3>1, <4>1
      <3>3. ~StartsAt("server", c)
        BY <3>2 DEF StartsAt
      <3>4. RequestToken(c)'
        BY <1>w, <2>1, <2>2, <3>1, <3>2
           DEF RequestToken, Asked, Queued, Answered, Told, Waiting, Dialing
      <3>5. ASSUME NEW ok \in BOOLEAN PROVE ToldResult(c, ok)'
        BY <1>w, <2>1, <3>1, <3>2 DEF RequestResult, ToldResult
      <3>6. RequestResult(c)'
        BY <1>w, <2>1, <2>2, <3>1, <3>3, <3>5 DEF RequestResult, Waiting, Spoken
      <3> QED
        BY <3>4, <3>6
    <2>4. T(d)
      <3>1. dial'[d] = IF dial[d] = "ok" THEN "open" ELSE "refused"
        BY <1>0, <2>1 DEF PortTypes
      <3>2. Waiting(d) /\ ~Asked(d) /\ ~Queued(d)
        BY <1>w, <2>1 DEF RequestToken, Dialing
      <3>3. /\ ~Spoken(d) /\ ~(src["server"][d] # NoSource)
            /\ \A ok \in BOOLEAN : /\ ~Has(path["server"], {ConnectResponse(d, ok)})
                                   /\ ~Has(listenRx, {ConnectResponse(d, ok)})
        <4>1. \A ok \in BOOLEAN : ToldResult(d, ok)
          BY <1>w DEF RequestResult
        <4>2. ~Spoken(d) /\ ~(src["server"][d] # NoSource)
          BY <1>w, <2>1 DEF RequestResult
        <4> QED
          BY <2>1, <4>1, <4>2 DEF ToldResult
      <3>4. ~Answered(d) /\ ~Told(d)
        <4>1. \A q, C : Has(q, C) => \E x \in C : Has(q, {x})
          BY DEF Has
        <4>2. ASSUME NEW q, Has(q, Answers(d)) PROVE \E ok \in BOOLEAN : Has(q, {ConnectResponse(d, ok)})
          <5>1. PICK x \in Answers(d) : Has(q, {x})
            BY <4>1, <4>2
          <5>2. PICK ok \in BOOLEAN : x = ConnectResponse(d, ok)
            BY RequestFacts
          <5> QED
            BY <5>1, <5>2
        <4> QED
          BY <3>3, <4>2 DEF Answered, Told
      <3>5. /\ NoneAfter(path["server"], Answers(d), Answers(d))'
            /\ \A ok \in BOOLEAN : Has(path["server"], {ConnectResponse(d, ok)})' => ok = (dial[d] = "ok")
        BY <1>w, <3>3, <3>4, RequestWay DEF RequestToken
      <3>6. StartsAt("server", d) <=> dial[d] = "ok"
        BY <1>10 DEF StartsAt
      <3>7. RequestToken(d)'
        BY <1>w, <2>1, <2>2, <3>1, <3>2, <3>4, <3>5
           DEF RequestToken, Asked, Queued, Told, Waiting, Dialing
      <3>8. ASSUME NEW ok \in BOOLEAN PROVE ToldResult(d, ok)'
        <4>1. ~Has(listenRx, {ConnectResponse(d, ok)})'
          BY <2>1, <3>3
        <4>2. CASE Has(path["server"], {ConnectResponse(d, ok)})'
          <5>1. ok = (dial[d] = "ok")
            BY <3>5, <4>2
          <5>2. dial'[d] = IF ok THEN "open" ELSE "refused"
            BY <3>1, <5>1
          <5> QED
            BY <5>2 DEF ToldResult
        <4> QED
          BY <4>1, <4>2 DEF ToldResult
      <3>9. Waiting(d)' /\ ~Spoken(d)'
        BY <1>w, <2>1, <2>2, <3>2, <3>3 DEF Waiting
      <3>10. dial'[d] = "open" <=> src'["server"][d] # NoSource
        BY <1>w, <3>1, <3>3, <3>6
      <3>11. ~Has(path["client"], StreamOf(d))'
        BY <1>w, <3>3
      <3>12. RequestResult(d)'
        BY <3>8, <3>9, <3>10, <3>11 DEF RequestResult
      <3> QED
        BY <3>7, <3>12
    <2> QED
      BY <1>0, <2>1, <2>3, <2>4 DEF Goal, OneTold
  <1>11. CASE ConnecterTold
    <2> DEFINE m == Head(path["client"])
    <2>1. /\ UNCHANGED <<listener, listenRx, connecter, dial>>
          /\ m \in Requests /\ connRx' = Append(connRx, m) /\ Receive("server")
      BY <1>11 DEF ConnecterTold
    <2>2. /\ FirstOf(m, path["client"], path'["client"])
          /\ Kept(path'["client"], path["client"]) /\ path'["server"] = path["server"]
      BY <1>0, <1>2, <2>1, ReceiveFacts
    <2> HIDE DEF m
    <2>3. ~ListenerRequest /\ \A c \in Conns : ~StartsAt("client", c)
      BY <1>0, <2>1 DEF ListenerRequest, StartsAt, ListenerResponse, PortTypes
    <2>4. \A c \in Conns : ~DialReply(c) /\ ~StartsAt("server", c)
      <3>1. connRx' # connRx
        BY <1>0, <2>1, AppendFacts DEF PortTypes
      <3> QED
        BY <3>1 DEF DialReply, StartsAt
    <2>5. ASSUME NEW c \in Conns PROVE T(c)
      <3> DEFINE C == {Connect(c)}
      <3>1. /\ Queued(c)' <=> Queued(c) \/ m = Connect(c)
            /\ NoneAfter(connRx', C, C) <=> NoneAfter(connRx, C, C) /\ (Queued(c) => m # Connect(c))
        <4> DEFINE r == connRx'
        <4>1. connRx \in Seq(Requests) /\ Appended(r, connRx, m)
          BY <1>0, <2>1 DEF PortTypes, Appended
        <4>2. m \in C <=> m = Connect(c)
          OBVIOUS
        <4> HIDE DEF r, C
        <4>3. /\ Has(r, C) <=> Has(connRx, C) \/ m \in C
              /\ NoneAfter(r, C, C) <=> NoneAfter(connRx, C, C) /\ (Has(connRx, C) => m \notin C)
          BY <2>1, <4>1, AppendOrder
        <4> QED
          BY <4>2, <4>3 DEF Queued, r, C
      <3>2. /\ NoneAfter(path["client"], C, C) /\ NoneAfter(connRx, C, C)
            /\ ~(Asked(c) /\ Queued(c))
        BY <1>w DEF RequestToken
      <3>3. m = Connect(c) => Asked(c) /\ ~Has(path'["client"], C) /\ ~Queued(c)
        <4>1. m = Connect(c) => m \in C
          OBVIOUS
        <4> HIDE DEF C
        <4>2. m \in C => Has(path["client"], C) /\ ~Has(path'["client"], C)
          BY <2>2, <3>2 DEF FirstOf
        <4> QED
          BY <3>2, <4>1, <4>2 DEF Asked, C
      <3>4. NoneAfter(connRx, C, C)' /\ NoneAfter(path["client"], C, C)'
        BY <2>2, <3>1, <3>2, <3>3 DEF Kept
      <3>5. Asked(c)' => Asked(c) /\ m # Connect(c)
        <4>1. Has(path'["client"], C) => Has(path["client"], C)
          BY <2>2 DEF Kept
        <4> QED
          BY <3>3, <4>1 DEF Asked
      <3>6. RequestToken(c)'
        BY <1>w, <2>1, <2>4, <3>1, <3>3, <3>4, <3>5 DEF RequestToken, Answered, Told, Waiting, Dialing
      <3>7. ASSUME NEW ok \in BOOLEAN PROVE ToldResult(c, ok)'
        BY <1>w, <2>1, <2>4 DEF RequestResult, ToldResult
      <3>8. RequestResult(c)'
        BY <1>w, <2>1, <2>3, <2>4, <3>7 DEF RequestResult, Waiting, Spoken
      <3> QED
        BY <3>6, <3>8
    <2> QED
      BY <1>0, <2>1, <2>5 DEF Goal, OneTold
  <1>12. CASE ListenerTold
    <2> DEFINE m == Head(path["server"])
    <2>1. /\ UNCHANGED <<listener, connecter, connRx, dial>>
          /\ m \in Responses /\ listenRx' = Append(listenRx, m) /\ Receive("client")
      BY <1>12 DEF ListenerTold
    <2>2. /\ FirstOf(m, path["server"], path'["server"])
          /\ Kept(path'["server"], path["server"]) /\ path'["client"] = path["client"]
      BY <1>0, <1>2, <2>1, ReceiveFacts
    <2>3. PICK d \in Conns : /\ m.id = d /\ m \in Answers(d)
                            /\ m = ConnectResponse(d, m.act = "Connected")
      BY <2>1, ResponseFacts
    <2>4. /\ Answered(d) /\ ~Has(path'["server"], Answers(d)) /\ Waiting(d) /\ ~Told(d)
          /\ ~Asked(d) /\ ~Queued(d) /\ ~Dialing(d)
      <3>1. RequestToken(d) /\ RequestResult(d)
        BY <1>w, <2>3
      <3>2. Answered(d) /\ ~Has(path'["server"], Answers(d))
        BY <2>2, <2>3, <3>1 DEF FirstOf, Answered, RequestToken
      <3>3. Has(path["server"], {m})
        <4>1. m \in {m}
          OBVIOUS
        <4> HIDE DEF m
        <4> QED
          BY <2>2, <4>1 DEF FirstOf
      <3>4. dial[d] \in {"open", "refused"}
        <4> DEFINE b == m.act = "Connected"
        <4>1. b \in BOOLEAN /\ Has(path["server"], {ConnectResponse(d, b)})
          BY <2>3, <3>3
        <4> HIDE DEF b, m
        <4> QED
          BY <3>1, <4>1 DEF RequestResult, ToldResult
      <3> QED
        BY <3>1, <3>2, <3>4 DEF RequestToken, Dialing
    <2>5. \A c \in Conns : c # d => ~Waiting(c)
      BY <2>4 DEF Waiting
    <2>6. listenRx = <<>>
      <3> SUFFICES ASSUME listenRx # <<>> PROVE FALSE
        OBVIOUS
      <3>1. Told(listener.conn) /\ Waiting(listener.conn)
        BY ToldFacts
      <3>2. listener.conn = d
        BY <2>4 DEF Waiting
      <3> QED
        BY <2>4, <3>1, <3>2
    <2>7. listenRx' = <<m>>
      BY <2>1, <2>6
    <2>8. \A C : Has(listenRx', C) <=> m \in C
      BY <2>7, OneOrder
    <2>9. OneTold'
      BY <2>7 DEF OneTold
    <2> HIDE DEF m
    <2>10. ~ListenerRequest
      BY <1>0, <2>1 DEF ListenerRequest, PortTypes
    <2>11. \A c \in Conns : ~DialReply(c) /\ ~StartsAt("server", c) /\ ~StartsAt("client", c)
      <3>1. listenRx' # listenRx /\ listenRx = <<>>
        BY <2>6, <2>7
      <3> QED
        BY <3>1 DEF DialReply, StartsAt, ListenerResponse
    <2>12. ASSUME NEW c \in Conns, c # d PROVE T(c)
      <3>1. ~Waiting(c) /\ m \notin Answers(c)
        BY <2>3, <2>5, <2>12, RequestFacts
      <3>2. ~Asked(c) /\ ~Queued(c) /\ ~Dialing(c) /\ ~Answered(c) /\ ~Told(c)
        BY <1>w, <3>1 DEF RequestToken
      <3>3. ~Told(c)'
        BY <2>8, <3>1 DEF Told
      <3>4. RequestToken(c)'
        BY <1>w, <2>1, <2>10, <2>11, <3>2, <3>3
           DEF RequestToken, Asked, Queued, Answered, Waiting, Dialing
      <3>5. ASSUME NEW ok \in BOOLEAN PROVE ToldResult(c, ok)'
        <4>1. ConnectResponse(c, ok) \in Answers(c)
          BY RequestFacts
        <4>2. ~Has(listenRx', {ConnectResponse(c, ok)})
          BY <2>8, <3>1, <4>1
        <4> QED
          BY <1>w, <2>1, <2>11, <4>2 DEF RequestResult, ToldResult
      <3>6. RequestResult(c)'
        BY <1>w, <2>1, <2>10, <2>11, <3>5 DEF RequestResult, Waiting, Spoken
      <3> QED
        BY <3>4, <3>6
    <2>13. T(d)
      <3>1. RequestToken(d) /\ RequestResult(d)
        BY <1>w, <2>3
      <3>2. RequestToken(d)'
        BY <1>w, <2>1, <2>3, <2>4, <2>10, <2>11, <3>1
           DEF RequestToken, Asked, Queued, Answered, Waiting, Dialing
      <3>3. ASSUME NEW ok \in BOOLEAN PROVE ToldResult(d, ok)'
        <4>1. m = ConnectResponse(d, ok) => Has(path["server"], {ConnectResponse(d, ok)})
          BY <2>2 DEF FirstOf
        <4> QED
          BY <1>w, <2>1, <2>3, <2>8, <2>11, <3>1, <4>1 DEF RequestResult, ToldResult
      <3>4. RequestResult(d)'
        BY <1>w, <2>1, <2>3, <2>10, <2>11, <3>1, <3>3 DEF RequestResult, Waiting, Spoken
      <3> QED
        BY <3>2, <3>4
    <2> QED
      BY <2>3, <2>9, <2>12, <2>13 DEF Goal
  <1> QED
    BY <1>0, <1>4, <1>5, <1>6, <1>7, <1>8, <1>9, <1>10, <1>11, <1>12 DEF PortTurn

-----------------------------------------------------------------------------
(* The end of a side.                                                      *)

\* The connection is down when a side has noticed, or has gone.
Down ==
    /\ \A sd \in Sides : receiver[sd].pc \in {"shutdown", "closed"} => link = "down"
    /\ client = "over" => link = "down"

\* Finished is the last message of a side, after all its tasks have ended.
FinishOf(sd) ==
    /\ sender[sd] = "done" => TxDropped(sd)
    /\ NoneAfter(path[sd], {Finished}, Msgs(sd))
    /\ Has(path[sd], {Finished}) => sender[sd] = "done"
    /\ receiver[Peer(sd)].pc = "finished" => sender[sd] = "done" /\ ~Has(path[sd], Msgs(sd))

\* The server's sender is the last of its session, and waits for the client's.
ServerFinish ==
    /\ sender["server"] = "done" => receiver["server"].pc \in {"finished", "closed"}
    /\ serve = "over" => sender["server"] = "done" \/ receiver["server"].pc = "failed"
    /\ Has(path["server"], {Finished}) \/ receiver["client"].pc = "finished" =>
         receiver["server"].pc = "finished"

Finish == Down /\ ServerFinish /\ \A sd \in Sides : FinishOf(sd)

\* A side whose tasks have ended only says that it has finished.
LEMMA DroppedSilent ==
    ASSUME Types, NEW sd \in Sides, TxDropped(sd), NEW m, Adds(sd, m)
    PROVE  m = Finished /\ SenderFinish(sd)
  <1>0. TaskTypes
    BY DEF Types
  <1>1. ~(sd = "client" /\ (ListenerRequest \/ ListenerClose))
    BY DEF TxDropped, ListenerRequest, ListenerClose
  <1>2. ~(sd = "server" /\ ServeExit) /\ \A c \in Conns : ~(sd = "server" /\ DialReply(c))
    BY DEF TxDropped, ServeExit, DialReply
  <1>3. ASSUME NEW c \in Conns PROVE ~SourceSend(sd, c) /\ ~SinkSend(sd, c)
    <2>1. src[sd][c].pc \in {"none", "done", "failed", "panicked"}
          /\ snk[sd][c].pc \in {"none", "done", "failed"}
      BY <1>0, TaskStates DEF TxDropped
    <2> QED
      BY <2>1 DEF SourceSend, SourceSending, SinkSend, SinkSending
  <1> QED
    BY <1>1, <1>2, <1>3 DEF Adds

\* What has ended on a side stays so.
LEMMA DroppedStays ==
    ASSUME Types, [Next]_vars, NEW sd \in Sides, TxDropped(sd)
    PROVE  TxDropped(sd)'
  <1>0. TaskTypes /\ TaskTypes' /\ PortTypes /\ PortTurn /\ EndTurn /\ EndTypes
    BY TaskSteps, PortSteps, EndSteps DEF Types
  <1>1. \A c \in Conns : ~StartsAt(sd, c)
    BY DEF TxDropped, StartsAt, ListenerResponse, DialReply
  <1>2. ASSUME NEW c \in Conns
        PROVE  (SourceOver(src[sd][c]) /\ SinkOver(snk[sd][c]))'
    <2>1. src[sd][c].pc \in {"none", "done", "failed", "panicked"}
          /\ snk[sd][c].pc \in {"none", "done", "failed"}
      BY <1>0, TaskStates DEF TxDropped
    <2>2. StreamTurn(sd, c) /\ StreamTurn(Peer(sd), c) /\ Peer(Peer(sd)) = sd
      BY TaskSteps, SideFacts
    <2>3. ~SourceTurn(sd, c) /\ ~SinkTurn(sd, c)
      BY <2>1 DEF SourceTurn, SourceSending, SourceListening, SinkTurn, SinkSending
    <2>4. src'[sd][c] = src[sd][c]
      BY <1>1, <2>2, <2>3 DEF StreamTurn, SameSource, SourceTold
    <2>5. snk'[sd][c] = snk[sd][c]
      BY <1>1, <2>2, <2>3 DEF StreamTurn, SameSink, SinkTold
    <2> QED
      BY <2>4, <2>5 DEF TxDropped
  <1>3. ASSUME sd = "client" PROVE listener'.pc = "done"
    <2>1. listener.pc = "done"
      BY <1>3 DEF TxDropped
    <2>2. ~(\/ ListenerAccept \/ ListenerAcceptFails \/ ListenerEnd
            \/ ListenerRequest \/ ListenerResponse \/ ListenerClose)
      BY <2>1 DEF ListenerAccept, ListenerAcceptFails, ListenerEnd, ListenerRequest,
           ListenerResponse, ListenerClose
    <2>3. listener' = listener
      BY <1>0, <2>2 DEF PortTurn, portVars, ConnecterRecv, ConnecterNone, Dialed, DialReply,
           ConnecterTold, ListenerTold
    <2> QED
      BY <2>1, <2>3
  <1>4. ASSUME sd = "server"
        PROVE  connecter' = "done" /\ (\A c \in Conns : ~Dialing(c)') /\ serve' # "wait"
    <2>1. connecter = "done" /\ (\A c \in Conns : ~Dialing(c)) /\ serve # "wait"
      BY <1>4 DEF TxDropped
    <2>2. ~ConnecterRecv /\ ~ConnecterNone /\ \A c \in Conns : ~Dialed(c) /\ ~DialReply(c)
      BY <2>1 DEF ConnecterRecv, ConnecterNone, Dialed, DialReply, Dialing
    <2>3. connecter' = connecter /\ dial' = dial
      BY <1>0, <2>2 DEF PortTurn, portVars, ListenerAccept, ListenerAcceptFails, ListenerEnd,
           ListenerRequest, ListenerResponse, ListenerClose, ConnecterTold, ListenerTold
    <2>4. serve' # "wait"
      BY <1>0, <2>1 DEF EndTurn
    <2> QED
      BY <2>1, <2>3, <2>4 DEF Dialing
  <1> QED
    BY <1>2, <1>3, <1>4 DEF TxDropped

\* A receiver that has ended does not go on.
LEMMA EndedStays ==
    ASSUME Types, [Next]_vars, NEW sd \in Sides
    PROVE  ReceiverEnded(sd) => receiver'[sd] = receiver[sd]
  <1>1. ReceiverTurn(sd)
    BY EndSteps
  <1> QED
    BY <1>1 DEF ReceiverTurn, ReceiverEnded

\* The order in which a side ends is preserved.
LEMMA FinishNext == Types /\ Finish /\ [Next]_vars => Finish'
  <1> SUFFICES ASSUME Types, Finish, [Next]_vars PROVE Finish'
    OBVIOUS
  <1>0. /\ EndTurn /\ \A sd \in Sides : ReceiverTurn(sd)
        /\ WayTypes /\ WayTypes' /\ link \in {"up", "down"} /\ EndTypes
    BY EndSteps, PathStep DEF Types, WayTypes
  <1>1. Down'
    <2>1. ASSUME NEW sd \in Sides, receiver'[sd].pc \in {"shutdown", "closed"}
          PROVE  link' = "down"
      <3>1. \/ receiver[sd].pc \in {"shutdown", "closed"}
            \/ BeginShutdown(sd)
        BY <1>0, <2>1 DEF ReceiverTurn
      <3>2. link = "down"
        BY <3>1 DEF Finish, Down, BeginShutdown
      <3> QED
        BY <1>0, <3>2 DEF EndTurn
    <2>2. client' = "over" => link' = "down"
      BY <1>0 DEF EndTurn, Finish, Down
    <2> QED
      BY <2>1, <2>2 DEF Down
  <1>2. ASSUME NEW sd \in Sides
        PROVE  /\ sender'[sd] = "done" => sender[sd] = "done" \/ SenderFinish(sd)
               /\ sender[sd] = "done" => sender'[sd] = "done"
               /\ SenderFinish(sd) => sender[sd] = "run" /\ sender'[sd] = "done"
    BY <1>0 DEF EndTurn, SenderFinish, EndTypes
  <1>3. ASSUME NEW sd \in Sides
        PROVE  /\ sender[sd] = "done" => \A m : ~Adds(sd, m)
               /\ \A m \in {Finished} : Adds(sd, m) => SenderFinish(sd)
    <2>1. sender[sd] = "done" => TxDropped(sd)
      BY DEF Finish, FinishOf
    <2>2. sender[sd] = "done" => \A m : ~Adds(sd, m)
      BY <1>2, <2>1, DroppedSilent
    <2>3. Finished.act = "Finished"
      BY DEF Finished
    <2>4. Adds(sd, Finished) => SenderFinish(sd)
      BY <2>3, AddsFacts
    <2> QED
      BY <2>2, <2>4
  <1>4. ASSUME NEW sd \in Sides PROVE FinishOf(sd)'
    <2> DEFINE C == {Finished}
               D == Msgs(sd)
    <2>0. /\ sender[sd] = "done" => TxDropped(sd)
          /\ NoneAfter(path[sd], C, D)
          /\ Has(path[sd], C) => sender[sd] = "done"
          /\ receiver[Peer(sd)].pc = "finished" => sender[sd] = "done" /\ ~Has(path[sd], D)
      BY DEF Finish, FinishOf
    <2>1. sender'[sd] = "done" => TxDropped(sd)'
      <3>1. SenderFinish(sd) => TxDropped(sd)
        BY DEF SenderFinish
      <3> QED
        BY <1>2, <2>0, <3>1, DroppedStays
    <2>2. \A m \in C : Adds(sd, m) => SenderFinish(sd)
      BY <1>3
    <2> HIDE DEF C, D
    <2>3. NoneAfter(path'[sd], C, D)
      BY <1>3, <2>0, WayChanges
    <2>4. Has(path'[sd], C) => sender'[sd] = "done"
      BY <1>2, <2>0, <2>2, WayChanges
    <2>5. ASSUME receiver'[Peer(sd)].pc = "finished"
          PROVE  sender'[sd] = "done" /\ ~Has(path'[sd], D)
      <3>1. Peer(sd) \in Sides /\ Peer(Peer(sd)) = sd
        BY SideFacts
      <3>2. CASE receiver[Peer(sd)].pc = "finished"
        BY <1>2, <1>3, <2>0, <3>2, WayChanges
      <3>3. CASE receiver[Peer(sd)].pc # "finished"
        <4>1. Receive(Peer(sd)) /\ Head(path[sd]) = Finished
          <5>1. ReceiverTurn(Peer(sd))
            BY <1>0, <3>1
          <5> QED
            BY <2>5, <3>1, <3>3, <5>1 DEF ReceiverTurn
        <4>2. FirstOf(Finished, path[sd], path'[sd])
          BY <1>0, <3>1, <4>1, ReceiveFacts
        <4>3. Finished \in C
          BY DEF C
        <4>4. Has(path[sd], C) /\ ~Has(path'[sd], D)
          BY <2>0, <4>2, <4>3 DEF FirstOf
        <4> QED
          BY <1>2, <2>0, <4>4
      <3> QED
        BY <3>2, <3>3
    <2> QED
      BY <2>1, <2>3, <2>4, <2>5 DEF FinishOf, C, D
  <1>5. ServerFinish'
    <2>0. /\ "server" \in Sides /\ "client" \in Sides /\ Peer("client") = "server"
          /\ ReceiverTurn("client") /\ ServerFinish /\ Down
      BY <1>0, SideFacts DEF Peer, Finish
    <2>1. sender'["server"] = "done" => receiver'["server"].pc \in {"finished", "closed"}
      <3>1. SenderFinish("server") => receiver["server"].pc \in {"finished", "closed"}
        BY DEF SenderFinish
      <3> QED
        BY <1>2, <2>0, <3>1, EndedStays DEF ReceiverEnded, ServerFinish
    <2>2. serve' = "over" => sender'["server"] = "done" \/ receiver'["server"].pc = "failed"
      <3>1. ServeJoin => sender["server"] = "done" \/ receiver["server"].pc = "failed"
        BY DEF ServeJoin
      <3>2. serve' = "over" => sender["server"] = "done" \/ receiver["server"].pc = "failed"
        BY <1>0, <2>0, <3>1 DEF EndTurn, ServerFinish
      <3> QED
        BY <1>2, <2>0, <3>2, EndedStays DEF ReceiverEnded
    <2>3. ASSUME Has(path'["server"], {Finished}) \/ receiver'["client"].pc = "finished"
          PROVE  receiver'["server"].pc = "finished"
      <3> DEFINE C == {Finished}
      <3>1. Has(path["server"], C) \/ receiver["client"].pc = "finished" =>
              receiver["server"].pc = "finished"
        BY <2>0 DEF ServerFinish
      <3>2. receiver'["client"].pc = "finished" =>
              Has(path["server"], C) \/ receiver["client"].pc = "finished"
        <4>1. ASSUME Receive("client"), Head(path["server"]) = Finished
              PROVE  Has(path["server"], C)
          <5>1. FirstOf(Finished, path["server"], path'["server"])
            BY <1>0, <2>0, <4>1, ReceiveFacts
          <5>2. Finished \in C
            OBVIOUS
          <5> HIDE DEF C
          <5> QED
            BY <5>1, <5>2 DEF FirstOf
        <4> QED
          BY <2>0, <4>1 DEF ReceiverTurn
      <3>3. \A m \in C : Adds("server", m) => SenderFinish("server")
        BY <1>3, <2>0
      <3> HIDE DEF C
      <3>4. Has(path'["server"], C) =>
              Has(path["server"], C) \/ (link = "up" /\ SenderFinish("server"))
        BY <2>0, <3>3, WayChanges
      <3>5. link = "up" /\ SenderFinish("server") => receiver["server"].pc = "finished"
        BY <2>0 DEF Down, SenderFinish
      <3>6. receiver["server"].pc = "finished"
        BY <2>3, <3>1, <3>2, <3>4, <3>5 DEF C
      <3> QED
        BY <2>0, <3>6, EndedStays DEF ReceiverEnded
    <2> QED
      BY <2>1, <2>2, <2>3 DEF ServerFinish
  <1> QED
    BY <1>1, <1>4, <1>5 DEF Finish

-----------------------------------------------------------------------------
(* The token of a stream, from a side p to its peer.                       *)

DataOf(c) == [id : {c}, act : {"Data"}, n : Nat]
Datas == [act : {"Data"}, n : Nat]
AckOf(c) == [id : {c}, act : {"Ack"}, n : {0}]
SinkClosedOf(c) == [id : {c}, act : {"SinkClosed"}, n : {0}]

\* A packet: on the way to the sink's side, in the sink's channel, in its hands.
DataUnderWay(p, c) == Has(path[p], DataOf(c))
DataWaits(p, c) == Has(snkRx[Peer(p)][c], Datas)
Writing(p, c) == snk[Peer(p)][c].pc = "write"

\* Its acknowledgement: in the sink's hands, on the way back, in the source's channel.
Acking(p, c) == snk[Peer(p)][c].pc = "ack"
AckUnderWay(p, c) == Has(path[Peer(p)], AckOf(c))
AckWaits(p, c) == Has(srcRx[p][c], {Ack})
ClosedWaits(p, c) == Has(srcRx[p][c], {SinkClosed})

OneData(p, c) == NoneAfter(path[p], DataOf(c), DataOf(c))
OneAck(p, c) == NoneAfter(path[Peer(p)], AckOf(c), AckOf(c))

Loaded(p, c) == DataUnderWay(p, c) \/ DataWaits(p, c) \/ Writing(p, c)
Acked(p, c) == Acking(p, c) \/ AckUnderWay(p, c) \/ AckWaits(p, c)

\* The token of a stream is in one place at most; before its source is started, and
\* while it reads or has a packet in its hands, the token is nowhere else.
Token(p, c) ==
    /\ src[p][c].pc # "panicked"
    /\ src[p][c].pc \in {"none", "select", "send"} => ~Loaded(p, c) /\ ~Acked(p, c)
    /\ ~(Loaded(p, c) /\ Acked(p, c))
    /\ DataUnderWay(p, c) => OneData(p, c) /\ ~DataWaits(p, c) /\ ~Writing(p, c)
    /\ DataWaits(p, c) => ~Writing(p, c)
    /\ AckUnderWay(p, c) => OneAck(p, c) /\ ~Acking(p, c) /\ ~AckWaits(p, c)
    /\ Acking(p, c) => ~AckWaits(p, c)

\* How the token moves along the way.
LEMMA TokenWay ==
    ASSUME Types, [Next]_vars, NEW p \in Sides, NEW c \in Conns
    PROVE  /\ \/ /\ DataUnderWay(p, c)' => DataUnderWay(p, c)
                 /\ OneData(p, c) => OneData(p, c)'
              \/ /\ SourceSend(p, c) /\ src[p][c].pc = "send"
                 /\ OneData(p, c) => OneData(p, c)' \/ DataUnderWay(p, c)
           /\ \/ /\ AckUnderWay(p, c)' => AckUnderWay(p, c)
                 /\ OneAck(p, c) => OneAck(p, c)'
              \/ /\ SinkSend(Peer(p), c) /\ snk[Peer(p)][c].pc = "ack"
                 /\ OneAck(p, c) => OneAck(p, c)' \/ AckUnderWay(p, c)
           /\ Has(path'[Peer(p)], SinkClosedOf(c)) =>
                \/ Has(path[Peer(p)], SinkClosedOf(c))
                \/ SinkSend(Peer(p), c) /\ snk[Peer(p)][c].pc = "notify"
  <1>0. Peer(p) \in Sides
    BY SideFacts
  <1> DEFINE D == DataOf(c)
             A == AckOf(c)
             Z == SinkClosedOf(c)
  <1>1. \A m \in D : Adds(p, m) => SourceSend(p, c) /\ src[p][c].pc = "send"
    <2>1. \A m \in D : m.id = c /\ m.act = "Data"
      BY DEF DataOf
    <2> HIDE DEF D
    <2> QED
      BY <2>1, AddsFacts
  <1>2. \A m \in A : Adds(Peer(p), m) => SinkSend(Peer(p), c) /\ snk[Peer(p)][c].pc = "ack"
    <2>1. \A m \in A : m.id = c /\ m.act = "Ack"
      BY DEF AckOf
    <2> HIDE DEF A
    <2> QED
      BY <1>0, <2>1, AddsFacts
  <1>3. \A m \in Z : Adds(Peer(p), m) => SinkSend(Peer(p), c) /\ snk[Peer(p)][c].pc = "notify"
    <2>1. \A m \in Z : m.id = c /\ m.act = "SinkClosed"
      BY DEF SinkClosedOf
    <2> HIDE DEF Z
    <2> QED
      BY <1>0, <2>1, AddsFacts
  <1> HIDE DEF D, A, Z
  <1>4. /\ Has(path'[p], D) => Has(path[p], D) \/ (SourceSend(p, c) /\ src[p][c].pc = "send")
        /\ NoneAfter(path[p], D, D) =>
             \/ NoneAfter(path'[p], D, D)
             \/ Has(path[p], D) /\ SourceSend(p, c) /\ src[p][c].pc = "send"
    BY <1>1, WayChanges
  <1> DEFINE q == Peer(p)
  <1> HIDE DEF q
  <1>5. /\ Has(path'[q], A) => Has(path[q], A) \/ (SinkSend(q, c) /\ snk[q][c].pc = "ack")
        /\ NoneAfter(path[q], A, A) =>
             \/ NoneAfter(path'[q], A, A)
             \/ Has(path[q], A) /\ SinkSend(q, c) /\ snk[q][c].pc = "ack"
    BY <1>0, <1>2, WayChanges DEF q
  <1>6. Has(path'[q], Z) => Has(path[q], Z) \/ (SinkSend(q, c) /\ snk[q][c].pc = "notify")
    BY <1>0, <1>3, WayChanges DEF q
  <1> QED
    BY <1>4, <1>5, <1>6 DEF DataUnderWay, AckUnderWay, OneData, OneAck, D, A, Z, q

\* What a message that is put into a channel adds to it.
LEMMA ChannelFacts ==
    ASSUME TaskTypes, NEW sd \in Sides, NEW c \in Conns
    PROVE  /\ \A a \in SourceAction : \A C :
                Has(Append(snkRx[sd][c], a), C) <=> Has(snkRx[sd][c], C) \/ a \in C
           /\ \A a \in SinkAction : \A C :
                Has(Append(srcRx[sd][c], a), C) <=> Has(srcRx[sd][c], C) \/ a \in C
  <1>1. ASSUME NEW S, NEW q \in Seq(S), NEW a \in S, NEW C
        PROVE  Has(Append(q, a), C) <=> Has(q, C) \/ a \in C
    <2> DEFINE r == Append(q, a)
    <2>1. Appended(r, q, a)
      BY DEF Appended
    <2> HIDE DEF r
    <2>2. Has(r, C) <=> Has(q, C) \/ a \in C
      BY <2>1, AppendOrder
    <2> QED
      BY <2>2 DEF r
  <1>2. snkRx[sd][c] \in Seq(SourceAction) /\ srcRx[sd][c] \in Seq(SinkAction)
    BY DEF TaskTypes
  <1> QED
    BY <1>1, <1>2

\* A task that sends has moved.
LEMMA SendersMove ==
    ASSUME Types, [Next]_vars, NEW sd \in Sides, NEW c \in Conns
    PROVE  /\ SourceSend(sd, c) => src'[sd][c].pc # src[sd][c].pc /\ SourceSending(src[sd][c])
           /\ SinkSend(sd, c) => snk'[sd][c].pc # snk[sd][c].pc /\ SinkSending(snk[sd][c])
  <1>0. TaskTypes
    BY DEF Types
  <1>1. ASSUME SourceSend(sd, c)
        PROVE  src'[sd][c].pc # src[sd][c].pc /\ SourceSending(src[sd][c])
    <2>1. SourceSending(src[sd][c]) /\ src' = [src EXCEPT ![sd][c] = SourceSent(@)]
      BY <1>1 DEF SourceSend
    <2>2. src[sd][c] \in SourceState
      BY <1>0, <2>1, TaskStates DEF SourceSending
    <2>3. src'[sd][c] = SourceSent(src[sd][c])
      BY <1>0, <2>1 DEF TaskTypes
    <2>4. \A t \in SourceState : SourceSending(t) => SourceSent(t).pc # t.pc
      BY DEF SourceState, SourceSending, SourceSent
    <2> QED
      BY <2>1, <2>2, <2>3, <2>4
  <1>2. ASSUME SinkSend(sd, c)
        PROVE  snk'[sd][c].pc # snk[sd][c].pc /\ SinkSending(snk[sd][c])
    <2>1. SinkSending(snk[sd][c]) /\ snk' = [snk EXCEPT ![sd][c] = SinkSent(@)]
      BY <1>2 DEF SinkSend
    <2>2. snk[sd][c] \in SinkState
      BY <1>0, <2>1, TaskStates DEF SinkSending
    <2>3. snk'[sd][c] = SinkSent(snk[sd][c])
      BY <1>0, <2>1 DEF TaskTypes
    <2>4. \A t \in SinkState : SinkSending(t) => SinkSent(t).pc # t.pc
      BY DEF SinkState, SinkSending, SinkSent
    <2> QED
      BY <2>1, <2>2, <2>3, <2>4
  <1> QED
    BY <1>1, <1>2

\* A stream is started where it has not been.
LEMMA StartsFresh ==
    ASSUME Types, Requested, NEW sd \in Sides, NEW c \in Conns, StartsAt(sd, c)
    PROVE  src[sd][c] = NoSource /\ snk[sd][c] = NoSink
  <1>1. RequestResult(c)
    BY DEF Requested
  <1>2. ~(c < c)
    BY DEF Conns
  <1>3. src[sd][c] = NoSource
    BY <1>1, <1>2, SideFacts DEF StartsAt, RequestResult, Spoken
  <1> QED
    BY <1>3 DEF Requested, Paired

\* An acknowledgement waits when one is put into the channel.
LEMMA AckChannel ==
    ASSUME TaskTypes, NEW p \in Sides, NEW c \in Conns, NEW a \in SinkAction
    PROVE  /\ Has(Append(srcRx[p][c], a), {Ack}) <=> AckWaits(p, c) \/ a = Ack
           /\ Has(Append(srcRx[p][c], a), {SinkClosed}) <=> ClosedWaits(p, c) \/ a = SinkClosed
  <1> DEFINE C == {Ack}
             D == {SinkClosed}
  <1>1. (a \in C <=> a = Ack) /\ (a \in D <=> a = SinkClosed)
    OBVIOUS
  <1> HIDE DEF C, D
  <1>2. \A E : Has(Append(srcRx[p][c], a), E) <=> Has(srcRx[p][c], E) \/ a \in E
    BY ChannelFacts
  <1>3. /\ Has(Append(srcRx[p][c], a), C) <=> Has(srcRx[p][c], C) \/ a \in C
        /\ Has(Append(srcRx[p][c], a), D) <=> Has(srcRx[p][c], D) \/ a \in D
    BY <1>2
  <1> QED
    BY <1>1, <1>3 DEF C, D, AckWaits, ClosedWaits

\* The token stays one.
LEMMA TokenNext ==
    ASSUME Types, Requested, [Next]_vars, NEW p \in Sides, NEW c \in Conns, Token(p, c)
    PROVE  Token(p, c)'
  <1> DEFINE q == Peer(p)
             t == src[p][c]
             k == snk[q][c]
  <1>0. /\ q \in Sides /\ Peer(q) = p /\ TaskTypes /\ WayTypes
        /\ snkRx[q][c] \in Seq(SourceAction) /\ Len(snkRx[q][c]) <= ChanCap
        /\ srcRx[p][c] \in Seq(SinkAction) /\ Len(srcRx[p][c]) <= ChanCap
        /\ t.pc # "none" => t \in SourceState
        /\ k.pc # "none" => k \in SinkState
    <2>1. q \in Sides /\ Peer(q) = p /\ TaskTypes /\ WayTypes
      BY SideFacts DEF Types
    <2> HIDE DEF q
    <2>2. /\ snkRx[q][c] \in Seq(SourceAction) /\ Len(snkRx[q][c]) <= ChanCap
          /\ srcRx[p][c] \in Seq(SinkAction) /\ Len(srcRx[p][c]) <= ChanCap
      BY <2>1 DEF TaskTypes
    <2>3. /\ t.pc # "none" => t \in SourceState
          /\ k.pc # "none" => k \in SinkState
      BY <2>1, TaskStates
    <2> QED
      BY <2>1, <2>2, <2>3
  <1>1. /\ StreamTurn(p, c)
        /\ SourceSend(p, c) => src'[p][c].pc # t.pc /\ SourceSending(t)
        /\ SinkSend(q, c) => snk'[q][c].pc # k.pc /\ SinkSending(k)
    BY <1>0, TaskSteps, SendersMove
  <1>2. ~(SourceSend(p, c) /\ t.pc = "send") =>
          /\ DataUnderWay(p, c)' => DataUnderWay(p, c)
          /\ OneData(p, c) => OneData(p, c)'
    BY TokenWay
  <1>3. ~(SinkSend(q, c) /\ k.pc = "ack") =>
          /\ AckUnderWay(p, c)' => AckUnderWay(p, c)
          /\ OneAck(p, c) => OneAck(p, c)'
    BY TokenWay
  <1>4. SameSource(p, c) => /\ src'[p][c] = t /\ AckWaits(p, c)' = AckWaits(p, c)
                            /\ ~SourceSend(p, c)
    BY <1>1 DEF SameSource, AckWaits
  <1>5. SameSink(q, c) => /\ snk'[q][c] = k /\ DataWaits(p, c)' = DataWaits(p, c)
                          /\ Writing(p, c)' = Writing(p, c) /\ Acking(p, c)' = Acking(p, c)
                          /\ ~SinkSend(q, c)
    BY <1>1 DEF SameSink, DataWaits, Writing, Acking
  <1>6. CASE SourceTurn(p, c) /\ SameSink(q, c)
    <2>1. t \in SourceState
      BY <1>0, <1>6 DEF SourceTurn, SourceSending, SourceListening
    <2>2. CASE /\ t.pc = "select" /\ srcRx'[p][c] = srcRx[p][c]
               /\ \/ src'[p][c] = SourceRead(t)
                  \/ src'[p][c] = SourceBreak(t)
      <3>1. src'[p][c].pc \in {"send", "close"}
        BY <2>1, <2>2 DEF SourceRead, SourceBreak, SourceState
      <3>2. AckWaits(p, c)' = AckWaits(p, c) /\ ~SourceSend(p, c)
        BY <1>1, <2>2 DEF AckWaits, SourceSending
      <3> QED
        BY <1>2, <1>3, <1>5, <1>6, <2>2, <3>1, <3>2 DEF Token, Loaded, Acked
    <2>3. CASE /\ SourceSending(t) /\ src'[p][c] = SourceSent(t)
               /\ srcRx'[p][c] = srcRx[p][c]
      <3>1. AckWaits(p, c)' = AckWaits(p, c)
        BY <2>3 DEF AckWaits
      <3>2. CASE t.pc = "send"
        <4>1. src'[p][c].pc = "ack"
          BY <2>1, <2>3, <3>2 DEF SourceSent, SourceState
        <4>2. ~DataUnderWay(p, c) => OneData(p, c)
          BY DEF DataUnderWay, OneData, Has, NoneAfter
        <4>3. ~DataUnderWay(p, c) => OneData(p, c)'
          BY <4>2, TokenWay
        <4> QED
          BY <1>3, <1>5, <1>6, <3>1, <3>2, <4>1, <4>3 DEF Token, Loaded, Acked
      <3>3. CASE t.pc = "close"
        <4>1. src'[p][c].pc = "done"
          BY <2>1, <2>3, <3>3 DEF SourceSent, SourceState
        <4> QED
          BY <1>2, <1>3, <1>5, <1>6, <3>1, <3>3, <4>1 DEF Token, Loaded, Acked
      <3> QED
        BY <2>3, <3>2, <3>3 DEF SourceSending
    <2>4. CASE /\ SourceListening(t) /\ srcRx[p][c] # <<>>
               /\ src'[p][c] = SourceRecv(t, Head(srcRx[p][c]))
               /\ srcRx'[p][c] = Tail(srcRx[p][c])
      <3> DEFINE h == Head(srcRx[p][c])
      <3>1. h \in SinkAction /\ Tail(srcRx[p][c]) = <<>> /\ (AckWaits(p, c) <=> h \in {Ack})
        BY <1>0, <2>4, OneInChannel DEF AckWaits
      <3>2. t.pc \in {"select", "ack"} /\ ~SourceSend(p, c)
        BY <1>1, <2>4 DEF SourceListening, SourceSending
      <3> HIDE DEF h
      <3>3. ~AckWaits(p, c)'
        BY <2>4, <3>1, EmptyOrder DEF AckWaits
      <3>4. CASE h = Ack
        <4>1. AckWaits(p, c)
          BY <3>1, <3>4
        <4>2. t.pc = "ack"
          BY <3>2, <4>1 DEF Token, Acked
        <4>3. src'[p][c].pc = "select"
          BY <2>1, <2>4, <3>4, <4>2 DEF SourceRecv, SourceState, Ack, SinkClosed, h
        <4> QED
          BY <1>2, <1>3, <1>5, <1>6, <3>2, <3>3, <4>1, <4>3 DEF Token, Loaded, Acked
      <3>5. CASE h = SinkClosed
        <4>1. src'[p][c].pc = "close"
          BY <2>1, <2>4, <3>5 DEF SourceRecv, SourceState, Ack, SinkClosed, h
        <4> QED
          BY <1>2, <1>3, <1>5, <1>6, <3>2, <3>3, <4>1 DEF Token, Loaded, Acked
      <3> QED
        BY <3>1, <3>4, <3>5 DEF SinkAction
    <2>5. CASE /\ SourceListening(t) /\ src'[p][c] = SourceRecvNone(t)
               /\ srcRx'[p][c] = srcRx[p][c]
      <3>1. src'[p][c].pc = "failed"
        BY <2>1, <2>5 DEF SourceRecvNone, SourceState
      <3>2. AckWaits(p, c)' = AckWaits(p, c) /\ ~SourceSend(p, c)
        BY <1>1, <2>5 DEF AckWaits, SourceListening, SourceSending
      <3> QED
        BY <1>2, <1>3, <1>5, <1>6, <3>1, <3>2 DEF Token, Loaded, Acked
    <2> QED
      BY <1>6, <2>2, <2>3, <2>4, <2>5 DEF SourceTurn
  <1>7. CASE SinkTurn(q, c) /\ SameSource(p, c)
    <2>1. k \in SinkState
      BY <1>0, <1>7 DEF SinkTurn, SinkSending
    <2>2. CASE /\ k.pc = "recv" /\ snkRx[q][c] # <<>>
               /\ snk'[q][c] = SinkRecv(k, Head(snkRx[q][c]))
               /\ snkRx'[q][c] = Tail(snkRx[q][c])
      <3> DEFINE h == Head(snkRx[q][c])
      <3>1. h \in SourceAction /\ Tail(snkRx[q][c]) = <<>> /\ (DataWaits(p, c) <=> h \in Datas)
        BY <1>0, <2>2, OneInChannel DEF DataWaits
      <3> HIDE DEF h
      <3>2. ~DataWaits(p, c)' /\ ~SinkSend(q, c)
        BY <1>1, <2>2, <3>1, EmptyOrder DEF DataWaits, SinkSending
      <3>3. /\ snk'[q][c].pc \in {"shutdown", "notify", "write"}
            /\ snk'[q][c].pc = "write" => h.act # "SourceClosed"
        BY <2>1, <2>2 DEF SinkRecv, SinkState, h
      <3>4. h.act # "SourceClosed" => h \in Datas
        BY <3>1 DEF SourceAction, Datas
      <3>5. (Writing(p, c)' => DataWaits(p, c)) /\ ~Acking(p, c)'
        BY <3>1, <3>3, <3>4 DEF Writing, Acking
      <3> QED
        BY <1>2, <1>3, <1>4, <1>7, <3>2, <3>5 DEF Token, Loaded, Acked
    <2>3. CASE /\ \/ k.pc = "recv" /\ snk'[q][c] = SinkRecvNone(k)
                  \/ k.pc = "shutdown" /\ snk'[q][c] = SinkShutdown(k)
               /\ snkRx'[q][c] = snkRx[q][c]
      <3>1. snk'[q][c].pc \in {"shutdown", "done"} /\ ~SinkSend(q, c)
        BY <1>1, <2>1, <2>3 DEF SinkRecvNone, SinkShutdown, SinkState, SinkSending
      <3>2. DataWaits(p, c)' = DataWaits(p, c) /\ ~Writing(p, c)' /\ ~Acking(p, c)'
        BY <2>3, <3>1 DEF DataWaits, Writing, Acking
      <3> QED
        BY <1>2, <1>3, <1>4, <1>7, <3>1, <3>2 DEF Token, Loaded, Acked
    <2>4. CASE /\ k.pc \in {"write", "flush"} /\ snkRx'[q][c] = snkRx[q][c]
               /\ \E res \in WriteResults : snk'[q][c] = SinkIo(k, res)
      <3>1. /\ snk'[q][c].pc \in {"ack", "recv", "notify", "failed"} /\ ~SinkSend(q, c)
            /\ snk'[q][c].pc = "ack" => k.pc = "write"
        BY <1>1, <2>1, <2>4 DEF SinkIo, SinkState, SinkSending
      <3>2. DataWaits(p, c)' = DataWaits(p, c) /\ ~Writing(p, c)' /\ (Acking(p, c)' => Writing(p, c))
        BY <2>4, <3>1 DEF DataWaits, Writing, Acking
      <3> QED
        BY <1>2, <1>3, <1>4, <1>7, <3>1, <3>2 DEF Token, Loaded, Acked
    <2>5. CASE /\ SinkSending(k) /\ snk'[q][c] = SinkSent(k) /\ snkRx'[q][c] = snkRx[q][c]
      <3>1. snk'[q][c].pc \in {"flush", "recv"}
        BY <2>1, <2>5 DEF SinkSending, SinkSent, SinkState
      <3>2. DataWaits(p, c)' = DataWaits(p, c) /\ ~Writing(p, c)' /\ ~Acking(p, c)'
        BY <2>5, <3>1 DEF DataWaits, Writing, Acking
      <3>3. CASE k.pc = "ack"
        <4>1. ~AckUnderWay(p, c) => OneAck(p, c)
          BY DEF AckUnderWay, OneAck, Has, NoneAfter
        <4>2. Acking(p, c) /\ (~AckUnderWay(p, c) => OneAck(p, c)')
          BY <3>3, <4>1, TokenWay DEF Acking
        <4> QED
          BY <1>2, <1>4, <1>7, <3>2, <4>2 DEF Token, Loaded, Acked
      <3>4. CASE k.pc # "ack"
        BY <1>2, <1>3, <1>4, <1>7, <3>2, <3>4 DEF Token, Loaded, Acked
      <3> QED
        BY <3>3, <3>4
    <2> QED
      BY <1>7, <2>2, <2>3, <2>4, <2>5 DEF SinkTurn
  <1>8. CASE SourceTold(p, c) /\ SameSink(q, c)
    <2>0. src'[p][c] = t /\ ~SourceSend(p, c) /\ ~SinkSend(q, c)
      BY <1>1, <1>5, <1>8 DEF SourceTold
    <2>1. CASE LET m == Head(path[q]) IN
               /\ Receive(p) /\ m \in ForSources /\ m.id = c /\ ActionOf(m) \in SinkAction
               /\ srcRx'[p][c] = Append(srcRx[p][c], ActionOf(m))
      <3> DEFINE m == Head(path[q])
      <3>1. FirstOf(m, path[q], path'[q])
        BY <1>0, <2>1, ReceiveFacts
      <3>2. /\ m \in ForSources /\ m.id = c /\ ActionOf(m) \in SinkAction
            /\ srcRx'[p][c] = Append(srcRx[p][c], ActionOf(m))
        BY <2>1
      <3> HIDE DEF m
      <3>3. ActionOf(m) \in {Ack} => m \in AckOf(c)
        BY <3>2 DEF ActionOf, Ack, AckOf, ForSources
      <3>4. m \in AckOf(c) => AckUnderWay(p, c) /\ (OneAck(p, c) => ~AckUnderWay(p, c)')
        BY <3>1 DEF FirstOf, AckUnderWay, OneAck
      <3>5. AckWaits(p, c)' => AckWaits(p, c) \/ m \in AckOf(c)
        <4> DEFINE a == ActionOf(m)
        <4>1. a \in SinkAction /\ (a = Ack => m \in AckOf(c))
          BY <3>2, <3>3
        <4>2. srcRx'[p][c] = Append(srcRx[p][c], a)
          BY <3>2
        <4> HIDE DEF a
        <4>3. Has(srcRx'[p][c], {Ack}) => AckWaits(p, c) \/ a = Ack
          BY <1>0, <4>1, <4>2, AckChannel
        <4> QED
          BY <4>1, <4>3 DEF AckWaits
      <3> QED
        BY <1>2, <1>3, <1>5, <1>8, <2>0, <3>4, <3>5 DEF Token, Loaded, Acked
    <2>2. CASE srcRx'[p][c] = Append(srcRx[p][c], SinkClosed)
      <3>1. SinkClosed \in SinkAction /\ SinkClosed # Ack
        BY DEF SinkClosed, SinkAction, Ack
      <3>2. AckWaits(p, c)' => AckWaits(p, c)
        <4>1. Has(srcRx'[p][c], {Ack}) => AckWaits(p, c) \/ SinkClosed = Ack
          BY <1>0, <2>2, <3>1, AckChannel
        <4> QED
          BY <3>1, <4>1 DEF AckWaits
      <3> QED
        BY <1>2, <1>3, <1>5, <1>8, <2>0, <3>2 DEF Token, Loaded, Acked
    <2> QED
      BY <1>8, <2>1, <2>2 DEF SourceTold
  <1>9. CASE SinkTold(q, c) /\ SameSource(p, c)
    <2>0. /\ Writing(p, c)' = Writing(p, c) /\ Acking(p, c)' = Acking(p, c)
          /\ ~SourceSend(p, c) /\ ~SinkSend(q, c)
      BY <1>1, <1>4, <1>9 DEF SinkTold, Writing, Acking
    <2>1. CASE LET m == Head(path[Peer(q)]) IN
               /\ Receive(q) /\ m \in ForSinks /\ m.id = c /\ ActionOf(m) \in SourceAction
               /\ snkRx'[q][c] = Append(snkRx[q][c], ActionOf(m))
      <3> DEFINE m == Head(path[p])
      <3>1. FirstOf(m, path[p], path'[p])
        BY <1>0, <2>1, ReceiveFacts
      <3>2. /\ m \in ForSinks /\ m.id = c /\ ActionOf(m) \in SourceAction
            /\ snkRx'[q][c] = Append(snkRx[q][c], ActionOf(m))
        BY <1>0, <2>1
      <3> HIDE DEF m
      <3>3. ActionOf(m) \in Datas => m \in DataOf(c)
        BY <3>2 DEF ActionOf, Datas, DataOf, ForSinks
      <3>4. m \in DataOf(c) => DataUnderWay(p, c) /\ (OneData(p, c) => ~DataUnderWay(p, c)')
        BY <3>1 DEF FirstOf, DataUnderWay, OneData
      <3>5. DataWaits(p, c)' => DataWaits(p, c) \/ m \in DataOf(c)
        BY <1>0, <3>2, <3>3, ChannelFacts DEF DataWaits
      <3> QED
        BY <1>2, <1>3, <1>4, <1>9, <2>0, <3>4, <3>5 DEF Token, Loaded, Acked
    <2>2. CASE snkRx'[q][c] = Append(snkRx[q][c], SourceClosed)
      <3>1. SourceClosed \in SourceAction /\ SourceClosed \notin Datas
        BY DEF SourceClosed, SourceAction, Datas
      <3>2. DataWaits(p, c)' => DataWaits(p, c)
        BY <1>0, <2>2, <3>1, ChannelFacts DEF DataWaits
      <3> QED
        BY <1>2, <1>3, <1>4, <1>9, <2>0, <3>2 DEF Token, Loaded, Acked
    <2> QED
      BY <1>9, <2>1, <2>2 DEF SinkTold
  <1>10. CASE SameSource(p, c) /\ SameSink(q, c)
    BY <1>2, <1>3, <1>4, <1>5, <1>10 DEF Token, Loaded, Acked
  <1>11. CASE /\ StartsAt(p, c) /\ src'[p][c] = SourceNew /\ srcRx'[p][c] = srcRx[p][c]
              /\ SameSink(q, c)
    <2>1. t = NoSource
      BY <1>11, StartsFresh
    <2>2. t.pc = "none" /\ src'[p][c].pc = "select" /\ ~SourceSend(p, c)
      BY <1>1, <1>11, <2>1 DEF NoSource, SourceNew, SourceSending
    <2>3. AckWaits(p, c)' = AckWaits(p, c)
      BY <1>11 DEF AckWaits
    <2> QED
      BY <1>2, <1>3, <1>5, <1>11, <2>2, <2>3 DEF Token, Loaded, Acked
  <1>12. CASE /\ StartsAt(q, c) /\ snk'[q][c] = SinkNew
              /\ snkRx'[q][c] = snkRx[q][c] /\ SameSource(p, c)
    <2>1. k = NoSink
      BY <1>0, <1>12, StartsFresh
    <2>2. k.pc = "none" /\ snk'[q][c].pc = "recv" /\ ~SinkSend(q, c)
      BY <1>1, <1>12, <2>1 DEF NoSink, SinkNew, SinkSending
    <2>3. /\ DataWaits(p, c)' = DataWaits(p, c) /\ Writing(p, c)' = Writing(p, c)
          /\ Acking(p, c)' = Acking(p, c)
      BY <1>12, <2>2 DEF DataWaits, Writing, Acking
    <2> QED
      BY <1>2, <1>3, <1>4, <1>12, <2>2, <2>3 DEF Token, Loaded, Acked
  <1> QED
    BY <1>1, <1>6, <1>7, <1>8, <1>9, <1>10, <1>11, <1>12 DEF StreamTurn

\* What the token of a stream may do in a step: it is loaded by the source's send, and
\* becomes an acknowledgement when it has been written.
LEMMA TokenMoves ==
    ASSUME Types, [Next]_vars, NEW p \in Sides, NEW c \in Conns
    PROVE  LET q == Peer(p) IN
           /\ Loaded(p, c)' => Loaded(p, c) \/ (SourceSend(p, c) /\ src[p][c].pc = "send")
           /\ Acked(p, c)' => Acked(p, c) \/ (Writing(p, c) /\ wrote'[q][c] = wrote[q][c] + 1)
           /\ \/ wrote'[q][c] = wrote[q][c]
              \/ Writing(p, c) /\ Acking(p, c)' /\ wrote'[q][c] = wrote[q][c] + 1
  <1> DEFINE q == Peer(p)
             k == snk[q][c]
             Goal == /\ DataWaits(p, c)' \/ Writing(p, c)' => Loaded(p, c)
                     /\ Acking(p, c)' \/ AckWaits(p, c)' =>
                          Acked(p, c) \/ (Writing(p, c) /\ wrote'[q][c] = wrote[q][c] + 1)
                     /\ \/ wrote'[q][c] = wrote[q][c]
                        \/ Writing(p, c) /\ Acking(p, c)' /\ wrote'[q][c] = wrote[q][c] + 1
  <1>0. /\ q \in Sides /\ Peer(q) = p /\ TaskTypes /\ WayTypes
        /\ snkRx[q][c] \in Seq(SourceAction) /\ Len(snkRx[q][c]) <= ChanCap
        /\ srcRx[p][c] \in Seq(SinkAction) /\ Len(srcRx[p][c]) <= ChanCap
        /\ k.pc # "none" => k \in SinkState
    <2>1. q \in Sides /\ Peer(q) = p /\ TaskTypes /\ WayTypes
      BY SideFacts DEF Types
    <2> HIDE DEF q
    <2>2. /\ snkRx[q][c] \in Seq(SourceAction) /\ Len(snkRx[q][c]) <= ChanCap
          /\ srcRx[p][c] \in Seq(SinkAction) /\ Len(srcRx[p][c]) <= ChanCap
      BY <2>1 DEF TaskTypes
    <2>3. k.pc # "none" => k \in SinkState
      BY <2>1, TaskStates
    <2> QED
      BY <2>1, <2>2, <2>3
  <1>0a. Goal => LET r == Peer(p) IN
           /\ Loaded(p, c)' => Loaded(p, c) \/ (SourceSend(p, c) /\ src[p][c].pc = "send")
           /\ Acked(p, c)' => Acked(p, c) \/ (Writing(p, c) /\ wrote'[r][c] = wrote[r][c] + 1)
           /\ \/ wrote'[r][c] = wrote[r][c]
              \/ Writing(p, c) /\ Acking(p, c)' /\ wrote'[r][c] = wrote[r][c] + 1
    <2> SUFFICES ASSUME Goal
                 PROVE  /\ Loaded(p, c)' => Loaded(p, c) \/ (SourceSend(p, c) /\ src[p][c].pc = "send")
                        /\ Acked(p, c)' => Acked(p, c) \/ (Writing(p, c) /\ wrote'[q][c] = wrote[q][c] + 1)
      OBVIOUS
    <2>1. /\ DataUnderWay(p, c)' => DataUnderWay(p, c) \/ (SourceSend(p, c) /\ src[p][c].pc = "send")
          /\ AckUnderWay(p, c)' => AckUnderWay(p, c) \/ Acking(p, c)
      BY TokenWay DEF Acking
    <2> QED
      BY <2>1 DEF Loaded, Acked
  <1>1. StreamTurn(p, c)
    BY <1>0, TaskSteps
  <1>2. SameSource(p, c) \/ srcRx'[p][c] = srcRx[p][c] => AckWaits(p, c)' = AckWaits(p, c)
    BY DEF SameSource, AckWaits
  <1>3. SameSink(q, c) => /\ DataWaits(p, c)' = DataWaits(p, c) /\ wrote'[q][c] = wrote[q][c]
                          /\ Writing(p, c)' = Writing(p, c) /\ Acking(p, c)' = Acking(p, c)
    BY DEF SameSink, DataWaits, Writing, Acking
  <1>4. CASE SourceTurn(p, c) /\ SameSink(q, c)
    <2>1. AckWaits(p, c)' => AckWaits(p, c)
      <3>1. CASE srcRx'[p][c] = srcRx[p][c]
        BY <1>2, <3>1
      <3>2. CASE srcRx[p][c] # <<>> /\ srcRx'[p][c] = Tail(srcRx[p][c])
        <4>1. Tail(srcRx[p][c]) = <<>>
          BY <1>0, <3>2, OneInChannel
        <4> QED
          BY <3>2, <4>1, EmptyOrder DEF AckWaits
      <3> QED
        BY <1>4, <3>1, <3>2 DEF SourceTurn
    <2>2. Goal
      BY <1>3, <1>4, <2>1 DEF Loaded, Acked
    <2> QED
      BY <1>0a, <2>2
  <1>5. CASE SinkTurn(q, c) /\ SameSource(p, c)
    <2>1. k \in SinkState
      BY <1>0, <1>5 DEF SinkTurn, SinkSending
    <2>2. CASE /\ k.pc = "recv" /\ snkRx[q][c] # <<>>
               /\ snk'[q][c] = SinkRecv(k, Head(snkRx[q][c]))
               /\ snkRx'[q][c] = Tail(snkRx[q][c]) /\ wrote'[q][c] = wrote[q][c]
      <3> DEFINE h == Head(snkRx[q][c])
      <3>1. h \in SourceAction /\ Tail(snkRx[q][c]) = <<>> /\ (DataWaits(p, c) <=> h \in Datas)
        BY <1>0, <2>2, OneInChannel DEF DataWaits
      <3> HIDE DEF h
      <3>2. ~DataWaits(p, c)'
        BY <2>2, <3>1, EmptyOrder DEF DataWaits
      <3>3. /\ snk'[q][c].pc \in {"shutdown", "notify", "write"}
            /\ snk'[q][c].pc = "write" => h.act # "SourceClosed"
        BY <2>1, <2>2 DEF SinkRecv, SinkState, h
      <3>4. h.act # "SourceClosed" => h \in Datas
        BY <3>1 DEF SourceAction, Datas
      <3>5. (Writing(p, c)' => DataWaits(p, c)) /\ ~Acking(p, c)'
        BY <3>1, <3>3, <3>4 DEF Writing, Acking
      <3>6. Goal
        BY <1>2, <1>5, <2>2, <3>2, <3>5 DEF Loaded, Acked
      <3> QED
        BY <1>0a, <3>6
    <2>3. CASE /\ \/ k.pc = "recv" /\ snk'[q][c] = SinkRecvNone(k)
                  \/ k.pc = "shutdown" /\ snk'[q][c] = SinkShutdown(k)
                  \/ SinkSending(k) /\ snk'[q][c] = SinkSent(k)
               /\ snkRx'[q][c] = snkRx[q][c] /\ wrote'[q][c] = wrote[q][c]
      <3>1. snk'[q][c].pc \in {"shutdown", "done", "flush", "recv"}
        BY <2>1, <2>3 DEF SinkRecvNone, SinkShutdown, SinkSent, SinkState
      <3>2. DataWaits(p, c)' = DataWaits(p, c) /\ ~Writing(p, c)' /\ ~Acking(p, c)'
        BY <2>3, <3>1 DEF DataWaits, Writing, Acking
      <3>3. Goal
        BY <1>2, <1>5, <2>3, <3>2 DEF Loaded, Acked
      <3> QED
        BY <1>0a, <3>3
    <2>4. CASE /\ k.pc \in {"write", "flush"} /\ snkRx'[q][c] = snkRx[q][c]
               /\ \E res \in WriteResults :
                    /\ snk'[q][c] = SinkIo(k, res)
                    /\ wrote'[q][c] = IF k.pc = "write" /\ res = "ok"
                                      THEN wrote[q][c] + 1 ELSE wrote[q][c]
      <3>1. /\ snk'[q][c].pc \in {"ack", "recv", "notify", "failed"}
            /\ \/ snk'[q][c].pc = "ack" /\ k.pc = "write" /\ wrote'[q][c] = wrote[q][c] + 1
               \/ snk'[q][c].pc # "ack" /\ wrote'[q][c] = wrote[q][c]
        BY <2>1, <2>4 DEF SinkIo, SinkState
      <3>2. /\ DataWaits(p, c)' = DataWaits(p, c) /\ ~Writing(p, c)'
            /\ \/ Acking(p, c)' /\ Writing(p, c) /\ wrote'[q][c] = wrote[q][c] + 1
               \/ ~Acking(p, c)' /\ wrote'[q][c] = wrote[q][c]
        BY <2>4, <3>1 DEF DataWaits, Writing, Acking
      <3>3. Goal
        BY <1>2, <1>5, <3>2 DEF Loaded, Acked
      <3> QED
        BY <1>0a, <3>3
    <2> QED
      BY <1>5, <2>2, <2>3, <2>4 DEF SinkTurn
  <1>6. CASE SourceTold(p, c) /\ SameSink(q, c)
    <2>1. AckWaits(p, c)' => AckWaits(p, c) \/ AckUnderWay(p, c)
      <3>1. CASE LET m == Head(path[q]) IN
                 /\ Receive(p) /\ m \in ForSources /\ m.id = c /\ ActionOf(m) \in SinkAction
                 /\ srcRx'[p][c] = Append(srcRx[p][c], ActionOf(m))
        <4> DEFINE m == Head(path[q])
                   a == ActionOf(m)
        <4>1. FirstOf(m, path[q], path'[q])
          BY <1>0, <3>1, ReceiveFacts
        <4>2. m \in ForSources /\ m.id = c /\ a \in SinkAction
              /\ srcRx'[p][c] = Append(srcRx[p][c], a)
          BY <3>1
        <4> HIDE DEF m
        <4>3. a = Ack => m \in AckOf(c)
          BY <4>2 DEF ActionOf, Ack, AckOf, ForSources
        <4> HIDE DEF a
        <4>4. m \in AckOf(c) => AckUnderWay(p, c)
          BY <4>1 DEF FirstOf, AckUnderWay
        <4>5. Has(srcRx'[p][c], {Ack}) => AckWaits(p, c) \/ a = Ack
          BY <1>0, <4>2, AckChannel
        <4> QED
          BY <4>3, <4>4, <4>5 DEF AckWaits
      <3>2. CASE srcRx'[p][c] = Append(srcRx[p][c], SinkClosed)
        <4>1. SinkClosed \in SinkAction /\ SinkClosed # Ack
          BY DEF SinkClosed, SinkAction, Ack
        <4>2. Has(srcRx'[p][c], {Ack}) => AckWaits(p, c) \/ SinkClosed = Ack
          BY <1>0, <3>2, <4>1, AckChannel
        <4> QED
          BY <4>1, <4>2 DEF AckWaits
      <3> QED
        BY <1>6, <3>1, <3>2 DEF SourceTold
    <2>2. Goal
      BY <1>3, <1>6, <2>1 DEF Loaded, Acked
    <2> QED
      BY <1>0a, <2>2
  <1>7. CASE SinkTold(q, c) /\ SameSource(p, c)
    <2>0. /\ Writing(p, c)' = Writing(p, c) /\ Acking(p, c)' = Acking(p, c)
          /\ wrote'[q][c] = wrote[q][c]
      BY <1>7 DEF SinkTold, Writing, Acking
    <2>1. DataWaits(p, c)' => DataWaits(p, c) \/ DataUnderWay(p, c)
      <3>1. CASE LET m == Head(path[Peer(q)]) IN
                 /\ Receive(q) /\ m \in ForSinks /\ m.id = c /\ ActionOf(m) \in SourceAction
                 /\ snkRx'[q][c] = Append(snkRx[q][c], ActionOf(m))
        <4> DEFINE m == Head(path[p])
        <4>1. FirstOf(m, path[p], path'[p])
          BY <1>0, <3>1, ReceiveFacts
        <4>2. /\ m \in ForSinks /\ m.id = c /\ ActionOf(m) \in SourceAction
              /\ snkRx'[q][c] = Append(snkRx[q][c], ActionOf(m))
          BY <1>0, <3>1
        <4> HIDE DEF m
        <4>3. ActionOf(m) \in Datas => m \in DataOf(c)
          BY <4>2 DEF ActionOf, Datas, DataOf, ForSinks
        <4>4. m \in DataOf(c) => DataUnderWay(p, c)
          BY <4>1 DEF FirstOf, DataUnderWay
        <4> QED
          BY <1>0, <4>2, <4>3, <4>4, ChannelFacts DEF DataWaits
      <3>2. CASE snkRx'[q][c] = Append(snkRx[q][c], SourceClosed)
        <4>1. SourceClosed \in SourceAction /\ SourceClosed \notin Datas
          BY DEF SourceClosed, SourceAction, Datas
        <4> QED
          BY <1>0, <3>2, <4>1, ChannelFacts DEF DataWaits
      <3> QED
        BY <1>7, <3>1, <3>2 DEF SinkTold
    <2>2. Goal
      BY <1>2, <1>7, <2>0, <2>1 DEF Loaded, Acked
    <2> QED
      BY <1>0a, <2>2
  <1>8. CASE (SameSource(p, c) \/ srcRx'[p][c] = srcRx[p][c]) /\ SameSink(q, c)
    <2>1. Goal
      BY <1>2, <1>3, <1>8 DEF Loaded, Acked
    <2> QED
      BY <1>0a, <2>1
  <1>9. CASE /\ snk'[q][c] = SinkNew /\ snkRx'[q][c] = snkRx[q][c]
             /\ wrote'[q][c] = wrote[q][c] /\ SameSource(p, c)
    <2>1. DataWaits(p, c)' = DataWaits(p, c) /\ ~Writing(p, c)' /\ ~Acking(p, c)'
      BY <1>9 DEF DataWaits, Writing, Acking, SinkNew
    <2>2. Goal
      BY <1>2, <1>9, <2>1 DEF Loaded, Acked
    <2> QED
      BY <1>0a, <2>2
  <1> QED
    BY <1>1, <1>4, <1>5, <1>6, <1>7, <1>8, <1>9 DEF StreamTurn

-----------------------------------------------------------------------------
(* Why a source stops: the reader of the output is gone, or the side has       *)
(* closed its tasks.                                                       *)

Closed(p, c) == snk[Peer(p)][c].closed
Cut(p) == receiver[p].pc \in {"shutdown", "closed"}

Cause(p, c) ==
    /\ Has(path[Peer(p)], SinkClosedOf(c)) => Closed(p, c)
    /\ snk[Peer(p)][c].pc = "notify" => Closed(p, c)
    /\ ClosedWaits(p, c) => Closed(p, c) \/ Cut(p)

\* A sink that knows its output as closed does not forget it, and says so only then.
LEMMA ClosedStays ==
    ASSUME Types, Requested, [Next]_vars, NEW p \in Sides, NEW c \in Conns
    PROVE  /\ Closed(p, c) => Closed(p, c)'
           /\ snk'[Peer(p)][c].pc = "notify" =>
                Closed(p, c)' \/ (snk[Peer(p)][c].pc = "notify" /\ ~Closed(p, c))
  <1> DEFINE q == Peer(p)
             k == snk[q][c]
             l == snk'[q][c]
  <1>0. q \in Sides /\ Peer(q) = p /\ TaskTypes
    BY SideFacts DEF Types
  <1>1. StreamTurn(p, c)
    BY <1>0, TaskSteps
  <1>2. CASE l = k
    BY <1>2 DEF Closed
  <1>3. CASE SinkTurn(q, c)
    <2>1. k \in SinkState
      BY <1>0, <1>3, TaskStates DEF SinkTurn, SinkSending
    <2>2. \/ \E a : l = SinkRecv(k, a)
          \/ l = SinkRecvNone(k) \/ l = SinkSent(k) \/ l = SinkShutdown(k)
          \/ \E res : l = SinkIo(k, res)
      BY <1>3 DEF SinkTurn
    <2>3. (k.closed => l.closed) /\ (l.pc = "notify" => l.closed \/ (k.pc = "notify" /\ ~k.closed))
      <3>1. ASSUME NEW a, l = SinkRecv(k, a)
            PROVE  (k.closed => l.closed) /\ (l.pc = "notify" => l.closed)
        BY <2>1, <3>1 DEF SinkRecv, SinkState
      <3>2. ASSUME NEW res, l = SinkIo(k, res)
            PROVE  (k.closed => l.closed) /\ (l.pc = "notify" => l.closed)
        BY <2>1, <3>2 DEF SinkIo, SinkState
      <3>3. CASE l = SinkRecvNone(k) \/ l = SinkSent(k) \/ l = SinkShutdown(k)
        BY <2>1, <3>3 DEF SinkRecvNone, SinkSent, SinkShutdown, SinkState
      <3> QED
        BY <2>2, <3>1, <3>2, <3>3
    <2> QED
      BY <2>3 DEF Closed
  <1>4. CASE StartsAt(q, c) /\ l = SinkNew
    <2>1. k = NoSink
      BY <1>0, <1>4, StartsFresh
    <2> QED
      BY <1>4, <2>1 DEF Closed, NoSink, SinkNew
  <1> QED
    BY <1>1, <1>2, <1>3, <1>4 DEF StreamTurn, SameSink, SinkTold

\* A side that has closed its tasks has done so for good; so has one that failed.
LEMMA CutStays ==
    ASSUME Types, [Next]_vars, NEW p \in Sides
    PROVE  /\ Cut(p) => Cut(p)'
           /\ receiver[p].pc = "failed" => receiver'[p].pc = "failed"
  <1>1. ReceiverTurn(p)
    BY EndSteps
  <1> QED
    BY <1>1 DEF ReceiverTurn, Cut

LEMMA CauseNext ==
    ASSUME Types, Requested, [Next]_vars, NEW p \in Sides, NEW c \in Conns, Cause(p, c)
    PROVE  Cause(p, c)'
  <1> DEFINE q == Peer(p)
  <1>0. /\ q \in Sides /\ Peer(q) = p /\ TaskTypes /\ WayTypes
        /\ srcRx[p][c] \in Seq(SinkAction) /\ Len(srcRx[p][c]) <= ChanCap
    <2>1. q \in Sides /\ Peer(q) = p /\ TaskTypes /\ WayTypes
      BY SideFacts DEF Types
    <2> QED
      BY <2>1 DEF TaskTypes
  <1>1. StreamTurn(p, c)
    BY <1>0, TaskSteps
  <1>2. /\ Closed(p, c) => Closed(p, c)'
        /\ Cut(p) => Cut(p)'
        /\ snk'[q][c].pc = "notify" => Closed(p, c)'
    BY ClosedStays, CutStays DEF Cause
  <1>3. Has(path'[q], SinkClosedOf(c)) => Closed(p, c)'
    BY <1>2, TokenWay DEF Cause
  <1>4. ClosedWaits(p, c)' => Closed(p, c)' \/ Cut(p)'
    <2>1. ClosedWaits(p, c)' => ClosedWaits(p, c) \/ Closed(p, c) \/ Cut(p)
      <3>1. CASE srcRx'[p][c] = srcRx[p][c]
        BY <3>1 DEF ClosedWaits
      <3>2. CASE srcRx[p][c] # <<>> /\ srcRx'[p][c] = Tail(srcRx[p][c])
        <4>1. Tail(srcRx[p][c]) = <<>>
          BY <1>0, <3>2, OneInChannel
        <4> QED
          BY <3>2, <4>1, EmptyOrder DEF ClosedWaits
      <3>3. CASE LET m == Head(path[q]) IN
                 /\ Receive(p) /\ m \in ForSources /\ m.id = c /\ ActionOf(m) \in SinkAction
                 /\ srcRx'[p][c] = Append(srcRx[p][c], ActionOf(m))
        <4> DEFINE m == Head(path[q])
                   a == ActionOf(m)
        <4>1. FirstOf(m, path[q], path'[q])
          BY <1>0, <3>3, ReceiveFacts
        <4>2. m \in ForSources /\ m.id = c /\ a \in SinkAction
              /\ srcRx'[p][c] = Append(srcRx[p][c], a)
          BY <3>3
        <4> HIDE DEF m
        <4>3. a = SinkClosed => m \in SinkClosedOf(c)
          BY <4>2 DEF ActionOf, SinkClosed, SinkClosedOf, ForSources
        <4> HIDE DEF a
        <4>4. m \in SinkClosedOf(c) => Closed(p, c)
          BY <4>1 DEF FirstOf, Cause
        <4>5. Has(srcRx'[p][c], {SinkClosed}) => ClosedWaits(p, c) \/ a = SinkClosed
          BY <1>0, <4>2, AckChannel
        <4> QED
          BY <4>3, <4>4, <4>5 DEF ClosedWaits
      <3>4. CASE receiver[p].pc = "shutdown"
        BY <3>4 DEF Cut
      <3> QED
        BY <1>1, <3>1, <3>2, <3>3, <3>4 DEF StreamTurn, SameSource, SourceTurn, SourceTold
    <2> QED
      BY <1>2, <2>1 DEF Cause
  <1> QED
    BY <1>2, <1>3, <1>4 DEF Cause

-----------------------------------------------------------------------------
(* What has been read, and what has been written.                           *)

\* Unless the reader of the output is gone: a packet that is in a source's hands, or
\* under way as data, has been read and not been written; else all that has been read
\* has been written, as long as the source goes on or ends in good order.
Count(p, c) ==
    LET n == src[p][c].n
        w == wrote[Peer(p)][c]
    IN ~Closed(p, c) =>
         /\ src[p][c].pc = "send" \/ Loaded(p, c) => n = w + 1
         /\ src[p][c].pc \in {"none", "select"} \/ Acked(p, c) => n = w
         /\ n # w => src[p][c].pc \in {"send", "ack"} \/ Cut(p) \/ receiver[p].pc = "failed"

\* The receiver of a side whose tasks go on has not finished: its peer says that it
\* has when its own tasks have ended, which the server does when serve() is over.
LEMMA DroppedEarly ==
    ASSUME Types, Finish, NEW p \in Sides, RouterDropped(p), ~TxDropped(p)
    PROVE  receiver[p].pc \in {"closed", "failed"}
  <1>1. receiver[p].pc \in {"finished", "closed", "failed"}
    BY DEF RouterDropped, ReceiverEnded
  <1>3. sender[p] # "done"
    BY DEF Finish, FinishOf
  <1>4. CASE p = "client"
    <2>1. receiver["client"].pc = "finished" => receiver["server"].pc = "finished"
      BY DEF Finish, ServerFinish
    <2>2. receiver["server"].pc = "finished" => sender["client"] = "done"
      BY SideFacts DEF Finish, FinishOf, Peer
    <2> QED
      BY <1>1, <1>3, <1>4, <2>1, <2>2
  <1>5. CASE p = "server"
    <2>1. serve = "over"
      BY <1>5 DEF RouterDropped
    <2>2. receiver["server"].pc = "failed"
      BY <1>3, <1>5, <2>1 DEF Finish, ServerFinish
    <2> QED
      BY <1>5, <2>2
  <1> QED
    BY <1>4, <1>5, SideFacts

\* The packets that have been read are those that have been written, but for the one
\* under way.
LEMMA CountNext ==
    ASSUME Types, Requested, Finish, [Next]_vars, NEW p \in Sides, NEW c \in Conns,
           Token(p, c), Token(p, c)', Cause(p, c), Count(p, c)
    PROVE  Count(p, c)'
  <1> DEFINE q == Peer(p)
             t == src[p][c]
             u == src'[p][c]
             w == wrote[q][c]
             x == wrote'[q][c]
             Stopped == Cut(p) \/ receiver[p].pc = "failed"
             StoppedNext == Cut(p)' \/ receiver'[p].pc = "failed"
  <1>0. /\ q \in Sides /\ Peer(q) = p /\ TaskTypes
        /\ t.pc # "none" => t \in SourceState
        /\ t.n \in Nat /\ w \in Nat
    <2>1. q \in Sides /\ Peer(q) = p /\ TaskTypes
      BY SideFacts DEF Types
    <2>2. t.pc # "none" => t \in SourceState
      BY <2>1, TaskStates
    <2>3. t \in SourceState \cup {NoSource} /\ w \in Nat
      BY <2>1 DEF TaskTypes
    <2>4. t.n \in Nat
      BY <2>3 DEF SourceState, NoSource
    <2> QED
      BY <2>1, <2>2, <2>3, <2>4
  <1>1. /\ StreamTurn(p, c)
        /\ SourceSend(p, c) => u.pc # t.pc /\ SourceSending(t)
    BY <1>0, TaskSteps, SendersMove
  <1>2. /\ Loaded(p, c)' => Loaded(p, c) \/ (SourceSend(p, c) /\ t.pc = "send")
        /\ Acked(p, c)' => Acked(p, c) \/ (Loaded(p, c) /\ x = w + 1)
        /\ x = w \/ (Loaded(p, c) /\ Acked(p, c)' /\ x = w + 1)
    BY TokenMoves DEF Loaded, Acked
  <1>3. Stopped => StoppedNext
    BY CutStays
  <1> SUFFICES ASSUME ~Closed(p, c)'
               PROVE  /\ u.pc = "send" \/ Loaded(p, c)' => u.n = x + 1
                      /\ u.pc \in {"none", "select"} \/ Acked(p, c)' => u.n = x
                      /\ u.n # x => u.pc \in {"send", "ack"} \/ StoppedNext
    BY DEF Count
  <1>4. ~Closed(p, c)
    BY ClosedStays
  <1>5. /\ t.pc = "send" \/ Loaded(p, c) => t.n = w + 1
        /\ t.pc \in {"none", "select"} \/ Acked(p, c) => t.n = w
        /\ t.n # w => t.pc \in {"send", "ack"} \/ Stopped
    BY <1>4 DEF Count
  <1>6. /\ t.pc \in {"none", "select", "send"} => ~Loaded(p, c) /\ ~Acked(p, c)
        /\ ~(Loaded(p, c) /\ Acked(p, c)) /\ ~(Loaded(p, c)' /\ Acked(p, c)')
    BY DEF Token
  <1>7. CASE u = t
    BY <1>0, <1>1, <1>2, <1>3, <1>5, <1>6, <1>7
  <1>8. CASE SourceTurn(p, c) /\ SameSink(q, c)
    <2>0. t \in SourceState /\ x = w
      BY <1>0, <1>8 DEF SourceTurn, SourceSending, SourceListening, SameSink
    <2>1. CASE t.pc = "select" /\ (u = SourceRead(t) \/ u = SourceBreak(t))
      <3>1. (u.pc = "send" /\ u.n = t.n + 1) \/ (u.pc = "close" /\ u.n = t.n)
        BY <2>0, <2>1 DEF SourceRead, SourceBreak, SourceState
      <3> QED
        BY <1>0, <1>1, <1>2, <1>3, <1>5, <1>6, <2>0, <2>1, <3>1 DEF SourceSending
    <2>2. CASE SourceSending(t) /\ u = SourceSent(t)
      <3>1. /\ u.n = t.n
            /\ (t.pc = "send" /\ u.pc = "ack") \/ (t.pc = "close" /\ u.pc = "done")
        BY <2>0, <2>2 DEF SourceSending, SourceSent, SourceState
      <3> QED
        BY <1>0, <1>2, <1>3, <1>5, <1>6, <2>0, <3>1
    <2>3. CASE /\ SourceListening(t) /\ srcRx[p][c] # <<>>
               /\ u = SourceRecv(t, Head(srcRx[p][c]))
      <3> DEFINE h == Head(srcRx[p][c])
      <3>1. /\ srcRx[p][c] \in Seq(SinkAction) /\ Len(srcRx[p][c]) <= ChanCap
        BY <1>0 DEF TaskTypes
      <3>2. h \in SinkAction
        BY <2>3, <3>1, OneInChannel
      <3>3. (h = Ack => AckWaits(p, c)) /\ (h = SinkClosed => ClosedWaits(p, c))
        <4>1. \A C : Has(srcRx[p][c], C) <=> h \in C
          BY <2>3, <3>1, OneInChannel
        <4> QED
          BY <4>1 DEF AckWaits, ClosedWaits
      <3> HIDE DEF h
      <3>4. t.pc \in {"select", "ack"}
        BY <2>3 DEF SourceListening
      <3>5. CASE h = Ack
        <4>1. Acked(p, c) /\ t.pc = "ack"
          BY <1>6, <3>3, <3>4, <3>5 DEF Acked
        <4>2. u.pc = "select" /\ u.n = t.n
          BY <2>0, <2>3, <3>5, <4>1 DEF SourceRecv, SourceState, Ack, SinkClosed, h
        <4> QED
          BY <1>0, <1>2, <1>3, <1>5, <1>6, <2>0, <4>1, <4>2
      <3>6. CASE h = SinkClosed
        <4>1. Stopped
          BY <1>4, <3>3, <3>6 DEF Cause
        <4>2. u.pc = "close" /\ u.n = t.n
          BY <2>0, <2>3, <3>6 DEF SourceRecv, SourceState, Ack, SinkClosed, h
        <4> QED
          BY <1>0, <1>2, <1>3, <1>5, <1>6, <2>0, <3>4, <4>1, <4>2
      <3> QED
        BY <3>2, <3>5, <3>6 DEF SinkAction
    <2>4. CASE SourceListening(t) /\ RouterDropped(p) /\ u = SourceRecvNone(t)
      <3>1. Stopped
        <4>1. ~TxDropped(p)
          BY <2>4 DEF TxDropped, SourceListening, SourceOver, SourceEnded, NoSource
        <4> QED
          BY <2>4, <4>1, DroppedEarly DEF Cut
      <3>2. u.pc = "failed" /\ u.n = t.n /\ t.pc \in {"select", "ack"}
        BY <2>0, <2>4 DEF SourceRecvNone, SourceListening, SourceState
      <3> QED
        BY <1>0, <1>2, <1>3, <1>5, <1>6, <2>0, <3>1, <3>2
    <2> QED
      BY <1>8, <2>1, <2>2, <2>3, <2>4 DEF SourceTurn
  <1>9. CASE StartsAt(p, c) /\ u = SourceNew /\ SameSink(q, c)
    <2>1. t = NoSource /\ x = w
      BY <1>9, StartsFresh DEF SameSink
    <2>2. t.pc = "none" /\ t.n = 0 /\ u.pc = "select" /\ u.n = 0
      BY <1>9, <2>1 DEF NoSource, SourceNew
    <2> QED
      BY <1>0, <1>2, <1>3, <1>5, <1>6, <2>1, <2>2
  <1> QED
    BY <1>1, <1>7, <1>8, <1>9 DEF StreamTurn, SameSource, SourceTold

-----------------------------------------------------------------------------
(* What holds of a session with forwarded connections.                      *)

StreamInv(p, c) == Token(p, c) /\ Cause(p, c) /\ Count(p, c)

ForwardInv == Types /\ Requested /\ Finish /\ \A p \in Sides, c \in Conns : StreamInv(p, c)

LEMMA ForwardInit == Init => ForwardInv
  <1> SUFFICES ASSUME Init PROVE ForwardInv
    OBVIOUS
  <1>0. Types
    BY TypesInit
  <1>1. \A C, D : ~Has(<<>>, C) /\ NoneAfter(<<>>, C, D)
    BY EmptyOrder
  <1>2. /\ path["client"] = <<>> /\ path["server"] = <<>> /\ listenRx = <<>> /\ connRx = <<>>
        /\ \A sd \in Sides :
             /\ path[sd] = <<>> /\ receiver[sd].pc = "route" /\ sender[sd] = "run"
             /\ \A c \in Conns :
                  /\ src[sd][c] = NoSource /\ snk[sd][c] = NoSink
                  /\ srcRx[sd][c] = <<>> /\ snkRx[sd][c] = <<>> /\ wrote[sd][c] = 0
        /\ \A c \in Conns : dial[c] = "none"
        /\ listener.pc = "accept" /\ serve = "wait" /\ client = "status"
    BY SideFacts DEF Init
  <1>3. Requested
    <2>1. OneTold /\ Paired
      BY <1>2 DEF OneTold, Paired
    <2>2. ASSUME NEW c \in Conns PROVE RequestToken(c)
      BY <1>1, <1>2 DEF RequestToken, Asked, Queued, Dialing, Answered, Told
    <2>3. ASSUME NEW c \in Conns PROVE RequestResult(c)
      <3>1. ASSUME NEW ok \in BOOLEAN PROVE ToldResult(c, ok)
        BY <1>1, <1>2 DEF ToldResult
      <3>2. src["server"][c] = NoSource /\ src["client"][c] = NoSource /\ dial[c] = "none"
        BY <1>2, SideFacts
      <3>3. ~Has(path["client"], StreamOf(c))
        BY <1>1, <1>2
      <3> QED
        BY <3>1, <3>2, <3>3 DEF RequestResult, Spoken
    <2> QED
      BY <2>1, <2>2, <2>3 DEF Requested
  <1>4. Finish
    <2>1. Down
      BY <1>2 DEF Down
    <2>2. ServerFinish
      BY <1>1, <1>2, SideFacts DEF ServerFinish
    <2>3. ASSUME NEW sd \in Sides PROVE FinishOf(sd)
      BY <1>1, <1>2, SideFacts DEF FinishOf
    <2> QED
      BY <2>1, <2>2, <2>3 DEF Finish
  <1>5. ASSUME NEW p \in Sides, NEW c \in Conns PROVE StreamInv(p, c)
    <2>0. /\ path[p] = <<>> /\ path[Peer(p)] = <<>> /\ srcRx[p][c] = <<>>
          /\ snkRx[Peer(p)][c] = <<>> /\ snk[Peer(p)][c].pc = "none"
      BY <1>2, SideFacts DEF NoSink
    <2>1. ~Loaded(p, c)
      BY <1>1, <2>0 DEF Loaded, DataUnderWay, DataWaits, Writing
    <2>2. ~Acked(p, c)
      BY <1>1, <2>0 DEF Acked, Acking, AckUnderWay, AckWaits
    <2>3. src[p][c].pc = "none" /\ src[p][c].n = 0 /\ wrote[Peer(p)][c] = 0
      BY <1>2, SideFacts DEF NoSource
    <2>4. Token(p, c)
      BY <2>1, <2>2, <2>3 DEF Token, Loaded, Acked
    <2>5. Cause(p, c)
      BY <1>1, <2>0 DEF Cause, ClosedWaits
    <2>6. Count(p, c)
      BY <2>1, <2>3 DEF Count
    <2> QED
      BY <2>4, <2>5, <2>6 DEF StreamInv
  <1> QED
    BY <1>0, <1>3, <1>4, <1>5 DEF ForwardInv

LEMMA ForwardNext == ForwardInv /\ [Next]_vars => ForwardInv'
  <1> SUFFICES ASSUME ForwardInv, [Next]_vars PROVE ForwardInv'
    OBVIOUS
  <1>1. Types /\ Requested /\ Finish
    BY DEF ForwardInv
  <1>2. Types' /\ Requested' /\ Finish'
    BY <1>1, TypesNext, RequestNext, FinishNext
  <1>3. ASSUME NEW p \in Sides, NEW c \in Conns PROVE StreamInv(p, c)'
    <2>1. Token(p, c) /\ Cause(p, c) /\ Count(p, c)
      BY DEF ForwardInv, StreamInv
    <2>2. Token(p, c)'
      BY <1>1, <2>1, TokenNext
    <2>3. Cause(p, c)'
      BY <1>1, <2>1, CauseNext
    <2>4. Count(p, c)'
      BY <1>1, <2>1, <2>2, CountNext
    <2> QED
      BY <2>2, <2>3, <2>4 DEF StreamInv
  <1> QED
    BY <1>2, <1>3 DEF ForwardInv

LEMMA ForwardInvariant == Spec => []ForwardInv
  <1>1. Init => ForwardInv
    BY ForwardInit
  <1>2. ForwardInv /\ [Next]_vars => ForwardInv'
    BY ForwardNext
  <1> QED
    BY <1>1, <1>2, PTL DEF Spec

\* The tasks, the channels and the ways of a session with forwarded connections have
\* their types; no channel of a task holds more than one message, nor does that of
\* the listener, whose router entry is there for one answer.
THEOREM PortForwardTypeCorrect == Spec => []TypeOK
  <1>1. ForwardInv => TypeOK
    <2> SUFFICES ASSUME ForwardInv PROVE TypeOK
      OBVIOUS
    <2>1. PortTypes /\ TaskTypes /\ EndTypes /\ OneTold
      BY DEF ForwardInv, Types, Requested
    <2>2. ASSUME NEW sd \in Sides, NEW c \in Conns
          PROVE  /\ src[sd][c] \in SourceState \cup {NoSource}
                 /\ snk[sd][c] \in SinkState \cup {NoSink}
                 /\ Len(srcRx[sd][c]) <= ChanCap /\ Len(snkRx[sd][c]) <= ChanCap
      BY <2>1 DEF TaskTypes
    <2>3. \A sd \in Sides :
            receiver[sd].pc \in {"route", "shutdown", "finished", "closed", "failed"}
      BY <2>1 DEF EndTypes, ReceiverState
    <2>4. /\ listener.pc \in {"accept", "request", "response", "close", "done"}
          /\ listener.conn \in 1..MaxConns + 1
          /\ connecter \in {"recv", "done"}
          /\ dial \in [Conns -> {"none", "connect", "ok", "err", "open", "refused"}]
      BY <2>1 DEF PortTypes
    <2> QED
      BY <2>1, <2>2, <2>3, <2>4 DEF TypeOK, OneTold, EndTypes
  <1> QED
    BY <1>1, ForwardInvariant, PTL

\* When a session has ended in good order, both sides have the same forwarded
\* connections, and each direction of each has carried all that was read, unless the
\* reader of the output went away: however many connections there were, whatever each
\* carried, and in whatever order they shared the way.
THEOREM ForwardedInFullCorrect == Spec => []ForwardedInFull
  <1>1. ForwardInv => ForwardedInFull
    <2> SUFFICES ASSUME ForwardInv, receiver["client"].pc = "finished", NEW c \in Conns
                 PROVE  /\ (dial[c] = "open") = (src["client"][c] # NoSource)
                        /\ \A sd \in Sides :
                             snk[sd][c].closed \/ wrote[sd][c] = src[Peer(sd)][c].n
      BY DEF ForwardedInFull
    <2>1. Requested /\ ServerFinish /\ \A sd \in Sides : FinishOf(sd)
      BY DEF ForwardInv, Finish
    <2>2. receiver["server"].pc = "finished"
      BY <2>1 DEF ServerFinish
    <2>3. sender["client"] = "done" /\ sender["server"] = "done"
      BY <2>1, <2>2, SideFacts DEF FinishOf, Peer
    <2>4. TxDropped("client") /\ TxDropped("server")
      BY <2>1, <2>3, SideFacts DEF FinishOf
    <2>5. dial[c] = "open" <=> src["client"][c] # NoSource
      <3>1. ~Waiting(c)
        BY <2>4 DEF TxDropped, Waiting
      <3>2. RequestResult(c)
        BY <2>1 DEF Requested
      <3> QED
        BY <3>1, <3>2 DEF RequestResult, Spoken
    <2>6. ASSUME NEW sd \in Sides
          PROVE  snk[sd][c].closed \/ wrote[sd][c] = src[Peer(sd)][c].n
      <3> DEFINE p == Peer(sd)
      <3>1. p \in Sides /\ Peer(p) = sd /\ TxDropped(p) /\ receiver[p].pc = "finished"
        BY <2>2, <2>4, SideFacts
      <3>2. Count(p, c)
        BY <3>1 DEF ForwardInv, StreamInv
      <3>3. src[p][c].pc \in {"none", "done", "failed", "panicked"}
        BY <3>1 DEF TxDropped, SourceOver, SourceEnded, NoSource
      <3>4. ~Cut(p) /\ receiver[p].pc # "failed" /\ src[p][c].pc \notin {"send", "ack"}
        BY <3>1, <3>3 DEF Cut
      <3>5. Closed(p, c) <=> snk[sd][c].closed
        BY <3>1 DEF Closed
      <3>6. Closed(p, c) \/ src[p][c].n = wrote[Peer(p)][c]
        BY <3>2, <3>4 DEF Count
      <3> QED
        BY <3>1, <3>5, <3>6
    <2> QED
      BY <2>5, <2>6
  <1> QED
    BY <1>1, ForwardInvariant, PTL

-----------------------------------------------------------------------------
(* The end of a stream, and of the listener, is the last that is said of it.  *)

CloseOf(c) == [id : {c}, act : {"SourceClosed"}, n : Nat]
Closes == [act : {"SourceClosed"}, n : Nat]
ForSinkOf(c) == [id : {c}, act : {"Data", "SourceClosed"}, n : Nat]

\* The sink of a stream has been told of its end.
CloseWaits(p, c) == Has(snkRx[Peer(p)][c], Closes)
Closing(p, c) == snk[Peer(p)][c].pc \in {"shutdown", "done"} \/ CloseWaits(p, c)

CloseOrder(p, c) ==
    /\ NoneAfter(path[p], CloseOf(c), ForSinkOf(c))
    /\ Has(path[p], CloseOf(c)) => src[p][c].pc = "done"
    /\ Closing(p, c) /\ receiver[Peer(p)].pc = "route" =>
         src[p][c].pc = "done" /\ ~Has(path[p], ForSinkOf(c))

\* The connecter has been told of the end of the listener.
EndWaits == Has(connRx, {ListenerClosed})

ListenerOrder ==
    /\ NoneAfter(path["client"], {ListenerClosed}, Requests)
    /\ Has(path["client"], {ListenerClosed}) => listener.pc = "done"
    /\ (EndWaits \/ connecter = "done") /\ receiver["server"].pc = "route" =>
         listener.pc = "done" /\ ~Has(path["client"], Requests)

\* A receiver that routes has done nothing else before.
LEMMA RouteStays ==
    ASSUME Types, [Next]_vars, NEW sd \in Sides, receiver'[sd].pc = "route"
    PROVE  receiver[sd].pc = "route" /\ receiver'[sd] = receiver[sd]
  <1>1. ReceiverTurn(sd)
    BY EndSteps
  <1> QED
    BY <1>1 DEF ReceiverTurn

\* A source that has closed its stream is silent.
LEMMA SourceDoneStays ==
    ASSUME Types, Requested, [Next]_vars, NEW p \in Sides, NEW c \in Conns,
           src[p][c].pc = "done"
    PROVE  src'[p][c].pc = "done" /\ ~SourceSend(p, c)
  <1>1. StreamTurn(p, c)
    BY TaskSteps
  <1>2. ~SourceTurn(p, c) /\ ~SourceSend(p, c)
    BY DEF SourceTurn, SourceSend, SourceSending, SourceListening
  <1>3. ~StartsAt(p, c)
    BY StartsFresh DEF NoSource
  <1> QED
    BY <1>1, <1>2, <1>3 DEF StreamTurn, SameSource, SourceTold

\* A message of a stream is put on the way by its source.
LEMMA CloseWay ==
    ASSUME Types, [Next]_vars, NEW p \in Sides, NEW c \in Conns
    PROVE  /\ Has(path'[p], ForSinkOf(c)) => Has(path[p], ForSinkOf(c)) \/ SourceSend(p, c)
           /\ Has(path'[p], CloseOf(c)) =>
                Has(path[p], CloseOf(c)) \/ (SourceSend(p, c) /\ src[p][c].pc = "close")
           /\ NoneAfter(path[p], CloseOf(c), ForSinkOf(c)) =>
                \/ NoneAfter(path'[p], CloseOf(c), ForSinkOf(c))
                \/ Has(path[p], CloseOf(c)) /\ SourceSend(p, c)
  <1> DEFINE C == CloseOf(c)
             F == ForSinkOf(c)
  <1>1. \A m \in C : Adds(p, m) => SourceSend(p, c) /\ src[p][c].pc = "close"
    <2>1. \A m \in C : m.id = c /\ m.act = "SourceClosed"
      BY DEF CloseOf
    <2> HIDE DEF C
    <2> QED
      BY <2>1, AddsFacts
  <1>2. \A m \in F : Adds(p, m) => SourceSend(p, c)
    <2>1. \A m \in F : m.id = c /\ m.act \in {"Data", "SourceClosed"}
      BY DEF ForSinkOf
    <2> HIDE DEF F
    <2> QED
      BY <2>1, AddsFacts
  <1> HIDE DEF C, F
  <1>3. /\ Has(path'[p], F) => Has(path[p], F) \/ SourceSend(p, c)
        /\ Has(path'[p], C) => Has(path[p], C) \/ (SourceSend(p, c) /\ src[p][c].pc = "close")
        /\ NoneAfter(path[p], C, F) =>
             NoneAfter(path'[p], C, F) \/ (Has(path[p], C) /\ SourceSend(p, c))
    BY <1>1, <1>2, WayChanges
  <1> QED
    BY <1>3 DEF C, F

\* Nothing follows the close of a stream, and its sink ends only then.
LEMMA CloseNext ==
    ASSUME Types, Requested, [Next]_vars, NEW p \in Sides, NEW c \in Conns, CloseOrder(p, c)
    PROVE  CloseOrder(p, c)'
  <1> DEFINE q == Peer(p)
             k == snk[q][c]
  <1>0. /\ q \in Sides /\ Peer(q) = p /\ TaskTypes /\ WayTypes
        /\ snkRx[q][c] \in Seq(SourceAction) /\ Len(snkRx[q][c]) <= ChanCap
        /\ src[p][c].pc # "none" => src[p][c] \in SourceState
    <2>1. q \in Sides /\ Peer(q) = p /\ TaskTypes /\ WayTypes
      BY SideFacts DEF Types
    <2>2. src[p][c].pc # "none" => src[p][c] \in SourceState
      BY <2>1, TaskStates
    <2> HIDE DEF q
    <2>3. snkRx[q][c] \in Seq(SourceAction) /\ Len(snkRx[q][c]) <= ChanCap
      BY <2>1 DEF TaskTypes
    <2> QED
      BY <2>1, <2>2, <2>3
  <1>1. StreamTurn(p, c)
    BY <1>0, TaskSteps
  <1>2. NoneAfter(path'[p], CloseOf(c), ForSinkOf(c))
    BY CloseWay, SourceDoneStays DEF CloseOrder
  <1>3. Has(path'[p], CloseOf(c)) => src'[p][c].pc = "done"
    <2>1. ASSUME SourceSend(p, c), src[p][c].pc = "close"
          PROVE  src'[p][c].pc = "done"
      <3>1. src'[p][c] = SourceSent(src[p][c])
        BY <1>0, <2>1 DEF SourceSend, TaskTypes
      <3> QED
        BY <1>0, <2>1, <3>1 DEF SourceSent, SourceState
    <2> QED
      BY <2>1, CloseWay, SourceDoneStays DEF CloseOrder
  <1>4. ASSUME Closing(p, c)', receiver'[q].pc = "route"
        PROVE  src'[p][c].pc = "done" /\ ~Has(path'[p], ForSinkOf(c))
    <2>0. receiver[q].pc = "route"
      BY <1>0, <1>4, RouteStays
    <2>1. CASE Closing(p, c)
      <3>1. src[p][c].pc = "done" /\ ~Has(path[p], ForSinkOf(c))
        BY <2>0, <2>1 DEF CloseOrder
      <3> QED
        BY <3>1, CloseWay, SourceDoneStays
    <2>2. CASE LET m == Head(path[Peer(q)]) IN
               /\ Receive(q) /\ m \in ForSinks /\ m.id = c /\ ActionOf(m) \in SourceAction
               /\ snkRx'[q][c] = Append(snkRx[q][c], ActionOf(m))
               /\ snk'[q][c] = snk[q][c]
      <3> DEFINE m == Head(path[p])
                 a == ActionOf(m)
      <3>1. FirstOf(m, path[p], path'[p])
        BY <1>0, <2>2, ReceiveFacts
      <3>2. /\ m \in ForSinks /\ m.id = c /\ a \in SourceAction
            /\ snkRx'[q][c] = Append(snkRx[q][c], a)
        BY <1>0, <2>2
      <3> HIDE DEF m
      <3>3. a \in Closes => m \in CloseOf(c)
        BY <3>2 DEF ActionOf, Closes, CloseOf, ForSinks
      <3> HIDE DEF a
      <3>4. CloseWaits(p, c)' => CloseWaits(p, c) \/ a \in Closes
        BY <1>0, <3>2, ChannelFacts DEF CloseWaits
      <3>5. Closing(p, c) \/ m \in CloseOf(c)
        BY <1>4, <2>2, <3>3, <3>4 DEF Closing
      <3>6. CASE m \in CloseOf(c)
        <4>1. Has(path[p], CloseOf(c)) /\ ~Has(path'[p], ForSinkOf(c))
          BY <3>1, <3>6 DEF FirstOf, CloseOrder
        <4>2. src[p][c].pc = "done"
          BY <4>1 DEF CloseOrder
        <4> QED
          BY <4>1, <4>2, SourceDoneStays
      <3> QED
        BY <2>1, <3>5, <3>6
    <2>3. CASE SinkTurn(q, c)
      <3>0. k \in SinkState
        BY <1>0, <2>3, TaskStates DEF SinkTurn, SinkSending
      <3>1. CASE /\ k.pc = "recv" /\ snkRx[q][c] # <<>>
                 /\ snk'[q][c] = SinkRecv(k, Head(snkRx[q][c]))
                 /\ snkRx'[q][c] = Tail(snkRx[q][c])
        <4> DEFINE h == Head(snkRx[q][c])
        <4>1. h \in SourceAction /\ Tail(snkRx[q][c]) = <<>> /\ (CloseWaits(p, c) <=> h \in Closes)
          BY <1>0, <3>1, OneInChannel DEF CloseWaits
        <4> HIDE DEF h
        <4>2. ~CloseWaits(p, c)'
          BY <3>1, <4>1, EmptyOrder DEF CloseWaits
        <4>3. snk'[q][c].pc \in {"shutdown", "done"} => h.act = "SourceClosed"
          BY <3>0, <3>1 DEF SinkRecv, SinkState, h
        <4>4. h.act = "SourceClosed" => h \in Closes
          BY <4>1 DEF SourceAction, Closes
        <4>5. Closing(p, c)
          BY <1>4, <4>1, <4>2, <4>3, <4>4 DEF Closing
        <4> QED
          BY <2>1, <4>5
      <3>2. CASE RouterDropped(q)
        BY <2>0, <3>2 DEF RouterDropped, ReceiverEnded
      <3>3. CASE /\ snkRx'[q][c] = snkRx[q][c]
                 /\ \/ \E res : snk'[q][c] = SinkIo(k, res) /\ k.pc \in {"write", "flush"}
                    \/ SinkSending(k) /\ snk'[q][c] = SinkSent(k)
        <4>1. snk'[q][c].pc \notin {"shutdown", "done"}
          BY <3>0, <3>3 DEF SinkIo, SinkSending, SinkSent, SinkState
        <4>2. CloseWaits(p, c)' = CloseWaits(p, c)
          BY <3>3 DEF CloseWaits
        <4> QED
          BY <1>4, <2>1, <4>1, <4>2 DEF Closing
      <3>4. CASE k.pc = "shutdown"
        BY <2>1, <3>4 DEF Closing
      <3> QED
        BY <2>3, <3>1, <3>2, <3>3, <3>4 DEF SinkTurn
    <2>4. CASE snkRx'[q][c] = snkRx[q][c] /\ (snk'[q][c] = snk[q][c] \/ snk'[q][c] = SinkNew)
      <3>1. CloseWaits(p, c)' = CloseWaits(p, c)
        BY <2>4 DEF CloseWaits
      <3>2. SinkNew.pc = "recv"
        BY DEF SinkNew
      <3> QED
        BY <1>4, <2>1, <2>4, <3>1, <3>2 DEF Closing
    <2> QED
      BY <1>1, <2>0, <2>2, <2>3, <2>4 DEF StreamTurn, SameSink, SinkTold
  <1> QED
    BY <1>2, <1>3, <1>4 DEF CloseOrder

\* A listener that has gone is silent.
LEMMA ListenerDoneStays ==
    ASSUME Types, [Next]_vars, listener.pc = "done"
    PROVE  listener'.pc = "done" /\ ~ListenerRequest /\ ~ListenerClose
  <1>1. PortTurn
    BY PortSteps
  <1>2. ~(\/ ListenerAccept \/ ListenerAcceptFails \/ ListenerEnd
          \/ ListenerRequest \/ ListenerResponse \/ ListenerClose)
    BY DEF ListenerAccept, ListenerAcceptFails, ListenerEnd, ListenerRequest,
           ListenerResponse, ListenerClose
  <1>3. listener' = listener
    BY <1>1, <1>2 DEF PortTurn, portVars, ConnecterRecv, ConnecterNone, Dialed, DialReply,
           ConnecterTold, ListenerTold
  <1> QED
    BY <1>2, <1>3

\* A request, or the end of the requests, is put on the way by the listener.
LEMMA ListenerWay ==
    ASSUME Types, [Next]_vars
    PROVE  /\ Has(path'["client"], Requests) =>
                Has(path["client"], Requests) \/ ListenerRequest \/ ListenerClose
           /\ Has(path'["client"], {ListenerClosed}) =>
                Has(path["client"], {ListenerClosed}) \/ ListenerClose
           /\ NoneAfter(path["client"], {ListenerClosed}, Requests) =>
                \/ NoneAfter(path'["client"], {ListenerClosed}, Requests)
                \/ Has(path["client"], {ListenerClosed}) /\ (ListenerRequest \/ ListenerClose)
  <1> DEFINE C == {ListenerClosed}
             R == Requests
  <1>0. "client" \in Sides
    BY SideFacts
  <1>1. \A m \in C : Adds("client", m) => ListenerClose
    <2>1. \A m \in C : m.act = "ListenerClosed"
      BY DEF ListenerClosed
    <2> HIDE DEF C
    <2> QED
      BY <1>0, <2>1, AddsFacts
  <1>2. \A m \in R : Adds("client", m) => ListenerRequest \/ ListenerClose
    <2>1. \A m \in R : m.act \in {"Connect", "ListenerClosed"}
      BY DEF Requests, Connect, ListenerClosed
    <2> HIDE DEF R
    <2> QED
      BY <1>0, <2>1, AddsFacts
  <1> HIDE DEF C, R
  <1>3. /\ Has(path'["client"], R) => Has(path["client"], R) \/ ListenerRequest \/ ListenerClose
        /\ Has(path'["client"], C) => Has(path["client"], C) \/ ListenerClose
        /\ NoneAfter(path["client"], C, R) =>
             \/ NoneAfter(path'["client"], C, R)
             \/ Has(path["client"], C) /\ (ListenerRequest \/ ListenerClose)
    BY <1>0, <1>1, <1>2, WayChanges
  <1> QED
    BY <1>3 DEF C, R

\* The connecter ends when it has been told that no more requests come.
LEMMA ListenerNext == Types /\ ListenerOrder /\ [Next]_vars => ListenerOrder'
  <1> SUFFICES ASSUME Types, ListenerOrder, [Next]_vars PROVE ListenerOrder'
    OBVIOUS
  <1>0. PortTypes /\ WayTypes /\ PortTurn /\ "server" \in Sides /\ Peer("server") = "client"
    BY PortSteps, SideFacts DEF Types, Peer
  <1>1. NoneAfter(path'["client"], {ListenerClosed}, Requests)
    BY ListenerWay, ListenerDoneStays DEF ListenerOrder
  <1>2. Has(path'["client"], {ListenerClosed}) => listener'.pc = "done"
    <2>1. ListenerClose => listener'.pc = "done"
      BY <1>0 DEF ListenerClose, PortTypes
    <2> QED
      BY <2>1, ListenerWay, ListenerDoneStays DEF ListenerOrder
  <1>3. ASSUME EndWaits' \/ connecter' = "done", receiver'["server"].pc = "route"
        PROVE  listener'.pc = "done" /\ ~Has(path'["client"], Requests)
    <2>0. receiver["server"].pc = "route"
      BY <1>0, <1>3, RouteStays
    <2>1. CASE EndWaits \/ connecter = "done"
      <3>1. listener.pc = "done" /\ ~Has(path["client"], Requests)
        BY <2>0, <2>1 DEF ListenerOrder
      <3> QED
        BY <3>1, ListenerWay, ListenerDoneStays
    <2>2. CASE ConnecterTold
      <3> DEFINE m == Head(path["client"])
                 C == {ListenerClosed}
      <3>1. FirstOf(m, path["client"], path'["client"])
        BY <1>0, <2>2, ReceiveFacts DEF ConnecterTold
      <3>2. m \in Requests /\ connRx' = Append(connRx, m) /\ connecter' = connecter
        BY <2>2 DEF ConnecterTold
      <3>3. connRx \in Seq(Requests)
        BY <1>0 DEF PortTypes
      <3> HIDE DEF m, C
      <3>4. Appended(connRx', connRx, m)
        BY <3>2 DEF Appended
      <3>5. Has(connRx', C) <=> Has(connRx, C) \/ m \in C
        BY <3>2, <3>3, <3>4, AppendOrder
      <3>6. CASE m \in C
        <4>1. NoneAfter(path["client"], C, Requests) /\
              (Has(path["client"], C) => listener.pc = "done")
          BY DEF ListenerOrder, C
        <4>2. listener.pc = "done" /\ ~Has(path'["client"], Requests)
          BY <3>1, <3>6, <4>1 DEF FirstOf
        <4> QED
          BY <4>2, ListenerDoneStays
      <3> QED
        BY <1>3, <2>1, <3>2, <3>5, <3>6 DEF EndWaits, C
    <2>3. CASE ConnecterRecv
      <3> DEFINE m == Head(connRx)
                 C == {ListenerClosed}
      <3>1. /\ connRx # <<>> /\ connRx' = Tail(connRx) /\ connRx \in Seq(Requests)
            /\ connecter' = connecter \/ m.act = "ListenerClosed"
        BY <1>0, <2>3 DEF ConnecterRecv, PortTypes
      <3>2. m \in Requests /\ Taken(connRx, m, connRx') /\ connRx' \in Seq(Requests)
        BY <3>1, TailFacts, HeadFirst
      <3> HIDE DEF m
      <3>3. m.act = "ListenerClosed" => m \in C
        BY <3>2 DEF Requests, Connect, C
      <3> HIDE DEF C
      <3>4. Has(connRx, C) <=> m \in C \/ Has(connRx', C)
        BY <3>2, TakenOrder
      <3> QED
        BY <1>3, <2>1, <3>1, <3>3, <3>4 DEF EndWaits, C
    <2>4. CASE ConnecterNone
      BY <2>0, <2>4 DEF ConnecterNone
    <2>5. CASE connRx' = connRx /\ connecter' = connecter
      BY <1>3, <2>1, <2>5 DEF EndWaits
    <2> QED
      BY <1>0, <2>2, <2>3, <2>4, <2>5
         DEF PortTurn, portVars, ListenerAccept, ListenerAcceptFails, ListenerEnd, ListenerRequest,
             ListenerResponse, ListenerClose, Dialed, DialReply, ListenerTold
  <1> QED
    BY <1>1, <1>2, <1>3 DEF ListenerOrder

-----------------------------------------------------------------------------
(* Why a receiver survives.                                                *)

\* Writes succeed or find the pipe broken, so that no sink fails.
NoFailedSink == \A sd \in Sides, c \in Conns : snk[sd][c].pc # "failed"

LEMMA NoFailedNext ==
    "other" \notin WriteResults => (Types /\ NoFailedSink /\ [Next]_vars => NoFailedSink')
  <1> SUFFICES ASSUME "other" \notin WriteResults, Types, NoFailedSink, [Next]_vars,
                      NEW q \in Sides, NEW c \in Conns
               PROVE  snk'[q][c].pc # "failed"
    BY DEF NoFailedSink
  <1> DEFINE k == snk[q][c]
  <1>0. Peer(q) \in Sides /\ Peer(Peer(q)) = q /\ TaskTypes /\ k.pc # "failed"
    BY SideFacts DEF Types, NoFailedSink
  <1>1. StreamTurn(Peer(q), c)
    BY <1>0, TaskSteps
  <1>2. CASE SinkTurn(q, c)
    <2>0. k \in SinkState
      BY <1>0, <1>2, TaskStates DEF SinkTurn, SinkSending
    <2>1. ASSUME NEW res \in WriteResults, snk'[q][c] = SinkIo(k, res)
          PROVE  snk'[q][c].pc # "failed"
      <3>1. res \in {"ok", "broken"}
        BY PortForwardAssumption DEF IoResult
      <3> QED
        BY <2>0, <2>1, <3>1 DEF SinkIo, SinkState
    <2>2. ASSUME NEW a, snk'[q][c] = SinkRecv(k, a)
          PROVE  snk'[q][c].pc # "failed"
      BY <2>0, <2>2 DEF SinkRecv, SinkState
    <2>3. CASE snk'[q][c] \in {SinkRecvNone(k), SinkSent(k), SinkShutdown(k)}
      BY <2>0, <2>3 DEF SinkRecvNone, SinkSent, SinkShutdown, SinkState
    <2> QED
      BY <1>2, <2>1, <2>2, <2>3 DEF SinkTurn
  <1>3. CASE snk'[q][c] = k \/ snk'[q][c] = SinkNew
    BY <1>0, <1>3 DEF SinkNew
  <1> QED
    BY <1>0, <1>1, <1>2, <1>3 DEF StreamTurn, SameSink, SinkTold

\* What ends a receiver: a message for a task that is not there.
LEMMA ReceiveFails ==
    ASSUME Types, NEW sd \in Sides, Receive(sd), receiver'[sd].pc = "failed"
    PROVE  LET m == Head(path[Peer(sd)]) IN
           \/ m \in ForSinks /\ SinkOver(snk[sd][m.id])
           \/ m \in ForSources /\ src[sd][m.id] = NoSource
           \/ sd = "server" /\ m \in Requests /\ connecter = "done"
           \/ /\ sd = "client" /\ m \in Responses
              /\ ~(listener.pc \in {"request", "response"} /\ listener.conn = m.id)
  <1> DEFINE m == Head(path[Peer(sd)])
  <1>0. WayTypes /\ sd \in DOMAIN receiver /\ DOMAIN receiver[sd] = {"pc", "todo"}
    BY DEF Types, EndTypes, ReceiverState
  <1>1. m \in Msgs(Peer(sd)) /\ Peer(sd) \in Sides
    BY <1>0, ReceiveFacts, SideFacts
  <1>2. /\ m.act \in {"Data", "SourceClosed"} => m \in ForSinks
        /\ m.act \in {"Ack", "SinkClosed"} => m \in ForSources
        /\ m.act \in {"Connect", "ListenerClosed"} => Peer(sd) = "client" /\ m \in Requests
        /\ m.act \in {"Connected", "Refused"} => Peer(sd) = "server" /\ m \in Responses
    BY <1>1, MsgFacts
  <1>3. (Peer(sd) = "client" => sd = "server") /\ (Peer(sd) = "server" => sd = "client")
    BY SideFacts DEF Peer
  <1>4. receiver[sd].pc = "route" /\ receiver' # receiver
    BY DEF Receive
  <1>5. \/ m.act \in {"Data", "SourceClosed"} /\ ToSink(sd, m)
        \/ m.act \in {"Ack", "SinkClosed"} /\ ToSource(sd, m)
        \/ m.act \in {"Connect", "ListenerClosed"} /\ ToConnecter(m)
        \/ m.act \in {"Connected", "Refused"} /\ ToListener(m)
        \/ receiver' = [receiver EXCEPT ![sd].pc = "finished"]
    BY <1>4 DEF Receive
  <1>6. receiver' # [receiver EXCEPT ![sd].pc = "finished"]
    BY <1>0
  <1> HIDE DEF m
  <1> QED
    BY <1>2, <1>3, <1>4, <1>5, <1>6 DEF ToSink, ToSource, ToConnecter, ToListener, m

\* Until the client has been told that a connection is made, and starts its tasks,
\* those of the server wait: a peer that speaks only when spoken to is silent.
Idle(c) ==
    /\ src["server"][c].pc \in {"none", "select"} /\ snk["server"][c].pc \in {"none", "recv"}
    /\ srcRx["server"][c] = <<>> /\ snkRx["server"][c] = <<>> /\ wrote["server"][c] = 0

Quiet(c) ==
    /\ ~Spoken(c) /\ link = "up" => Idle(c)
    /\ Has(path["server"], StreamOf(c)) => Spoken(c)

SurviveInv ==
    /\ ReceiversSurvive
    /\ NoFailedSink
    /\ ListenerOrder
    /\ \A p \in Sides, c \in Conns : CloseOrder(p, c)
    /\ \A c \in Conns : Quiet(c)

\* The client's tasks are there for good.
LEMMA SpokenStays ==
    ASSUME Types, [Next]_vars, NEW c \in Conns
    PROVE  Spoken(c) => Spoken(c)'
  <1>1. SourceNew # NoSource
    BY DEF SourceNew, NoSource
  <1> QED
    BY <1>1, StartedStays, SideFacts DEF Spoken

\* The server's tasks wait as long as the client's are not there.
LEMMA IdleNext ==
    ASSUME RemoteFirst = FALSE, Types, Requested, Finish, ReceiversSurvive, [Next]_vars,
           NEW c \in Conns, ~Spoken(c), link = "up", Idle(c)
    PROVE  Idle(c)'
  <1>0. /\ "server" \in Sides /\ "client" \in Sides
        /\ Peer("server") = "client" /\ Peer("client") = "server"
        /\ WayTypes
    BY SideFacts DEF Peer, Types
  <1>1. StreamTurn("server", c) /\ StreamTurn("client", c)
    BY <1>0, TaskSteps
  <1>2. receiver["server"].pc \notin {"shutdown", "closed", "failed"}
    BY <1>0 DEF Finish, Down, ReceiversSurvive
  <1>3. RouterDropped("server") => TxDropped("server")
    BY <1>0, <1>2, DroppedEarly
  <1>4. ASSUME Receive("server"), Head(path["client"]) \in StreamOf(c)
        PROVE  FALSE
    <2> DEFINE m == Head(path["client"])
    <2>1. FirstOf(m, path["client"], path'["client"])
      BY <1>0, <1>4, ReceiveFacts
    <2>2. m \in StreamOf(c)
      BY <1>4
    <2> HIDE DEF m
    <2>3. Has(path["client"], StreamOf(c))
      BY <2>1, <2>2 DEF FirstOf
    <2> QED
      BY <2>3 DEF Requested, RequestResult
  <1>5. ASSUME NEW m \in ForSinks \cup ForSources, m.id = c
        PROVE  m \in StreamOf(c)
    BY <1>5 DEF ForSinks, ForSources, StreamOf
  <1>6. ~SourceTurn("server", c)
    <2>1. ~SourceIn("server", c)
      <3>1. ~SpokenTo(c)
        BY DEF Idle, SpokenTo, SinkEnded
      <3> QED
        BY <3>1 DEF SourceIn, ReadPacket, EndOfInput, MaySpeak
    <2>2. ~(RouterDropped("server") /\ SourceListening(src["server"][c]))
      BY <1>3 DEF TxDropped, SourceListening, SourceOver, SourceEnded, NoSource
    <2> QED
      BY <2>1, <2>2 DEF SourceTurn, SourceSending, Idle
  <1>7. ~SinkTurn("server", c)
    <2>1. ~(RouterDropped("server") /\ snk["server"][c].pc = "recv")
      BY <1>3 DEF TxDropped, SinkOver, SinkEnded, NoSink
    <2> QED
      BY <2>1 DEF SinkTurn, SinkSending, Idle
  <1>8. ~SourceTold("server", c)
    BY <1>0, <1>2, <1>4, <1>5 DEF SourceTold
  <1>9. ~SinkTold("server", c)
    BY <1>0, <1>2, <1>4, <1>5 DEF SinkTold
  <1>10. src'["server"][c].pc \in {"none", "select"} /\ srcRx'["server"][c] = <<>>
    BY <1>1, <1>6, <1>8 DEF StreamTurn, SameSource, Idle, SourceNew
  <1>11. /\ snk'["server"][c].pc \in {"none", "recv"} /\ snkRx'["server"][c] = <<>>
         /\ wrote'["server"][c] = 0
    BY <1>0, <1>1, <1>7, <1>9 DEF StreamTurn, SameSink, Idle, SinkNew
  <1> QED
    BY <1>10, <1>11 DEF Idle

LEMMA QuietNext ==
    ASSUME RemoteFirst = FALSE, Types, Requested, Finish, ReceiversSurvive, [Next]_vars,
           NEW c \in Conns, Quiet(c)
    PROVE  Quiet(c)'
  <1>0. "server" \in Sides
    BY SideFacts
  <1>1. ASSUME ~Spoken(c)', link' = "up"
        PROVE  Idle(c)'
    <2>1. ~Spoken(c)
      BY <1>1, SpokenStays
    <2>2. link = "up"
      BY <1>1, EndSteps DEF EndTurn
    <2>3. Idle(c)
      BY <2>1, <2>2 DEF Quiet
    <2> QED
      BY <2>1, <2>2, <2>3, IdleNext
  <1>2. Has(path'["server"], StreamOf(c)) => Spoken(c)'
    <2> DEFINE C == StreamOf(c)
    <2>1. \A m \in C : Adds("server", m) => SourceSend("server", c) \/ SinkSend("server", c)
      <3>1. \A m \in C : m.id = c /\ m.act \in {"Data", "SourceClosed", "Ack", "SinkClosed"}
        BY DEF StreamOf
      <3> HIDE DEF C
      <3> QED
        BY <1>0, <3>1, AddsFacts
    <2>2. SourceSend("server", c) \/ SinkSend("server", c) => ~Idle(c)
      BY DEF SourceSend, SourceSending, SinkSend, SinkSending, Idle
    <2> HIDE DEF C
    <2>3. Has(path'["server"], C) => Has(path["server"], C) \/ (link = "up" /\ ~Idle(c))
      BY <1>0, <2>1, <2>2, WayChanges
    <2> QED
      BY <2>3, SpokenStays DEF Quiet, C
  <1> QED
    BY <1>1, <1>2 DEF Quiet

LEMMA SurviveNext ==
    RemoteFirst = FALSE /\ "other" \notin WriteResults =>
      (ForwardInv /\ SurviveInv /\ [Next]_vars => SurviveInv')
  <1> SUFFICES ASSUME RemoteFirst = FALSE, "other" \notin WriteResults,
                      ForwardInv, SurviveInv, [Next]_vars
               PROVE  SurviveInv'
    OBVIOUS
  <1>0. /\ Types /\ Requested /\ Finish /\ Paired /\ WayTypes
        /\ \A sd \in Sides : ReceiverTurn(sd)
    BY EndSteps DEF ForwardInv, Requested, Types
  <1>1. ASSUME NEW sd \in Sides, receiver'[sd].pc = "failed"
        PROVE  FALSE
    <2> DEFINE p == Peer(sd)
               m == Head(path[p])
    <2>0. p \in Sides /\ Peer(p) = sd
      BY SideFacts
    <2>1. Receive(sd) /\ receiver[sd].pc = "route"
      BY <1>0, <1>1 DEF ReceiverTurn, SurviveInv, ReceiversSurvive
    <2>2. \/ m \in ForSinks /\ SinkOver(snk[sd][m.id])
          \/ m \in ForSources /\ src[sd][m.id] = NoSource
          \/ sd = "server" /\ m \in Requests /\ connecter = "done"
          \/ /\ sd = "client" /\ m \in Responses
             /\ ~(listener.pc \in {"request", "response"} /\ listener.conn = m.id)
      BY <1>0, <1>1, <2>1, ReceiveFails
    <2>3. FirstOf(m, path[p], path'[p])
      BY <1>0, <2>1, ReceiveFacts
    <2> HIDE DEF m
    <2>4. \A C : m \in C => Has(path[p], C)
      BY <2>3 DEF FirstOf
    <2>5. ASSUME m \in ForSinks \cup ForSources
          PROVE  /\ m.id \in Conns /\ src[sd][m.id] # NoSource /\ snk[sd][m.id] # NoSink
      <3> DEFINE c == m.id
      <3>1. c \in Conns /\ m \in StreamOf(c)
        BY <2>5 DEF ForSinks, ForSources, StreamOf
      <3> HIDE DEF c
      <3>2. Has(path[p], StreamOf(c))
        BY <2>4, <3>1
      <3>3. RequestResult(c) /\ Quiet(c)
        BY <1>0, <3>1 DEF Requested, SurviveInv
      <3>4. Spoken(c)
        BY <2>0, <3>2, <3>3, SideFacts DEF RequestResult, Quiet
      <3>5. src["client"][c] # NoSource /\ src["server"][c] # NoSource
        BY <3>3, <3>4 DEF Spoken, RequestResult
      <3>6. src[sd][c] # NoSource
        BY <3>5, SideFacts
      <3> QED
        BY <1>0, <3>1, <3>6 DEF Paired, c
    <2>6. CASE m \in ForSinks /\ SinkOver(snk[sd][m.id])
      <3> DEFINE c == m.id
      <3>1. c \in Conns /\ m \in ForSinkOf(c)
        BY <2>6 DEF ForSinks, ForSinkOf
      <3>2. SinkEnded(snk[sd][c])
        BY <2>5, <2>6 DEF SinkOver
      <3> HIDE DEF c
      <3>3. snk[sd][c].pc = "done"
        BY <3>1, <3>2 DEF SinkEnded, SurviveInv, NoFailedSink
      <3>4. CloseOrder(p, c)
        BY <2>0, <3>1 DEF SurviveInv
      <3>5. ~Has(path[p], ForSinkOf(c))
        BY <2>0, <2>1, <3>3, <3>4 DEF CloseOrder, Closing
      <3> QED
        BY <2>4, <3>1, <3>5
    <2>7. CASE m \in ForSources /\ src[sd][m.id] = NoSource
      BY <2>5, <2>7
    <2>8. CASE sd = "server" /\ m \in Requests /\ connecter = "done"
      <3>1. p = "client" /\ Has(path["client"], Requests)
        BY <2>0, <2>4, <2>8 DEF Peer
      <3> QED
        BY <2>1, <2>8, <3>1 DEF SurviveInv, ListenerOrder
    <2>9. CASE /\ sd = "client" /\ m \in Responses
               /\ ~(listener.pc \in {"request", "response"} /\ listener.conn = m.id)
      <3>1. p = "server"
        BY <2>9 DEF Peer
      <3> DEFINE c == m.id
      <3>2. c \in Conns /\ m \in Answers(c)
        BY <2>9, ResponseFacts
      <3> HIDE DEF c
      <3>3. Answered(c)
        BY <2>4, <3>1, <3>2 DEF Answered
      <3>4. Waiting(c)
        BY <1>0, <3>2, <3>3 DEF Requested, RequestToken
      <3> QED
        BY <2>9, <3>4 DEF Waiting, c
    <2> QED
      BY <2>2, <2>6, <2>7, <2>8, <2>9
  <1>2. ReceiversSurvive'
    BY <1>1 DEF ReceiversSurvive
  <1>3. NoFailedSink'
    BY <1>0, NoFailedNext DEF SurviveInv
  <1>4. ListenerOrder'
    BY <1>0, ListenerNext DEF SurviveInv
  <1>5. ASSUME NEW p \in Sides, NEW c \in Conns PROVE CloseOrder(p, c)'
    <2>1. CloseOrder(p, c)
      BY DEF SurviveInv
    <2> QED
      BY <1>0, <2>1, CloseNext
  <1>6. ASSUME NEW c \in Conns PROVE Quiet(c)'
    <2>1. Quiet(c) /\ ReceiversSurvive
      BY DEF SurviveInv
    <2> QED
      BY <1>0, <2>1, QuietNext
  <1> QED
    BY <1>2, <1>3, <1>4, <1>5, <1>6 DEF SurviveInv

LEMMA SurviveInit == Init => SurviveInv
  <1> SUFFICES ASSUME Init PROVE SurviveInv
    OBVIOUS
  <1>0. /\ path["client"] = <<>> /\ path["server"] = <<>> /\ connRx = <<>>
        /\ \A sd \in Sides :
             /\ path[sd] = <<>> /\ receiver[sd].pc = "route"
             /\ \A c \in Conns :
                  /\ src[sd][c] = NoSource /\ snk[sd][c] = NoSink
                  /\ srcRx[sd][c] = <<>> /\ snkRx[sd][c] = <<>> /\ wrote[sd][c] = 0
        /\ connecter = "recv"
    BY SideFacts DEF Init
  <1>1. \A C, D : ~Has(<<>>, C) /\ NoneAfter(<<>>, C, D)
    BY EmptyOrder
  <1>2. NoSink.pc = "none" /\ NoSource.pc = "none"
    BY DEF NoSink, NoSource
  <1>3. ReceiversSurvive /\ NoFailedSink
    BY <1>0, <1>2 DEF ReceiversSurvive, NoFailedSink
  <1>4. ListenerOrder
    BY <1>0, <1>1 DEF ListenerOrder, EndWaits
  <1>5. ASSUME NEW p \in Sides, NEW c \in Conns PROVE CloseOrder(p, c)
    <2>1. /\ path[p] = <<>> /\ snk[Peer(p)][c].pc = "none" /\ snkRx[Peer(p)][c] = <<>>
      BY <1>0, <1>2, SideFacts
    <2> QED
      BY <1>1, <2>1 DEF CloseOrder, Closing, CloseWaits
  <1>6. ASSUME NEW c \in Conns PROVE Quiet(c)
    <2>1. Idle(c)
      BY <1>0, <1>2, SideFacts DEF Idle
    <2>2. ~Has(path["server"], StreamOf(c))
      BY <1>0, <1>1
    <2> QED
      BY <2>1, <2>2 DEF Quiet
  <1> QED
    BY <1>3, <1>4, <1>5, <1>6 DEF SurviveInv

\* If the remote peers of forwarded connections speak only when spoken to, and writes
\* fail with BrokenPipe only, no receiver fails: no message of a connection comes to a
\* side that has no task for it, no request to a connecter that has gone, and no
\* answer to a listener that does not wait for it, whether or not the connection to
\* the server is lost.  Both hypotheses are needed: without the first the server's
\* tasks may speak of a connection before the client has been told that it is made,
\* without the second a sink ends before its source.
THEOREM ReceiversSurviveCorrect ==
    ASSUME RemoteFirst = FALSE, "other" \notin WriteResults
    PROVE  Spec => []ReceiversSurvive
  <1>1. Init => ForwardInv /\ SurviveInv
    BY ForwardInit, SurviveInit
  <1>2. (ForwardInv /\ SurviveInv) /\ [Next]_vars => (ForwardInv /\ SurviveInv)'
    BY ForwardNext, SurviveNext
  <1>3. ForwardInv /\ SurviveInv => ReceiversSurvive
    BY DEF SurviveInv
  <1> QED
    BY <1>1, <1>2, <1>3, PTL DEF Spec

-----------------------------------------------------------------------------
(* A session that nothing fails.                                           *)

\* The receivers go on until their peers have finished, and the connection until the
\* client has ended in good order.
Calm ==
    /\ \A sd \in Sides : receiver[sd].pc \in {"route", "finished"}
    /\ link = "down" => receiver["client"].pc = "finished"
    /\ status # "lost"

\* What may change the status and the connection.
LEMMA CalmFrames ==
    ASSUME [Next]_vars
    PROVE  /\ status' = status \/ \E sd \in Sides : Receive(sd) \/ ShutdownEnd(sd)
           /\ link' = link \/ ClientStatus \/ ClientJoin \/ LinkDown
  <1> USE DEF sessionVars
  <1>1. CASE \/ ListenerAccept \/ ListenerAcceptFails \/ ListenerEnd
             \/ ListenerRequest \/ ListenerResponse \/ ListenerClose
             \/ ConnecterRecv \/ ConnecterNone
    BY <1>1 DEF ListenerAccept, ListenerAcceptFails, ListenerEnd, ListenerRequest,
       ListenerResponse, ListenerClose, ConnecterRecv, ConnecterNone
  <1>2. ASSUME NEW c \in Conns, Dialed(c) \/ DialReply(c)
        PROVE  status' = status /\ link' = link
    BY <1>2 DEF Dialed, DialReply
  <1>3. ASSUME NEW sd \in Sides, NEW c \in Conns, SourceIn(sd, c) \/ TaskStep(sd, c)
        PROVE  status' = status /\ link' = link
    BY <1>3 DEF SourceIn, ReadPacket, EndOfInput, TaskStep, SourceSend, SourceTake,
       SinkTake, SinkWrite, SinkSend, SinkFinish
  <1>4. ASSUME NEW sd \in Sides, ReceiverStep(sd) \/ SenderFinish(sd)
        PROVE  link' = link /\ (status' = status \/ Receive(sd) \/ ShutdownEnd(sd))
    BY <1>4 DEF ReceiverStep, Receive, BeginShutdown, ShutdownOne, ShutdownEnd, SenderFinish
  <1>5. CASE ServeExit \/ ServeKill \/ ServeJoin
    BY <1>5 DEF ServeExit, ServeKill, ServeJoin
  <1>6. CASE ClientStatus \/ ClientJoin \/ LinkDown
    BY <1>6 DEF ClientStatus, ClientJoin, LinkDown
  <1>7. CASE UNCHANGED vars
    BY <1>7 DEF vars
  <1> QED
    BY <1>1, <1>2, <1>3, <1>4, <1>5, <1>6, <1>7 DEF Next, ListenerStep, ConnecterStep, Terminated

\* In such a session no receiver has to shut down.
LEMMA CalmSteps ==
    ASSUME Faults = {}, Finish, Calm
    PROVE  /\ \A sd \in Sides : ~BeginShutdown(sd) /\ ~ShutdownOne(sd) /\ ~ShutdownEnd(sd)
           /\ ~LinkDown
           /\ ClientStatus => UNCHANGED <<link, path>>
           /\ ClientJoin => receiver["client"].pc = "finished"
  <1>1. ASSUME NEW sd \in Sides PROVE ~BeginShutdown(sd)
    <2>1. CASE sd = "client"
      BY <2>1 DEF Calm, BeginShutdown
    <2>2. CASE sd = "server"
      <3>1. receiver["client"].pc = "finished" => receiver["server"].pc = "finished"
        BY DEF Finish, ServerFinish
      <3> QED
        BY <2>2, <3>1 DEF Calm, BeginShutdown
    <2> QED
      BY <2>1, <2>2, SideFacts
  <1>2. ASSUME NEW sd \in Sides PROVE ~ShutdownOne(sd) /\ ~ShutdownEnd(sd)
    BY DEF Calm, ShutdownOne, ShutdownEnd
  <1>3. ~LinkDown
    BY DEF LinkDown
  <1>4. ClientStatus => UNCHANGED <<link, path>>
    BY DEF Calm, ClientStatus
  <1>5. ClientJoin => receiver["client"].pc = "finished"
    BY SideFacts DEF Calm, ClientJoin
  <1> QED
    BY <1>1, <1>2, <1>3, <1>4, <1>5

\* It stays so, as long as no receiver fails.
LEMMA CalmNext ==
    ASSUME Faults = {}, Types, Finish, Calm, ReceiversSurvive', [Next]_vars
    PROVE  Calm'
  <1>1. ASSUME NEW sd \in Sides
        PROVE  receiver'[sd].pc \in {"route", "finished"}
    <2>1. ReceiverTurn(sd) /\ receiver'[sd].pc # "failed"
      BY EndSteps DEF ReceiversSurvive
    <2> QED
      BY <2>1, CalmSteps DEF ReceiverTurn, Calm
  <1>2. link' = "down" => receiver'["client"].pc = "finished"
    <2>1. link' = "down" => receiver["client"].pc = "finished"
      <3>1. link' = link \/ ClientStatus \/ ClientJoin \/ LinkDown
        BY CalmFrames
      <3> QED
        BY <3>1, CalmSteps DEF Calm
    <2>2. ReceiverEnded("client") => receiver'["client"] = receiver["client"]
      BY EndedStays, SideFacts
    <2> QED
      BY <2>1, <2>2 DEF ReceiverEnded
  <1>3. status' # "lost"
    <2>1. CASE status' = status
      BY <2>1 DEF Calm
    <2>2. ASSUME NEW sd \in Sides, Receive(sd)
          PROVE  status' # "lost"
      <3>1. sd \in DOMAIN receiver /\ DOMAIN receiver[sd] = {"pc", "todo"}
        BY DEF Types, EndTypes, ReceiverState
      <3>2. ~Fails(sd)
        BY <3>1 DEF Fails, ReceiversSurvive
      <3>3. status' \in {status, "exit"} \/ Fails(sd) \/ Fails("client") \/ Fails("server")
        BY <2>2 DEF Receive, ToSink, ToSource, ToConnecter, ToListener
      <3>4. ~Fails("client") /\ ~Fails("server")
        BY SideFacts DEF Fails, ReceiversSurvive, Types, EndTypes, ReceiverState
      <3> QED
        BY <3>2, <3>3, <3>4 DEF Calm
    <2> QED
      BY <2>1, <2>2, CalmFrames, CalmSteps
  <1> QED
    BY <1>1, <1>2, <1>3 DEF Calm

-----------------------------------------------------------------------------
(* The packet that is under way is the one that was read last.               *)

\* Packets of a stream other than the nth: on the way, and in the channel of the sink.
OthersOf(c, n) == [id : {c}, act : {"Data"}, n : Nat \ {n}]
Others(n) == [act : {"Data"}, n : Nat \ {n}]

Numbers(p, c) ==
    /\ ~Has(path[p], OthersOf(c, src[p][c].n))
    /\ ~Has(snkRx[Peer(p)][c], Others(src[p][c].n))
    /\ Writing(p, c) => snk[Peer(p)][c].n = src[p][c].n /\ ~Closed(p, c)

\* A source counts when it reads, and then nothing of an earlier packet is left.
LEMMA NumberGrows ==
    ASSUME Types, Requested, [Next]_vars, NEW p \in Sides, NEW c \in Conns, Token(p, c)
    PROVE  \/ src'[p][c].n = src[p][c].n
           \/ /\ SameSink(Peer(p), c) /\ SourceIn(p, c)
              /\ ~DataUnderWay(p, c) /\ ~DataWaits(p, c) /\ ~Writing(p, c)
  <1> DEFINE t == src[p][c]
  <1>0. TaskTypes /\ StreamTurn(p, c)
    BY TaskSteps DEF Types
  <1>1. CASE SourceTurn(p, c) /\ SameSink(Peer(p), c)
    <2>1. t \in SourceState
      BY <1>0, <1>1, TaskStates DEF SourceTurn, SourceSending, SourceListening
    <2>2. \A a : /\ SourceBreak(t).n = t.n /\ SourceSent(t).n = t.n
                 /\ SourceRecv(t, a).n = t.n /\ SourceRecvNone(t).n = t.n
      BY <2>1 DEF SourceState, SourceBreak, SourceSent, SourceRecv, SourceRecvNone
    <2>3. t.pc = "select" => ~DataUnderWay(p, c) /\ ~DataWaits(p, c) /\ ~Writing(p, c)
      BY DEF Token, Loaded
    <2> QED
      BY <1>1, <2>2, <2>3 DEF SourceTurn
  <1>2. CASE StartsAt(p, c) /\ src'[p][c] = SourceNew
    BY <1>2, StartsFresh DEF NoSource, SourceNew
  <1> QED
    BY <1>0, <1>1, <1>2 DEF StreamTurn, SameSource, SourceTold

\* What is put on the way, or into the channel, is the packet in the hands of the source.
LEMMA NumbersNext ==
    ASSUME Types, Requested, [Next]_vars, NEW p \in Sides, NEW c \in Conns,
           Token(p, c), Numbers(p, c)
    PROVE  Numbers(p, c)'
  <1> DEFINE q == Peer(p)
             t == src[p][c]
             k == snk[q][c]
  <1>0. /\ q \in Sides /\ Peer(q) = p /\ TaskTypes /\ WayTypes /\ StreamTurn(p, c)
        /\ snkRx[q][c] \in Seq(SourceAction) /\ Len(snkRx[q][c]) <= ChanCap
        /\ k.pc # "none" => k \in SinkState
    <2>1. q \in Sides /\ Peer(q) = p /\ TaskTypes /\ WayTypes
      BY SideFacts DEF Types
    <2> HIDE DEF q
    <2>2. k.pc # "none" => k \in SinkState
      BY <2>1, TaskStates
    <2>3. StreamTurn(p, c)
      BY TaskSteps
    <2> QED
      BY <2>1, <2>2, <2>3 DEF TaskTypes
  <1>1. PICK v : v = src'[p][c].n
    OBVIOUS
  <1>2. /\ \A x : ~Has(<<>>, x)
        /\ OthersOf(c, v) \subseteq DataOf(c) /\ Others(v) \subseteq Datas
    BY EmptyOrder DEF OthersOf, Others, DataOf, Datas
  <1>3. \/ v = t.n
        \/ SameSink(q, c) /\ SourceIn(p, c) /\ ~DataUnderWay(p, c) /\ ~DataWaits(p, c) /\ ~Writing(p, c)
    BY <1>1, NumberGrows
  <1>4. ~Has(path[p], OthersOf(c, v)) /\ ~Has(snkRx[q][c], Others(v))
    <2>1. ~DataUnderWay(p, c) => ~Has(path[p], OthersOf(c, v))
      BY <1>2 DEF DataUnderWay, Has
    <2>2. ~DataWaits(p, c) => ~Has(snkRx[q][c], Others(v))
      BY <1>2 DEF DataWaits, Has
    <2> QED
      BY <1>3, <2>1, <2>2 DEF Numbers
  <1>5. ~Has(path'[p], OthersOf(c, v))
    <2>1. ASSUME NEW m \in OthersOf(c, v), Adds(p, m)
          PROVE  FALSE
      <3>1. m.id = c /\ m.act = "Data" /\ m.n # v
        BY DEF OthersOf
      <3>2. SourceSend(p, c) /\ m = StreamMsg(c, SourceMsg(t)) /\ t.pc = "send"
        BY <2>1, <3>1, AddsFacts
      <3>3. m.n = t.n
        BY <3>2 DEF StreamMsg, SourceMsg, Data
      <3>4. ~SourceIn(p, c)
        BY <3>2 DEF SourceIn, ReadPacket, EndOfInput
      <3> QED
        BY <1>3, <3>1, <3>3, <3>4
    <2>2. Has(path'[p], OthersOf(c, v)) =>
            Has(path[p], OthersOf(c, v)) \/ \E m \in OthersOf(c, v) : Adds(p, m)
      <3>1. PICK C : C = OthersOf(c, v)
        OBVIOUS
      <3>2. Has(path'[p], C) => Has(path[p], C) \/ \E m \in C \cap Msgs(p) : Adds(p, m)
        BY WayChanges
      <3> QED
        BY <3>1, <3>2
    <2> QED
      BY <1>4, <2>1, <2>2
  <1>6. ~Has(snkRx'[q][c], Others(v)) /\ (snk'[q][c].pc = "write" => snk'[q][c].n = v /\ ~snk'[q][c].closed)
    <2>0. k.pc = "write" => k.n = t.n /\ ~k.closed
      BY DEF Numbers, Writing, Closed
    <2>1. CASE SameSink(q, c)
      BY <1>3, <1>4, <2>0, <2>1 DEF SameSink, Writing
    <2>2. CASE SinkTurn(q, c) /\ SameSource(p, c)
      <3>0. k \in SinkState /\ v = t.n
        BY <1>0, <1>1, <2>2 DEF SinkTurn, SinkSending, SameSource
      <3>1. CASE /\ k.pc = "recv" /\ snkRx[q][c] # <<>>
                 /\ snk'[q][c] = SinkRecv(k, Head(snkRx[q][c]))
                 /\ snkRx'[q][c] = Tail(snkRx[q][c])
        <4> DEFINE h == Head(snkRx[q][c])
        <4>1. h \in SourceAction /\ Tail(snkRx[q][c]) = <<>> /\ h \notin Others(v)
          BY <1>0, <1>4, <3>1, OneInChannel
        <4> HIDE DEF h
        <4>2. snk'[q][c].pc = "write" =>
                h.act # "SourceClosed" /\ snk'[q][c].n = h.n /\ ~snk'[q][c].closed
          BY <3>0, <3>1 DEF SinkRecv, SinkState, h
        <4>3. h.act # "SourceClosed" => h.n = v
          BY <4>1 DEF SourceAction, Others
        <4> QED
          BY <1>2, <3>1, <4>1, <4>2, <4>3
      <3>2. CASE /\ snkRx'[q][c] = snkRx[q][c]
                 /\ \/ snk'[q][c] = SinkRecvNone(k)
                    \/ \E res \in WriteResults : snk'[q][c] = SinkIo(k, res)
                    \/ snk'[q][c] = SinkSent(k)
                    \/ snk'[q][c] = SinkShutdown(k)
        <4>1. \A res : /\ SinkIo(k, res).pc # "write" /\ SinkRecvNone(k).pc # "write"
                       /\ SinkSent(k).pc # "write" /\ SinkShutdown(k).pc # "write"
          BY <3>0 DEF SinkState, SinkIo, SinkRecvNone, SinkSent, SinkShutdown
        <4> QED
          BY <1>4, <3>2, <4>1
      <3> QED
        BY <2>2, <3>1, <3>2 DEF SinkTurn
    <2>3. CASE SinkTold(q, c) /\ SameSource(p, c)
      <3>0. v = t.n /\ snk'[q][c] = k
        BY <1>1, <2>3 DEF SameSource, SinkTold
      <3>1. ASSUME NEW a \in SourceAction, a \notin Others(v), snkRx'[q][c] = Append(snkRx[q][c], a)
            PROVE  ~Has(snkRx'[q][c], Others(v))
        BY <1>0, <1>4, <3>1, ChannelFacts
      <3>2. CASE Receive(q)
        <4> DEFINE m == Head(path[p])
        <4>1. FirstOf(m, path[p], path'[p])
          BY <1>0, <3>2, ReceiveFacts
        <4>2. m \notin OthersOf(c, v)
          BY <1>4, <4>1 DEF FirstOf
        <4> HIDE DEF m
        <4>3. m \in ForSinks /\ m.id = c => ActionOf(m) \notin Others(v)
          BY <4>2 DEF ForSinks, OthersOf, Others, ActionOf
        <4>4. ~ShutdownOne(q)
          BY <3>2 DEF ShutdownOne, Receive
        <4>5. /\ m \in ForSinks /\ m.id = c /\ ActionOf(m) \in SourceAction
              /\ snkRx'[q][c] = Append(snkRx[q][c], ActionOf(m))
          BY <1>0, <2>3, <4>4 DEF SinkTold, m
        <4> QED
          BY <2>0, <3>0, <3>1, <4>3, <4>5
      <3>3. CASE snkRx'[q][c] = Append(snkRx[q][c], SourceClosed)
        <4>1. SourceClosed \in SourceAction /\ SourceClosed \notin Others(v)
          BY DEF SourceClosed, SourceAction, Others
        <4> QED
          BY <2>0, <3>0, <3>1, <3>3, <4>1
      <3> QED
        BY <2>3, <3>2, <3>3 DEF SinkTold
    <2>4. CASE /\ StartsAt(q, c) /\ snk'[q][c] = SinkNew
               /\ snkRx'[q][c] = snkRx[q][c] /\ SameSource(p, c)
      BY <1>4, <2>4 DEF SinkNew
    <2> QED
      BY <1>0, <2>1, <2>2, <2>3, <2>4 DEF StreamTurn
  <1> QED
    BY <1>1, <1>5, <1>6 DEF Numbers, Writing, Closed

-----------------------------------------------------------------------------
(* Each direction of a forwarded connection is a Stream.                     *)

SourceActs == {"Data", "SourceClosed"}
SinkActs == {"Ack", "SinkClosed"}

\* What the way from a side says to one task of a connection.
Said(e, c, acts) == Actions(path[e], c, acts)

\* The stream from a side to its peer, as PortForward.tla sees those of connection 1.
Of(p, c) == INSTANCE Stream WITH
    MaxPackets <- Packets[p], WriteResults <- WriteResults, Faults <- {"link"},
    src <- StreamSrc(p, c), srcRx <- srcRx[p][c],
    snk <- StreamSnk(Peer(p), c), snkRx <- snkRx[Peer(p)][c],
    fwd <- Actions(path[p], c, {"Data", "SourceClosed"}),
    back <- Actions(path[Peer(p)], c, {"Ack", "SinkClosed"}),
    out <- [i \in 1..wrote[Peer(p)][c] |-> i],
    link <- link, srcRcv <- "route", snkRcv <- "route", served <- FALSE

\* The packets that have been written.
Packed(n) == [i \in 1..n |-> i]

LEMMA PackedGrows ==
    /\ Packed(0) = <<>>
    /\ \A n \in Nat : Packed(n + 1) = Append(Packed(n), n + 1)
  <1>1. ASSUME NEW n \in Nat
        PROVE  Packed(n) \in Seq(Nat) /\ Len(Packed(n)) = n
    BY DEF Packed
  <1>2. Packed(0) = <<>>
    <2>1. Packed(0) \in Seq(Nat) /\ Len(Packed(0)) = 0
      BY <1>1
    <2> QED
      BY <2>1, EmptySeq
  <1>3. ASSUME NEW n \in Nat
        PROVE  Packed(n + 1) = Append(Packed(n), n + 1)
    <2>1. /\ Packed(n + 1) \in Seq(Nat) /\ Len(Packed(n + 1)) = n + 1
          /\ Packed(n) \in Seq(Nat) /\ Len(Packed(n)) = n
      BY <1>1
    <2>2. PICK s \in Seq(Nat) : s = Packed(n)
      BY <2>1
    <2>3. /\ Append(s, n + 1) \in Seq(Nat) /\ Len(Append(s, n + 1)) = n + 1
          /\ \A i \in 1..n : Append(s, n + 1)[i] = s[i]
          /\ Append(s, n + 1)[n + 1] = n + 1
      BY <2>1, <2>2, AppendFacts
    <2>4. \A i \in 1..n + 1 : Append(s, n + 1)[i] = Packed(n + 1)[i]
      BY <2>2, <2>3 DEF Packed
    <2> QED
      BY <2>1, <2>2, <2>3, <2>4, SeqEqual
  <1> QED
    BY <1>2, <1>3

\* The step of the session is a step of the stream, or none.
StepOf(p, c) == [Of(p, c)!Next]_(Of(p, c)!vars)

TasksRest(p, c) ==
    UNCHANGED <<StreamSrc(p, c), srcRx[p][c], StreamSnk(Peer(p), c), snkRx[Peer(p)][c],
                wrote[Peer(p)][c]>>
WaysRest(p, c) == UNCHANGED <<Said(p, c, SourceActs), Said(Peer(p), c, SinkActs)>>

\* Nothing of the stream changes.
LEMMA StreamRests ==
    ASSUME NEW p, NEW c, TasksRest(p, c), WaysRest(p, c), link' = link
    PROVE  StepOf(p, c)
  BY DEF StepOf, TasksRest, WaysRest, Said, SourceActs, SinkActs, Of!vars

\* A task that has been started is that of the stream, and stays so.
LEMMA StartedIs ==
    ASSUME Types, [Next]_vars, NEW p \in Sides, NEW c \in Conns
    PROVE  /\ src[p][c].pc # "none" => /\ StreamSrc(p, c) = src[p][c]
                                       /\ StreamSrc(p, c)' = src'[p][c]
           /\ snk[p][c].pc # "none" => /\ StreamSnk(p, c) = snk[p][c]
                                       /\ StreamSnk(p, c)' = snk'[p][c]
  <1>1. /\ NoSource.pc = "none" /\ NoSink.pc = "none"
        /\ SourceNew # NoSource /\ SinkNew # NoSink
    BY DEF NoSource, NoSink, SourceNew, SinkNew
  <1> QED
    BY <1>1, StartedStays DEF StreamSrc, StreamSnk

\* The tasks do not change, or they are started.
LEMMA TasksKept ==
    ASSUME NEW p, NEW c, SameSource(p, c), SameSink(Peer(p), c)
    PROVE  TasksRest(p, c)
  BY DEF TasksRest, SameSource, SameSink, StreamSrc, StreamSnk

LEMMA TasksStart ==
    ASSUME Types, Requested, NEW sd \in Sides, NEW d \in Conns, StartsAt(sd, d),
           NEW p \in Sides, NEW c \in Conns
    PROVE  TasksRest(p, c)
  <1>1. StartTasks(sd, d) /\ src[sd][d] = NoSource /\ snk[sd][d] = NoSink
    BY StartsFresh DEF StartsAt, ListenerResponse, DialReply
  <1>2. /\ src'[sd][d] = SourceNew /\ snk'[sd][d] = SinkNew
        /\ \A e \in Sides, b \in Conns :
             e # sd \/ b # d => src'[e][b] = src[e][b] /\ snk'[e][b] = snk[e][b]
        /\ UNCHANGED <<srcRx, snkRx, wrote>>
    BY <1>1, StartSteps DEF Types
  <1>3. ASSUME NEW e \in Sides
        PROVE  UNCHANGED <<StreamSrc(e, c), StreamSnk(e, c)>>
    <2>1. CASE e = sd /\ c = d
      BY <1>1, <1>2, <2>1 DEF StreamSrc, StreamSnk
    <2>2. CASE e # sd \/ c # d
      BY <1>2, <2>2 DEF StreamSrc, StreamSnk
    <2> QED
      BY <2>1, <2>2
  <1> QED
    BY <1>2, <1>3, SideFacts DEF TasksRest

\* A message that arrives only if the connection is up.
SentOn(q, x) == IF link = "up" THEN Append(q, x) ELSE q

\* What is said when a message is sent.
LEMMA SaidSend ==
    ASSUME WayTypes, NEW sd \in Sides, NEW m \in Msgs(sd), Send(sd, m),
           NEW e \in Sides, NEW c, NEW acts
    PROVE  Said(e, c, acts)' = IF e = sd /\ m.id = c /\ m.act \in acts
                               THEN SentOn(Said(e, c, acts), ActionOf(m))
                               ELSE Said(e, c, acts)
  <1>1. CASE e = sd /\ link = "up"
    <2>1. PICK a \in Seq(Msgs(sd)) : a = path[sd]
      BY DEF WayTypes
    <2>2. PICK b : b = path'[sd]
      OBVIOUS
    <2>3. Appended(b, a, m)
      BY <1>1, <2>1, <2>2, SendFacts
    <2>4. Actions(b, c, acts) = IF m.id = c /\ m.act \in acts
                                THEN Append(Actions(a, c, acts), ActionOf(m))
                                ELSE Actions(a, c, acts)
      BY <2>3, ActionsMove
    <2> QED
      BY <1>1, <2>1, <2>2, <2>4 DEF Said, SentOn
  <1>2. CASE e # sd \/ link # "up"
    <2>1. path'[e] = path[e]
      BY <1>2, SendFacts
    <2> QED
      BY <1>2, <2>1 DEF Said, SentOn
  <1> QED
    BY <1>1, <1>2

\* What is said when the first message of a way is taken.
LEMMA SaidReceive ==
    ASSUME WayTypes, NEW sd \in Sides, Receive(sd), NEW e \in Sides, NEW c, NEW acts
    PROVE  LET m == Head(path[Peer(sd)]) IN
           IF e = Peer(sd) /\ m.id = c /\ m.act \in acts
           THEN /\ Said(e, c, acts) # <<>>
                /\ Head(Said(e, c, acts)) = ActionOf(m)
                /\ Tail(Said(e, c, acts)) = Said(e, c, acts)'
           ELSE Said(e, c, acts)' = Said(e, c, acts)
  <1>1. CASE e = Peer(sd)
    <2>0. PICK M : M = Msgs(e)
      OBVIOUS
    <2>1. PICK q \in Seq(M) : q = path[e]
      BY <2>0 DEF WayTypes
    <2>2. q # <<>> /\ path' = [path EXCEPT ![e] = Tail(q)] /\ DOMAIN path = Sides
      BY <1>1, <2>1 DEF Receive, WayTypes
    <2>3. PICK m \in M, r \in Seq(M) : m = Head(q) /\ r = Tail(q) /\ Taken(q, m, r)
      BY <2>2, TailFacts, HeadFirst
    <2>4. path'[e] = r
      BY <2>2, <2>3
    <2>5. Actions(q, c, acts) = IF m.id = c /\ m.act \in acts
                                THEN <<ActionOf(m)>> \o Actions(r, c, acts)
                                ELSE Actions(r, c, acts)
      <3>1. Taken(q, m, r)
        BY <2>3
      <3> QED
        BY <3>1, ActionsMove
    <2>6. PICK A : A = ActionsIn(M)
      OBVIOUS
    <2>7. PICK a \in Seq(A), x \in A : a = Actions(r, c, acts) /\ x = ActionOf(m)
      <3>1. Actions(r, c, acts) \in Seq(A) /\ ActionOf(m) \in A
        BY <2>6, ActionsMove DEF ActionsIn
      <3> QED
        BY <3>1
    <2>8. <<x>> \o a # <<>> /\ Head(<<x>> \o a) = x /\ Tail(<<x>> \o a) = a
      OBVIOUS
    <2> QED
      BY <1>1, <2>1, <2>3, <2>4, <2>5, <2>7, <2>8 DEF Said
  <1>2. CASE e # Peer(sd)
    <2>1. e = sd
      BY <1>2, SideFacts
    <2>2. path'[e] = path[e]
      BY <2>1, ReceiveFacts
    <2> QED
      BY <1>2, <2>2 DEF Said
  <1> QED
    BY <1>1, <1>2

\* Messages that are not for the stream say nothing to its tasks.
LEMMA WaysSend ==
    ASSUME WayTypes, NEW sd \in Sides, NEW m \in Msgs(sd), Send(sd, m),
           NEW p \in Sides, NEW c,
           /\ ~(sd = p /\ m.id = c /\ m.act \in SourceActs)
           /\ ~(sd = Peer(p) /\ m.id = c /\ m.act \in SinkActs)
    PROVE  WaysRest(p, c)
  <1>1. Said(p, c, SourceActs)' = Said(p, c, SourceActs)
    BY SaidSend
  <1>2. Said(Peer(p), c, SinkActs)' = Said(Peer(p), c, SinkActs)
    BY SaidSend, SideFacts
  <1> QED
    BY <1>1, <1>2 DEF WaysRest

LEMMA WaysKept ==
    ASSUME NEW p, NEW c, path' = path
    PROVE  WaysRest(p, c)
  BY DEF WaysRest, Said

\* What a stream needs of the session: nothing fails, and no receiver is missing.
Forwarding ==
    ForwardInv /\ SurviveInv /\ Calm /\ \A p \in Sides, c \in Conns : Numbers(p, c)

\* A task that listens has a router.
LEMMA RouterHeld ==
    ASSUME Types, Finish, Calm, NEW sd \in Sides, NEW c \in Conns,
           SourceListening(src[sd][c]) \/ snk[sd][c].pc = "recv"
    PROVE  ~RouterDropped(sd)
  <1>1. ~SourceOver(src[sd][c]) \/ ~SinkOver(snk[sd][c])
    BY TaskStates DEF Types, SourceListening
  <1>2. ~TxDropped(sd)
    BY <1>1 DEF TxDropped
  <1> QED
    BY <1>2, DroppedEarly DEF Calm

\* What a task says is what arrives.
LEMMA SaidIs ==
    ASSUME NEW c \in Conns, NEW sd \in Sides
    PROVE  /\ \A t \in SourceState : SourceSending(t) =>
                LET m == StreamMsg(c, SourceMsg(t)) IN
                /\ m \in Msgs(sd) /\ m.id = c /\ m.act \in SourceActs /\ m.act \notin SinkActs
                /\ ActionOf(m) = SourceMsg(t)
           /\ \A t : LET m == StreamMsg(c, SinkMsg(t)) IN
                /\ m \in Msgs(sd) /\ m.id = c /\ m.act \in SinkActs /\ m.act \notin SourceActs
                /\ ActionOf(m) = SinkMsg(t)
  <1>1. ASSUME NEW t PROVE ActionOf(StreamMsg(c, SourceMsg(t))) = SourceMsg(t)
    BY DEF SourceMsg, Data, SourceClosed, StreamMsg, ActionOf
  <1>2. ASSUME NEW t PROVE ActionOf(StreamMsg(c, SinkMsg(t))) = SinkMsg(t)
    BY DEF SinkMsg, Ack, SinkClosed, StreamMsg, ActionOf
  <1> QED
    BY <1>1, <1>2, TaskMsgs DEF SourceActs, SinkActs

\* A step of the source of a stream is that of its source.
LEMMA SourceIsStep ==
    ASSUME Forwarding, [Next]_vars, NEW p \in Sides, NEW c \in Conns,
           SourceIn(p, c) \/ SourceSend(p, c) \/ SourceTake(p, c)
    PROVE  StepOf(p, c)
  <1> DEFINE t == src[p][c]
             q == Peer(p)
  <1>0. /\ Types /\ Finish /\ Calm /\ TaskTypes /\ WayTypes /\ q \in Sides /\ q # p
        /\ DOMAIN src = Sides /\ DOMAIN src[p] = Conns
        /\ DOMAIN srcRx = Sides /\ DOMAIN srcRx[p] = Conns
    BY SideFacts DEF Forwarding, ForwardInv, Types, TaskTypes
  <1>1. UNCHANGED <<snk, snkRx, wrote, link>>
    BY DEF SourceIn, ReadPacket, EndOfInput, SourceSend, SourceTake
  <1>2. UNCHANGED <<StreamSnk(q, c), snkRx[q][c], wrote[q][c], link>>
    BY <1>1 DEF StreamSnk
  <1>3. t \in SourceState /\ StreamSrc(p, c) = t /\ StreamSrc(p, c)' = src'[p][c]
    <2>1. t.pc # "none"
      BY DEF SourceIn, ReadPacket, EndOfInput, SourceSend, SourceSending, SourceTake,
         SourceListening
    <2> QED
      BY <1>0, <2>1, TaskStates, StartedIs
  <1>4. CASE ReadPacket(p, c)
    <2>1. /\ t.pc = "select" /\ t.n < Packets[p] /\ src'[p][c] = SourceRead(t)
          /\ UNCHANGED <<srcRx, path>>
      BY <1>0, <1>4 DEF ReadPacket
    <2>2. Of(p, c)!Read
      BY <1>2, <1>3, <2>1 DEF Of!Read, Of!SourceRead, SourceRead
    <2> QED
      BY <2>2 DEF StepOf, Of!Next
  <1>5. CASE EndOfInput(p, c)
    <2>1. /\ t.pc = "select" /\ src'[p][c] = SourceBreak(t)
          /\ UNCHANGED <<srcRx, path>>
      BY <1>0, <1>5 DEF EndOfInput
    <2>2. Of(p, c)!EndOfInput
      BY <1>2, <1>3, <2>1 DEF Of!EndOfInput, Of!SourceBreak, SourceBreak
    <2> QED
      BY <2>2 DEF StepOf, Of!Next
  <1>6. CASE SourceSend(p, c)
    <2> DEFINE m == StreamMsg(c, SourceMsg(t))
    <2>1. /\ SourceSending(t) /\ src'[p][c] = SourceSent(t) /\ Send(p, m) /\ srcRx' = srcRx
      BY <1>0, <1>6 DEF SourceSend
    <2>2. /\ m \in Msgs(p) /\ m.id = c /\ m.act \in SourceActs /\ m.act \notin SinkActs
          /\ ActionOf(m) = SourceMsg(t)
      BY <1>3, <2>1, SaidIs
    <2> HIDE DEF m
    <2>3. Said(p, c, SourceActs)' = SentOn(Said(p, c, SourceActs), SourceMsg(t))
      BY <1>0, <2>1, <2>2, SaidSend
    <2>4. Said(q, c, SinkActs)' = Said(q, c, SinkActs)
      BY <1>0, <2>1, <2>2, SaidSend
    <2>5. Of(p, c)!SourceSend
      BY <1>2, <1>3, <2>1, <2>3, <2>4
         DEF Of!SourceSend, Of!SourceSending, SourceSending, Of!Sent, SentOn,
         Of!SourceMsg, SourceMsg, Of!Data, Data, Of!SourceClosed, SourceClosed,
         Of!SourceSent, SourceSent, Said, SourceActs, SinkActs
    <2> QED
      BY <2>5 DEF StepOf, Of!Next, Of!SourceStep
  <1>7. CASE SourceTake(p, c)
    <2>1. SourceListening(t) /\ path' = path
      BY <1>7 DEF SourceTake
    <2>2. /\ srcRx[p][c] # <<>> /\ src'[p][c] = SourceRecv(t, Head(srcRx[p][c]))
          /\ srcRx'[p][c] = Tail(srcRx[p][c])
      BY <1>0, <1>7, <2>1, RouterHeld DEF SourceTake
    <2>3. Of(p, c)!SourceTake
      BY <1>2, <1>3, <2>1, <2>2 DEF Of!SourceTake, Of!SourceListening, SourceListening,
         Of!SourceRecv, SourceRecv, Of!SinkClosed, SinkClosed, Of!Ack, Ack
    <2> QED
      BY <2>3 DEF StepOf, Of!Next, Of!SourceStep
  <1> QED
    BY <1>4, <1>5, <1>6, <1>7 DEF SourceIn

\* A step of the sink of a stream is that of its sink.
LEMMA SinkIsStep ==
    ASSUME Forwarding, [Next]_vars, NEW p \in Sides, NEW c \in Conns,
           \/ SinkTake(Peer(p), c) \/ SinkWrite(Peer(p), c)
           \/ SinkSend(Peer(p), c) \/ SinkFinish(Peer(p), c)
    PROVE  StepOf(p, c)
  <1> DEFINE q == Peer(p)
             k == snk[q][c]
  <1>0. /\ Types /\ Finish /\ Calm /\ TaskTypes /\ WayTypes /\ q \in Sides /\ q # p
        /\ DOMAIN snk = Sides /\ DOMAIN snk[q] = Conns
        /\ DOMAIN snkRx = Sides /\ DOMAIN snkRx[q] = Conns
        /\ DOMAIN wrote = Sides /\ DOMAIN wrote[q] = Conns
        /\ Numbers(p, c) /\ Count(p, c) /\ wrote[q][c] \in Nat
    BY SideFacts DEF Forwarding, ForwardInv, StreamInv, Types, TaskTypes
  <1>1. UNCHANGED <<src, srcRx, link>>
    BY DEF SinkTake, SinkWrite, SinkSend, SinkFinish
  <1>2. UNCHANGED <<StreamSrc(p, c), srcRx[p][c], link>>
    BY <1>1 DEF StreamSrc
  <1>3. k \in SinkState /\ StreamSnk(q, c) = k /\ StreamSnk(q, c)' = snk'[q][c]
    <2>1. k.pc # "none"
      BY DEF SinkTake, SinkWrite, SinkSend, SinkSending, SinkFinish
    <2> HIDE DEF q
    <2> QED
      BY <1>0, <2>1, TaskStates, StartedIs
  <1>4. CASE SinkTake(q, c)
    <2>1. k.pc = "recv" /\ UNCHANGED <<wrote, path>>
      BY <1>4 DEF SinkTake
    <2>2. /\ snkRx[q][c] # <<>> /\ snk'[q][c] = SinkRecv(k, Head(snkRx[q][c]))
          /\ snkRx'[q][c] = Tail(snkRx[q][c])
      <3>1. ~RouterDropped(q)
        BY <1>0, <2>1, RouterHeld
      <3> QED
        BY <1>0, <1>4, <3>1 DEF SinkTake
    <2>3. Of(p, c)!SinkTake
      BY <1>2, <1>3, <2>1, <2>2 DEF Of!SinkTake, Of!SinkRecv, SinkRecv
    <2> QED
      BY <2>3 DEF StepOf, Of!Next, Of!SinkStep
  <1>5. CASE SinkWrite(q, c)
    <2>1. PICK res \in WriteResults :
            /\ snk' = [snk EXCEPT ![q][c] = SinkIo(@, res)]
            /\ wrote' = IF snk[q][c].pc = "write" /\ res = "ok"
                        THEN [wrote EXCEPT ![q][c] = @ + 1] ELSE wrote
      BY <1>5 DEF SinkWrite
    <2>2. /\ k.pc \in {"write", "flush"} /\ snk'[q][c] = SinkIo(k, res)
          /\ wrote'[q][c] = IF k.pc = "write" /\ res = "ok" THEN wrote[q][c] + 1 ELSE wrote[q][c]
          /\ UNCHANGED <<snkRx, path>>
      BY <1>0, <1>5, <2>1 DEF SinkWrite
    <2>3. CASE k.pc = "write"
      <3>1. k.n = wrote[q][c] + 1
        BY <1>0, <2>3 DEF Numbers, Count, Writing, Loaded, Closed
      <3>2. Packed(wrote[q][c] + 1) = Append(Packed(wrote[q][c]), k.n)
        BY <1>0, <3>1, PackedGrows
      <3>3. Of(p, c)!Write(res)
        BY <1>2, <1>3, <2>2, <2>3, <3>2 DEF Of!Write, Of!SinkIo, SinkIo, Packed
      <3> QED
        BY <3>3 DEF StepOf, Of!Next, Of!SinkStep
    <2>4. CASE k.pc = "flush"
      <3>1. Of(p, c)!Flush(res)
        BY <1>2, <1>3, <2>2, <2>4 DEF Of!Flush, Of!SinkIo, SinkIo
      <3> QED
        BY <3>1 DEF StepOf, Of!Next, Of!SinkStep
    <2> QED
      BY <2>2, <2>3, <2>4
  <1>6. CASE SinkSend(q, c)
    <2> DEFINE m == StreamMsg(c, SinkMsg(k))
    <2>1. /\ SinkSending(k) /\ snk'[q][c] = SinkSent(k) /\ Send(q, m) /\ UNCHANGED <<snkRx, wrote>>
      BY <1>0, <1>6 DEF SinkSend
    <2>2. /\ m \in Msgs(q) /\ m.id = c /\ m.act \in SinkActs /\ m.act \notin SourceActs
          /\ ActionOf(m) = SinkMsg(k)
      BY <1>0, SaidIs
    <2> HIDE DEF m
    <2>3. Said(q, c, SinkActs)' = SentOn(Said(q, c, SinkActs), SinkMsg(k))
      BY <1>0, <2>1, <2>2, SaidSend
    <2>4. Said(p, c, SourceActs)' = Said(p, c, SourceActs)
      BY <1>0, <2>1, <2>2, SaidSend
    <2>5. Of(p, c)!SinkSend
      BY <1>2, <1>3, <2>1, <2>3, <2>4
         DEF Of!SinkSend, Of!SinkSending, SinkSending, Of!Sent, SentOn,
         Of!SinkMsg, SinkMsg, Of!Ack, Ack, Of!SinkClosed, SinkClosed,
         Of!SinkSent, SinkSent, Said, SourceActs, SinkActs
    <2> QED
      BY <2>5 DEF StepOf, Of!Next, Of!SinkStep
  <1>7. CASE SinkFinish(q, c)
    <2>1. /\ k.pc = "shutdown" /\ snk'[q][c] = SinkShutdown(k)
          /\ UNCHANGED <<snkRx, wrote, path>>
      BY <1>0, <1>7 DEF SinkFinish
    <2>2. Of(p, c)!SinkFinish
      BY <1>2, <1>3, <2>1 DEF Of!SinkFinish, Of!SinkShutdown, SinkShutdown
    <2> QED
      BY <2>2 DEF StepOf, Of!Next, Of!SinkStep
  <1> QED
    BY <1>4, <1>5, <1>6, <1>7

\* A task of another stream only puts messages of its own on the way.
LEMMA OtherTasks ==
    ASSUME Forwarding, NEW sd \in Sides, NEW d \in Conns, SourceIn(sd, d) \/ TaskStep(sd, d),
           NEW p \in Sides, NEW c \in Conns,
           SourceIn(sd, d) \/ SourceSend(sd, d) \/ SourceTake(sd, d) => sd # p \/ d # c,
           \/ SinkTake(sd, d) \/ SinkWrite(sd, d) \/ SinkSend(sd, d) \/ SinkFinish(sd, d)
              => sd # Peer(p) \/ d # c
    PROVE  StepOf(p, c)
  <1>0. TaskTypes /\ WayTypes /\ Peer(p) \in Sides
    BY SideFacts DEF Forwarding, ForwardInv, Types
  <1>1. link' = link
    BY DEF SourceIn, ReadPacket, EndOfInput, TaskStep, SourceSend, SourceTake,
       SinkTake, SinkWrite, SinkSend, SinkFinish
  <1>2. TasksRest(p, c)
    <2>1. CASE SourceIn(sd, d) \/ SourceSend(sd, d) \/ SourceTake(sd, d)
      <3>1. /\ \A e \in Sides, b \in Conns : e # sd \/ b # d => SameSource(e, b)
            /\ UNCHANGED <<snk, snkRx, wrote>>
        BY <1>0, <2>1, SourceSteps
      <3>2. SameSource(p, c) /\ SameSink(Peer(p), c)
        BY <2>1, <3>1 DEF SameSink
      <3> QED
        BY <3>2, TasksKept
    <2>2. CASE SinkTake(sd, d) \/ SinkWrite(sd, d) \/ SinkSend(sd, d) \/ SinkFinish(sd, d)
      <3>1. /\ \A e \in Sides, b \in Conns : e # sd \/ b # d => SameSink(e, b)
            /\ UNCHANGED <<src, srcRx>>
        BY <1>0, <2>2, SinkSteps
      <3>2. SameSource(p, c) /\ SameSink(Peer(p), c)
        BY <1>0, <2>2, <3>1 DEF SameSource
      <3> QED
        BY <3>2, TasksKept
    <2> QED
      BY <2>1, <2>2 DEF TaskStep
  <1>3. WaysRest(p, c)
    <2>1. CASE SourceSend(sd, d)
      <3>1. PICK m : m = StreamMsg(d, SourceMsg(src[sd][d]))
        OBVIOUS
      <3>2. SourceSending(src[sd][d]) /\ Send(sd, m) /\ src[sd][d].pc # "none"
        BY <2>1, <3>1 DEF SourceSend, SourceSending
      <3>3. m \in Msgs(sd) /\ m.id = d /\ m.act \notin SinkActs
        BY <1>0, <3>1, <3>2, TaskStates, SaidIs
      <3>4. sd # p \/ d # c
        BY <2>1
      <3> QED
        BY <1>0, <3>2, <3>3, <3>4, WaysSend
    <2>2. CASE SinkSend(sd, d)
      <3>1. PICK m : m = StreamMsg(d, SinkMsg(snk[sd][d]))
        OBVIOUS
      <3>2. Send(sd, m)
        BY <2>2, <3>1 DEF SinkSend
      <3>3. m \in Msgs(sd) /\ m.id = d /\ m.act \notin SourceActs
        BY <3>1, SaidIs
      <3>4. sd # Peer(p) \/ d # c
        BY <2>2
      <3> QED
        BY <1>0, <3>2, <3>3, <3>4, WaysSend
    <2>3. CASE \/ SourceIn(sd, d) \/ SourceTake(sd, d)
               \/ SinkTake(sd, d) \/ SinkWrite(sd, d) \/ SinkFinish(sd, d)
      <3>1. path' = path
        BY <2>3 DEF SourceIn, ReadPacket, EndOfInput, SourceTake, SinkTake, SinkWrite, SinkFinish
      <3> QED
        BY <3>1, WaysKept
    <2> QED
      BY <2>1, <2>2, <2>3 DEF TaskStep
  <1> QED
    BY <1>1, <1>2, <1>3, StreamRests

\* A message that is not for a task is for no stream.
LEMMA OtherMsgs ==
    ASSUME WayTypes, NEW sd \in Sides, NEW m \in Msgs(sd), Send(sd, m),
           m.act \notin {"Data", "SourceClosed", "Ack", "SinkClosed"},
           NEW p \in Sides, NEW c
    PROVE  WaysRest(p, c)
  BY WaysSend DEF SourceActs, SinkActs

\* The listener, the connecter, the senders and serve() leave the streams alone; the
\* start of its tasks is the beginning of a stream.
LEMMA EndsRest ==
    ASSUME Forwarding, NEW p \in Sides, NEW c \in Conns,
           \/ ListenerAccept \/ ListenerAcceptFails \/ ListenerEnd \/ ListenerStep
           \/ ConnecterStep
           \/ \E d \in Conns : Dialed(d) \/ DialReply(d)
           \/ \E sd \in Sides : SenderFinish(sd)
           \/ ServeExit \/ ServeKill \/ ServeJoin
    PROVE  StepOf(p, c)
  <1>0. /\ Types /\ Requested /\ TaskTypes /\ WayTypes /\ Peer(p) \in Sides
        /\ "client" \in Sides /\ "server" \in Sides
    BY SideFacts DEF Forwarding, ForwardInv, Types
  <1>1. UNCHANGED taskVars => TasksRest(p, c)
    <2>1. UNCHANGED taskVars => SameSource(p, c) /\ SameSink(Peer(p), c)
      BY DEF taskVars, SameSource, SameSink
    <2> QED
      BY <2>1, TasksKept
  <1>2. CASE \/ ListenerAccept \/ ListenerAcceptFails \/ ListenerEnd
             \/ ConnecterStep \/ ServeKill \/ ServeJoin \/ \E d \in Conns : Dialed(d)
    <2>1. UNCHANGED taskVars /\ path' = path /\ link' = link
      BY <1>2 DEF ListenerAccept, ListenerAcceptFails, ListenerEnd, ConnecterStep,
         ConnecterRecv, ConnecterNone, ServeKill, ServeJoin, Dialed
    <2> QED
      BY <1>1, <2>1, WaysKept, StreamRests
  <1>a. ASSUME NEW sd \in Sides, NEW m \in Msgs(sd), Send(sd, m),
               m.act \notin {"Data", "SourceClosed", "Ack", "SinkClosed"},
               TasksRest(p, c), link' = link
        PROVE  StepOf(p, c)
    BY <1>0, <1>a, OtherMsgs, StreamRests
  <1>3. CASE ListenerRequest
    <2>1. /\ Connect(listener.conn) \in Msgs("client")
          /\ Connect(listener.conn).act = "Connect"
      BY <1>0, <1>3 DEF ListenerRequest, Types, PortTypes, Msgs, Requests, Connect
    <2> QED
      BY <1>0, <1>1, <1>3, <1>a, <2>1 DEF ListenerRequest
  <1>4. CASE ListenerClose
    <2>1. ListenerClosed \in Msgs("client") /\ ListenerClosed.act = "ListenerClosed"
      BY DEF Msgs, Requests, ListenerClosed
    <2> QED
      BY <1>0, <1>1, <1>4, <1>a, <2>1 DEF ListenerClose
  <1>5. CASE ListenerResponse
    <2>1. path' = path /\ link' = link
      BY <1>5 DEF ListenerResponse
    <2>2. TasksRest(p, c)
      <3>1. CASE Head(listenRx).act = "Connected"
        <4>1. listener.conn \in Conns
          BY <1>0, <1>5 DEF ListenerResponse, Types, PortTypes
        <4>2. StartsAt("client", listener.conn)
          BY <1>5, <3>1 DEF StartsAt
        <4> QED
          BY <1>0, <4>1, <4>2, TasksStart
      <3>2. CASE Head(listenRx).act # "Connected"
        BY <1>1, <1>5, <3>2 DEF ListenerResponse
      <3> QED
        BY <3>1, <3>2
    <2> QED
      BY <2>1, <2>2, WaysKept, StreamRests
  <1>6. ASSUME NEW d \in Conns, DialReply(d)
        PROVE  StepOf(p, c)
    <2>1. TasksRest(p, c)
      <3>1. CASE dial[d] = "ok"
        <4>1. StartsAt("server", d)
          BY <1>6, <3>1 DEF StartsAt
        <4> QED
          BY <1>0, <4>1, TasksStart
      <3>2. CASE dial[d] # "ok"
        BY <1>1, <1>6, <3>2 DEF DialReply
      <3> QED
        BY <3>1, <3>2
    <2>2. PICK ok \in BOOLEAN : ok = (dial[d] = "ok")
      OBVIOUS
    <2>3. /\ ConnectResponse(d, ok) \in Msgs("server")
          /\ ConnectResponse(d, ok).act \in {"Connected", "Refused"}
      BY DEF Msgs, Responses, Answers, ConnectResponse
    <2>4. Send("server", ConnectResponse(d, ok)) /\ link' = link
      BY <1>6, <2>2 DEF DialReply
    <2> QED
      BY <1>0, <1>a, <2>1, <2>3, <2>4
  <1>7. ASSUME NEW sd \in Sides, SenderFinish(sd)
        PROVE  StepOf(p, c)
    <2>1. Finished \in Msgs(sd) /\ Finished.act = "Finished"
      BY DEF Msgs, Finished
    <2> QED
      BY <1>1, <1>7, <1>a, <2>1 DEF SenderFinish
  <1>8. CASE ServeExit
    <2>1. Exit \in Msgs("server") /\ Exit.act = "Exit"
      BY DEF Msgs, Exit
    <2> QED
      BY <1>0, <1>1, <1>8, <1>a, <2>1 DEF ServeExit
  <1> QED
    BY <1>2, <1>3, <1>4, <1>5, <1>6, <1>7, <1>8 DEF ListenerStep

\* What a receiver that goes on does with the message m.
Routes(sd, m) ==
    \/ /\ m.act \in SourceActs /\ m.id \in Conns
       /\ snk[sd][m.id] # NoSink /\ ~SinkEnded(snk[sd][m.id]) /\ HasRoom(snkRx[sd][m.id])
       /\ snkRx' = [snkRx EXCEPT ![sd][m.id] = Append(@, ActionOf(m))]
       /\ srcRx' = srcRx
    \/ /\ m.act \in SinkActs /\ m.id \in Conns
       /\ src[sd][m.id] # NoSource
       /\ SourceEnded(src[sd][m.id]) \/ HasRoom(srcRx[sd][m.id])
       /\ srcRx' = IF SourceEnded(src[sd][m.id]) THEN srcRx
                   ELSE [srcRx EXCEPT ![sd][m.id] = Append(@, ActionOf(m))]
       /\ snkRx' = snkRx
    \/ m.act \notin SourceActs \cup SinkActs /\ UNCHANGED <<srcRx, snkRx>>

LEMMA ReceiveRoutes ==
    ASSUME Types, ReceiversSurvive', NEW sd \in Sides, Receive(sd)
    PROVE  Routes(sd, Head(path[Peer(sd)]))
  <1> DEFINE m == Head(path[Peer(sd)])
  <1>1. m \in Msgs(Peer(sd)) /\ Peer(sd) \in Sides
    BY ReceiveFacts, SideFacts DEF Types
  <1>2. ~Fails(sd) /\ ~Fails("client") /\ ~Fails("server")
    BY SideFacts DEF Fails, ReceiversSurvive, Types, EndTypes, ReceiverState
  <1>3. m.act \in SourceActs \cup SinkActs => m.id \in Conns
    BY <1>1, MsgFacts, ActionTypes DEF SourceActs, SinkActs
  <1>4. \/ m.act \in SourceActs /\ ToSink(sd, m)
        \/ m.act \in SinkActs /\ ToSource(sd, m)
        \/ m.act \notin SourceActs \cup SinkActs /\ UNCHANGED <<srcRx, snkRx>>
    BY <1>2 DEF Receive, ToConnecter, ToListener, SourceActs, SinkActs
  <1> HIDE DEF m
  <1>5. Routes(sd, m)
    BY <1>2, <1>3, <1>4 DEF Routes, ToSink, ToSource, SinkOver
  <1> QED
    BY <1>5 DEF m

\* A message is given to its task, which is there to take it.
LEMMA ReceiveIsStep ==
    ASSUME Forwarding, ReceiversSurvive', [Next]_vars, NEW p \in Sides, NEW c \in Conns,
           NEW sd \in Sides, Receive(sd)
    PROVE  StepOf(p, c)
  <1> DEFINE q == Peer(p)
             m == Head(path[Peer(sd)])
  <1>0. /\ Types /\ TaskTypes /\ WayTypes /\ q \in Sides /\ q # p
        /\ Peer(q) = p /\ Peer(p) = q /\ (sd = p \/ sd = q) /\ Peer(sd) \in Sides
        /\ DOMAIN srcRx = Sides /\ DOMAIN snkRx = Sides
        /\ \A e \in Sides : DOMAIN srcRx[e] = Conns /\ DOMAIN snkRx[e] = Conns
    BY SideFacts DEF Forwarding, ForwardInv, Types, TaskTypes
  <1>1. UNCHANGED <<src, snk, wrote, link>>
    BY DEF Receive
  <1>2. UNCHANGED <<StreamSrc(p, c), StreamSnk(q, c), wrote[q][c], link>>
    BY <1>1 DEF StreamSrc, StreamSnk
  <1>3. Routes(sd, m)
    BY <1>0, ReceiveRoutes
  <1>4. ASSUME NEW e \in Sides, NEW acts
        PROVE  IF e = Peer(sd) /\ m.id = c /\ m.act \in acts
               THEN /\ Said(e, c, acts) # <<>>
                    /\ Head(Said(e, c, acts)) = ActionOf(m)
                    /\ Tail(Said(e, c, acts)) = Said(e, c, acts)'
               ELSE Said(e, c, acts)' = Said(e, c, acts)
    BY <1>0, SaidReceive
  <1> HIDE DEF m, q
  <1>5. CASE sd = q /\ m.id = c /\ m.act \in SourceActs
    <2>1. m.act \notin SinkActs
      BY <1>5 DEF SourceActs, SinkActs
    <2>2. /\ Said(p, c, SourceActs) # <<>> /\ Head(Said(p, c, SourceActs)) = ActionOf(m)
          /\ Said(p, c, SourceActs)' = Tail(Said(p, c, SourceActs))
          /\ Said(q, c, SinkActs)' = Said(q, c, SinkActs)
      BY <1>0, <1>4, <1>5, <2>1
    <2>3. /\ StreamSnk(q, c) = snk[q][c] /\ ~SinkEnded(snk[q][c]) /\ HasRoom(snkRx[q][c])
          /\ snkRx'[q][c] = Append(snkRx[q][c], ActionOf(m)) /\ srcRx' = srcRx
      BY <1>0, <1>3, <1>5, <2>1 DEF Routes, StreamSnk
    <2>4. Of(p, c)!RouteToSink
      BY <1>2, <2>2, <2>3 DEF Of!RouteToSink, Of!SinkEnded, SinkEnded, Of!HasRoom, HasRoom,
         Of!ChanCap, ChanCap, Said, SourceActs, SinkActs, q
    <2> QED
      BY <2>4 DEF StepOf, Of!Next
  <1>6. CASE sd = p /\ m.id = c /\ m.act \in SinkActs
    <2>1. m.act \notin SourceActs
      BY <1>6 DEF SourceActs, SinkActs
    <2>2. /\ Said(q, c, SinkActs) # <<>> /\ Head(Said(q, c, SinkActs)) = ActionOf(m)
          /\ Said(q, c, SinkActs)' = Tail(Said(q, c, SinkActs))
          /\ Said(p, c, SourceActs)' = Said(p, c, SourceActs)
      BY <1>0, <1>4, <1>6, <2>1 DEF q
    <2>3. /\ StreamSrc(p, c) = src[p][c] /\ snkRx' = snkRx
          /\ SourceEnded(src[p][c]) \/ HasRoom(srcRx[p][c])
          /\ srcRx'[p][c] = IF SourceEnded(src[p][c]) THEN srcRx[p][c]
                            ELSE Append(srcRx[p][c], ActionOf(m))
      <3>1. /\ src[p][c] # NoSource /\ snkRx' = snkRx
            /\ SourceEnded(src[p][c]) \/ HasRoom(srcRx[p][c])
            /\ srcRx' = IF SourceEnded(src[p][c]) THEN srcRx
                        ELSE [srcRx EXCEPT ![p][c] = Append(@, ActionOf(m))]
        BY <1>3, <1>6, <2>1 DEF Routes
      <3> QED
        BY <1>0, <3>1 DEF StreamSrc
    <2>4. Of(p, c)!RouteToSource
      BY <1>2, <2>2, <2>3 DEF Of!RouteToSource, Of!SourceEnded, SourceEnded, Of!HasRoom, HasRoom,
         Of!ChanCap, ChanCap, Said, SourceActs, SinkActs, q
    <2> QED
      BY <2>4 DEF StepOf, Of!Next
  <1>7. CASE /\ ~(sd = q /\ m.id = c /\ m.act \in SourceActs)
             /\ ~(sd = p /\ m.id = c /\ m.act \in SinkActs)
    <2>1. WaysRest(p, c)
      <3>1. Said(p, c, SourceActs)' = Said(p, c, SourceActs)
        BY <1>0, <1>4, <1>7
      <3>2. Said(q, c, SinkActs)' = Said(q, c, SinkActs)
        BY <1>0, <1>4, <1>7 DEF q
      <3> QED
        BY <3>1, <3>2 DEF WaysRest, q
    <2>2. srcRx'[p][c] = srcRx[p][c]
      BY <1>0, <1>3, <1>7 DEF Routes
    <2>3. snkRx'[q][c] = snkRx[q][c]
      BY <1>0, <1>3, <1>7 DEF Routes
    <2>4. TasksRest(p, c)
      BY <1>2, <2>2, <2>3 DEF TasksRest, q
    <2> QED
      BY <1>2, <2>1, <2>4, StreamRests
  <1> QED
    BY <1>5, <1>6, <1>7

\* The end of the client takes the connection with it.
LEMMA ClientIsStep ==
    ASSUME Faults = {}, Forwarding, NEW p \in Sides, NEW c \in Conns, ClientStatus \/ ClientJoin
    PROVE  StepOf(p, c)
  <1>0. Types /\ Finish /\ Calm /\ WayTypes /\ Peer(p) \in Sides
    BY SideFacts DEF Forwarding, ForwardInv, Types
  <1>1. UNCHANGED taskVars
    BY DEF ClientStatus, ClientJoin
  <1>2. TasksRest(p, c)
    <2>1. SameSource(p, c) /\ SameSink(Peer(p), c)
      BY <1>1 DEF taskVars, SameSource, SameSink
    <2> QED
      BY <2>1, TasksKept
  <1>3. CASE UNCHANGED <<link, path>>
    BY <1>2, <1>3, WaysKept, StreamRests
  <1>4. CASE link = "up" /\ Disconnect
    <2>1. ASSUME NEW e \in Sides, NEW acts
          PROVE  Begins(Said(e, c, acts)', Said(e, c, acts))
      <3>1. PICK i \in 0..Len(path["client"]), j \in 0..Len(path["server"]) :
              path' = [s \in Sides |-> SubSeq(path[s], 1, IF s = "client" THEN i ELSE j)]
        BY <1>4 DEF Disconnect
      <3>2. PICK a \in Seq(Msgs(e)) : a = path[e]
        BY <1>0 DEF WayTypes
      <3>3. PICK k \in 0..Len(a) : path'[e] = SubSeq(a, 1, k)
        BY <3>1, <3>2, SideFacts
      <3>4. Begins(Actions(SubSeq(a, 1, k), c, acts), Actions(a, c, acts))
        BY ActionsMove
      <3> QED
        BY <3>2, <3>3, <3>4 DEF Said
    <2>2. /\ Begins(Said(p, c, SourceActs)', Said(p, c, SourceActs))
          /\ Begins(Said(Peer(p), c, SinkActs)', Said(Peer(p), c, SinkActs))
      BY <1>0, <2>1
    <2>3. link' = "down"
      BY <1>4 DEF Disconnect
    <2>4. Of(p, c)!LinkDown
      BY <1>2, <1>4, <2>2, <2>3
         DEF Of!LinkDown, TasksRest, Begins, Said, SourceActs, SinkActs
    <2> QED
      BY <2>4 DEF StepOf, Of!Next
  <1>5. UNCHANGED <<link, path>> \/ (link = "up" /\ Disconnect)
    BY <1>0, CalmSteps DEF ClientJoin, ClientExits
  <1> QED
    BY <1>3, <1>4, <1>5

\* Each step of a session in which nothing fails is a step of the stream, or none.
LEMMA ForwardStreamNext ==
    ASSUME Faults = {}, Forwarding, Forwarding', [Next]_vars, NEW p \in Sides, NEW c \in Conns
    PROVE  StepOf(p, c)
  <1>0. /\ Types /\ Finish /\ Calm /\ ReceiversSurvive' /\ Peer(p) \in Sides
        /\ Peer(Peer(p)) = p
    BY SideFacts DEF Forwarding, ForwardInv, SurviveInv
  <1>1. CASE \/ ListenerAccept \/ ListenerAcceptFails \/ ListenerEnd \/ ListenerStep
             \/ ConnecterStep
             \/ \E d \in Conns : Dialed(d) \/ DialReply(d)
             \/ \E sd \in Sides : SenderFinish(sd)
             \/ ServeExit \/ ServeKill \/ ServeJoin
    BY <1>1, EndsRest
  <1>2. ASSUME NEW sd \in Sides, NEW d \in Conns, SourceIn(sd, d) \/ TaskStep(sd, d)
        PROVE  StepOf(p, c)
    <2>1. CASE sd = p /\ d = c /\ (SourceIn(p, c) \/ SourceSend(p, c) \/ SourceTake(p, c))
      BY <2>1, SourceIsStep
    <2>2. CASE /\ sd = Peer(p) /\ d = c
               /\ \/ SinkTake(Peer(p), c) \/ SinkWrite(Peer(p), c)
                  \/ SinkSend(Peer(p), c) \/ SinkFinish(Peer(p), c)
      BY <2>2, SinkIsStep
    <2>3. CASE /\ SourceIn(sd, d) \/ SourceSend(sd, d) \/ SourceTake(sd, d) => sd # p \/ d # c
               /\ \/ SinkTake(sd, d) \/ SinkWrite(sd, d) \/ SinkSend(sd, d) \/ SinkFinish(sd, d)
                  => sd # Peer(p) \/ d # c
      BY <1>2, <2>3, OtherTasks
    <2> QED
      BY <2>1, <2>2, <2>3
  <1>3. ASSUME NEW sd \in Sides, ReceiverStep(sd)
        PROVE  StepOf(p, c)
    <2>1. Receive(sd)
      BY <1>0, <1>3, CalmSteps DEF ReceiverStep
    <2> QED
      BY <1>0, <2>1, ReceiveIsStep
  <1>4. CASE ClientStatus \/ ClientJoin
    BY <1>4, ClientIsStep
  <1>5. ~LinkDown
    BY <1>0, CalmSteps
  <1>6. CASE UNCHANGED vars
    <2>1. SameSource(p, c) /\ SameSink(Peer(p), c) /\ path' = path /\ link' = link
      BY <1>6 DEF vars, taskVars, SameSource, SameSink
    <2> QED
      BY <2>1, TasksKept, WaysKept, StreamRests
  <1>7. \/ \/ ListenerAccept \/ ListenerAcceptFails \/ ListenerEnd \/ ListenerStep
           \/ ConnecterStep
           \/ \E d \in Conns : Dialed(d) \/ DialReply(d)
           \/ \E sd \in Sides : SenderFinish(sd)
           \/ ServeExit \/ ServeKill \/ ServeJoin
        \/ \E sd \in Sides, d \in Conns : SourceIn(sd, d) \/ TaskStep(sd, d)
        \/ \E sd \in Sides : ReceiverStep(sd)
        \/ ClientStatus \/ ClientJoin
        \/ UNCHANGED vars
    BY <1>5 DEF Next, Terminated
  <1> QED
    BY <1>1, <1>2, <1>3, <1>4, <1>6, <1>7

\* A stream begins when both its tasks are still to be started.
LEMMA ForwardStreamInit ==
    ASSUME Init, NEW p \in Sides, NEW c \in Conns
    PROVE  Of(p, c)!Init
  <1>0. Peer(p) \in Sides
    BY SideFacts
  <1>1. /\ \A e \in Sides : StreamSrc(e, c) = SourceNew /\ StreamSnk(e, c) = SinkNew
        /\ \A e \in Sides : srcRx[e][c] = <<>> /\ snkRx[e][c] = <<>> /\ wrote[e][c] = 0
        /\ link = "up"
    BY DEF Init, StreamSrc, StreamSnk
  <1>2. ASSUME NEW e \in Sides, NEW acts PROVE Said(e, c, acts) = <<>>
    BY ActionsOfNone DEF Said, Init
  <1>3. Said(p, c, SourceActs) = <<>> /\ Said(Peer(p), c, SinkActs) = <<>>
    BY <1>0, <1>2
  <1>4. Packed(wrote[Peer(p)][c]) = <<>>
    BY <1>0, <1>1, PackedGrows
  <1> QED
    BY <1>0, <1>1, <1>3, <1>4 DEF Of!Init, Of!SourceNew, SourceNew, Of!SinkNew, SinkNew,
       Said, SourceActs, SinkActs, Packed

\* What the streams need holds at first and is kept.
LEMMA ForwardingHolds ==
    ASSUME RemoteFirst = FALSE, "other" \notin WriteResults, Faults = {}
    PROVE  (Init => Forwarding) /\ (Forwarding /\ [Next]_vars => Forwarding')
  <1>1. ASSUME Init PROVE Forwarding
    <2>1. Calm
      BY <1>1, SideFacts DEF Init, Calm
    <2>2. ASSUME NEW p \in Sides, NEW c \in Conns PROVE Numbers(p, c)
      <3>1. /\ path[p] = <<>> /\ snkRx[Peer(p)][c] = <<>> /\ snk[Peer(p)][c] = NoSink
        BY <1>1, SideFacts DEF Init
      <3>2. \A C : ~Has(<<>>, C)
        BY EmptyOrder
      <3> QED
        BY <3>1, <3>2 DEF Numbers, Writing, NoSink
    <2> QED
      BY <1>1, <2>1, <2>2, ForwardInit, SurviveInit DEF Forwarding
  <1>2. ASSUME Forwarding, [Next]_vars PROVE Forwarding'
    <2>1. ForwardInv /\ SurviveInv /\ Types /\ Requested /\ Finish /\ Calm
      BY <1>2 DEF Forwarding, ForwardInv
    <2>2. ForwardInv' /\ SurviveInv'
      BY <1>2, <2>1, ForwardNext, SurviveNext
    <2>3. Calm'
      BY <1>2, <2>1, <2>2, CalmNext DEF SurviveInv
    <2>4. ASSUME NEW p \in Sides, NEW c \in Conns PROVE Numbers(p, c)'
      <3>1. Token(p, c) /\ Numbers(p, c)
        BY <1>2 DEF Forwarding, ForwardInv, StreamInv
      <3> QED
        BY <1>2, <2>1, <3>1, NumbersNext
    <2> QED
      BY <2>2, <2>3, <2>4 DEF Forwarding
  <1> QED
    BY <1>1, <1>2

\* The stream from the client to the server is ToServer, for connection 1.
LEMMA ToServerIsOf ==
    /\ Of("client", 1)!Init => ToServer!Init
    /\ StepOf("client", 1) => [ToServer!Next]_(ToServer!vars)
  BY Zenon DEF StepOf, Of!Init, Of!Next, Of!vars, Of!Read, Of!EndOfInput,
     Of!SourceStep, Of!SourceSend, Of!SourceTake, Of!SourceNone, Of!SinkStep, Of!SinkTake,
     Of!SinkSend, Of!SinkFinish, Of!Write, Of!Flush, Of!SinkNone, Of!RouteToSink,
     Of!RouteToSource, Of!ServeSinkClosed, Of!LinkDown, Of!ShutdownAtSink,
     Of!ShutdownAtSource, Of!BeginShutdownAtSink, Of!BeginShutdownAtSource, Of!ShutdownSink,
     Of!ShutdownSource, Of!ReceiverFails, Of!Terminated, Of!Sent, Of!Silent, Of!ChanCap,
     Of!HasRoom, Of!Data, Of!SourceClosed, Of!Ack, Of!SinkClosed, Of!SourceNew, Of!SourceRead,
     Of!SourceBreak, Of!SourceSending, Of!SourceMsg, Of!SourceSent, Of!SourceListening,
     Of!SourceRecv, Of!SourceRecvNone, Of!SourceEnded, Of!SinkNew, Of!SinkRecv,
     Of!SinkRecvNone, Of!SinkIo, Of!SinkSending, Of!SinkMsg, Of!SinkSent, Of!SinkShutdown,
     Of!SinkEnded, ToServer!Init, ToServer!Next, ToServer!vars, ToServer!Read,
     ToServer!EndOfInput, ToServer!SourceStep, ToServer!SourceSend, ToServer!SourceTake,
     ToServer!SourceNone, ToServer!SinkStep, ToServer!SinkTake, ToServer!SinkSend,
     ToServer!SinkFinish, ToServer!Write, ToServer!Flush, ToServer!SinkNone,
     ToServer!RouteToSink, ToServer!RouteToSource, ToServer!ServeSinkClosed,
     ToServer!LinkDown, ToServer!ShutdownAtSink, ToServer!ShutdownAtSource,
     ToServer!BeginShutdownAtSink, ToServer!BeginShutdownAtSource, ToServer!ShutdownSink,
     ToServer!ShutdownSource, ToServer!ReceiverFails, ToServer!Terminated, ToServer!Sent,
     ToServer!Silent, ToServer!ChanCap, ToServer!HasRoom, ToServer!Data,
     ToServer!SourceClosed, ToServer!Ack, ToServer!SinkClosed, ToServer!SourceNew,
     ToServer!SourceRead, ToServer!SourceBreak, ToServer!SourceSending, ToServer!SourceMsg,
     ToServer!SourceSent, ToServer!SourceListening, ToServer!SourceRecv,
     ToServer!SourceRecvNone, ToServer!SourceEnded, ToServer!SinkNew, ToServer!SinkRecv,
     ToServer!SinkRecvNone, ToServer!SinkIo, ToServer!SinkSending, ToServer!SinkMsg,
     ToServer!SinkSent, ToServer!SinkShutdown, ToServer!SinkEnded, Peer

\* The one from the server to the client is ToClient.
LEMMA ToClientIsOf ==
    /\ Of("server", 1)!Init => ToClient!Init
    /\ StepOf("server", 1) => [ToClient!Next]_(ToClient!vars)
  BY Zenon DEF StepOf, Of!Init, Of!Next, Of!vars, Of!Read, Of!EndOfInput,
     Of!SourceStep, Of!SourceSend, Of!SourceTake, Of!SourceNone, Of!SinkStep, Of!SinkTake,
     Of!SinkSend, Of!SinkFinish, Of!Write, Of!Flush, Of!SinkNone, Of!RouteToSink,
     Of!RouteToSource, Of!ServeSinkClosed, Of!LinkDown, Of!ShutdownAtSink,
     Of!ShutdownAtSource, Of!BeginShutdownAtSink, Of!BeginShutdownAtSource, Of!ShutdownSink,
     Of!ShutdownSource, Of!ReceiverFails, Of!Terminated, Of!Sent, Of!Silent, Of!ChanCap,
     Of!HasRoom, Of!Data, Of!SourceClosed, Of!Ack, Of!SinkClosed, Of!SourceNew, Of!SourceRead,
     Of!SourceBreak, Of!SourceSending, Of!SourceMsg, Of!SourceSent, Of!SourceListening,
     Of!SourceRecv, Of!SourceRecvNone, Of!SourceEnded, Of!SinkNew, Of!SinkRecv,
     Of!SinkRecvNone, Of!SinkIo, Of!SinkSending, Of!SinkMsg, Of!SinkSent, Of!SinkShutdown,
     Of!SinkEnded, ToClient!Init, ToClient!Next, ToClient!vars, ToClient!Read,
     ToClient!EndOfInput, ToClient!SourceStep, ToClient!SourceSend, ToClient!SourceTake,
     ToClient!SourceNone, ToClient!SinkStep, ToClient!SinkTake, ToClient!SinkSend,
     ToClient!SinkFinish, ToClient!Write, ToClient!Flush, ToClient!SinkNone,
     ToClient!RouteToSink, ToClient!RouteToSource, ToClient!ServeSinkClosed,
     ToClient!LinkDown, ToClient!ShutdownAtSink, ToClient!ShutdownAtSource,
     ToClient!BeginShutdownAtSink, ToClient!BeginShutdownAtSource, ToClient!ShutdownSink,
     ToClient!ShutdownSource, ToClient!ReceiverFails, ToClient!Terminated, ToClient!Sent,
     ToClient!Silent, ToClient!ChanCap, ToClient!HasRoom, ToClient!Data,
     ToClient!SourceClosed, ToClient!Ack, ToClient!SinkClosed, ToClient!SourceNew,
     ToClient!SourceRead, ToClient!SourceBreak, ToClient!SourceSending, ToClient!SourceMsg,
     ToClient!SourceSent, ToClient!SourceListening, ToClient!SourceRecv,
     ToClient!SourceRecvNone, ToClient!SourceEnded, ToClient!SinkNew, ToClient!SinkRecv,
     ToClient!SinkRecvNone, ToClient!SinkIo, ToClient!SinkSending, ToClient!SinkMsg,
     ToClient!SinkSent, ToClient!SinkShutdown, ToClient!SinkEnded, Peer

\* Each direction of a forwarded connection is a Stream: although its two tasks are
\* started at different times, and its messages share a way with the requests, the
\* answers and the other connections, each step of the session is one of the two tasks,
\* the two ways and the two receivers of Stream.tla, or does not concern it.  The first
\* two hypotheses keep the receivers from failing, as above; that nothing else fails, up
\* to the end of the client, is what the mapping of ForwardIsStream is made for, which
\* has receivers that route for ever; and it speaks of connection 1.
THEOREM ForwardIsStreamCorrect ==
    ASSUME RemoteFirst = FALSE, "other" \notin WriteResults, Faults = {}, MaxConns # 0
    PROVE  Spec => ForwardIsStream
  <1>1. "client" \in Sides /\ "server" \in Sides /\ 1 \in Conns
    BY SideFacts, PortForwardAssumption DEF Conns
  <1>2. Init => ToServer!Init /\ ToClient!Init
    BY <1>1, ForwardStreamInit, ToServerIsOf, ToClientIsOf
  <1>3. Forwarding /\ Forwarding' /\ [Next]_vars =>
          [ToServer!Next]_(ToServer!vars) /\ [ToClient!Next]_(ToClient!vars)
    <2>1. Forwarding /\ Forwarding' /\ [Next]_vars => StepOf("client", 1) /\ StepOf("server", 1)
      BY <1>1, ForwardStreamNext
    <2> QED
      BY <2>1, ToServerIsOf, ToClientIsOf
  <1>4. (Init => Forwarding) /\ (Forwarding /\ [Next]_vars => Forwarding')
    BY ForwardingHolds
  <1> QED
    BY <1>2, <1>3, <1>4, PTL DEF Spec, ForwardIsStream, ToServer!Spec, ToClient!Spec

=============================================================================
