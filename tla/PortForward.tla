---------------------------- MODULE PortForward ----------------------------
(***************************************************************************)
(* Port forwarding (-L) within a session.  The listener task of the client   *)
(* accepts a connection, asks the connecter task of the server to connect    *)
(* to the remote address, waits for the answer, and starts a source and a    *)
(* sink for it; the server starts its own two when it has connected.        *)
(* One forwarded port; the session's standard streams have ended already     *)
(* (Session.tla), so its end is up to the forwarded connections.  The queue,  *)
(* the sender and the connection of a direction are one FIFO, as in Stream.  *)
(* Connection ids count from 1.                                             *)
(***************************************************************************)
EXTENDS StreamTasks

CONSTANTS
    MaxConns,     \* bound on the connection ids
    Packets,      \* packets a peer of a forwarded connection sends, per side
    RemoteFirst,  \* whether a remote peer may speak or close before it is spoken to
    WriteResults, \* outcomes of write_all and flush that the environment produces
    Faults        \* what may fail: the connection ("link")

Sides == {"client", "server"}
Conns == 1..MaxConns

ASSUME PortForwardAssumption ==
    /\ MaxConns \in Nat
    /\ Packets \in [Sides -> Nat]
    /\ RemoteFirst \in BOOLEAN
    /\ WriteResults \subseteq IoResult
    /\ Faults \subseteq {"link"}

Peer(sd) == IF sd = "client" THEN "server" ELSE "client"

VARIABLES
    listener,  \* the listener task and its next or current connection id
    listenRx,  \* the channel on which it awaits the ConnectResponse
    connecter, \* the connecter task: recv or done
    connRx,    \* its channel of ListenerActions
    dial,      \* per connection: the task spawned by connect()
    src, srcRx, snk, snkRx, \* per side and connection, as in Stream
    wrote,     \* per side and connection: packets written by the sink
    path,      \* per side: the messages it has sent
    link,      \* the connection: up or down
    receiver,  \* per side: the receiver task, and what its shutdown has to close
    sender,    \* per side: the sender task
    serve,     \* the server's serve()
    status,    \* the oneshot for the exit status
    client     \* the client's serve() and main()

taskVars == <<src, srcRx, snk, snkRx, wrote>>
portVars == <<listener, listenRx, connecter, connRx, dial>>
sessionVars == <<receiver, sender, serve, status, client>>
vars == <<portVars, taskVars, path, link, sessionVars>>

-----------------------------------------------------------------------------
(* Messages.                                                               *)

StreamMsg(c, a) == [id |-> c, act |-> a.act, n |-> a.n]
Connect(c) == [id |-> c, act |-> "Connect", n |-> 0]
ListenerClosed == [id |-> 0, act |-> "ListenerClosed", n |-> 0]
ConnectResponse(c, ok) == [id |-> c, act |-> IF ok THEN "Connected" ELSE "Refused", n |-> 0]
Exit == [id |-> 0, act |-> "Exit", n |-> 0]
Finished == [id |-> 0, act |-> "Finished", n |-> 0]

\* Mutant: a message that finds the way busy is dropped.
TrySend(sd, m) ==
    path' = IF link = "up" /\ path[sd] = <<>> THEN [path EXCEPT ![sd] = <<m>>] ELSE path

\* tx.send(m) on the send_msg channel of a side.
Send(sd, m) == path' = IF link = "up" THEN [path EXCEPT ![sd] = Append(@, m)] ELSE path

\* A connection for which a side has not started its two tasks.
NoSource == [pc |-> "none", n |-> 0]
NoSink == [pc |-> "none", n |-> 0, closed |-> FALSE]

SourceOver(t) == t = NoSource \/ SourceEnded(t)
SinkOver(t) == t = NoSink \/ SinkEnded(t)

\* source::Task::new and sink::Task::new, and their entries in the router.
StartTasks(sd, c) ==
    /\ src' = [src EXCEPT ![sd][c] = SourceNew]
    /\ snk' = [snk EXCEPT ![sd][c] = SinkNew]
    /\ UNCHANGED <<srcRx, snkRx, wrote>>

Init ==
    /\ listener = [pc |-> "accept", conn |-> 1]
    /\ listenRx = <<>>
    /\ connecter = "recv"
    /\ connRx = <<>>
    /\ dial = [c \in Conns |-> "none"]
    /\ src = [sd \in Sides |-> [c \in Conns |-> NoSource]]
    /\ snk = [sd \in Sides |-> [c \in Conns |-> NoSink]]
    /\ srcRx = [sd \in Sides |-> [c \in Conns |-> <<>>]]
    /\ snkRx = [sd \in Sides |-> [c \in Conns |-> <<>>]]
    /\ wrote = [sd \in Sides |-> [c \in Conns |-> 0]]
    /\ path = [sd \in Sides |-> <<>>]
    /\ link = "up"
    /\ receiver = [sd \in Sides |-> [pc |-> "route", todo |-> {}]]
    /\ sender = [sd \in Sides |-> "run"]
    /\ serve = "wait"
    /\ status = "none"
    /\ client = "status"

\* The end of main() ends the client's tasks.
Alive(sd) == sd = "client" => client # "over"

ReceiverEnded(sd) == receiver[sd].pc \in {"finished", "closed", "failed"}

Dialing(c) == dial[c] \in {"connect", "ok", "err"}

\* Arc<RecvRouter> is held by the receiver, the listener, the connecter with the
\* tasks it spawned, and serve() of the server.
RouterDropped(sd) ==
    /\ ReceiverEnded(sd)
    /\ sd = "client" => listener.pc = "done"
    /\ sd = "server" => /\ connecter = "done"
                        /\ \A c \in Conns : ~Dialing(c)
                        /\ serve = "over"

\* No task of the side holds a send_msg_tx.
TxDropped(sd) ==
    /\ \A c \in Conns : SourceOver(src[sd][c]) /\ SinkOver(snk[sd][c])
    /\ sd = "client" => listener.pc = "done"
    /\ sd = "server" => /\ connecter = "done"
                        /\ \A c \in Conns : ~Dialing(c)
                        /\ serve # "wait"

-----------------------------------------------------------------------------
(* The listener task of the client.                                        *)
(*   accept    the select! over accept and task_end_rx.recv                  *)
(*   request   send_msg_tx.send(Connect)                                     *)
(*   response  rx.recv of the ConnectResponse                                *)
(*   close     send_msg_tx.send(ListenerClosed)                              *)

\* A connection is accepted: its id gets a channel in the router.
ListenerAccept ==
    /\ Alive("client")
    /\ listener.pc = "accept"
    /\ listener.conn \in Conns
    /\ listener' = [listener EXCEPT !.pc = "request"]
    /\ UNCHANGED <<listenRx, connecter, connRx, dial, taskVars, path, link, sessionVars>>

\* accept() fails: the id is used up.
ListenerAcceptFails ==
    /\ Alive("client")
    /\ listener.pc = "accept"
    /\ listener.conn \in Conns
    /\ listener' = [listener EXCEPT !.conn = @ + 1]
    /\ UNCHANGED <<listenRx, connecter, connRx, dial, taskVars, path, link, sessionVars>>

ListenerRequest ==
    /\ Alive("client")
    /\ listener.pc = "request"
    /\ Send("client", Connect(listener.conn))
    /\ listener' = [listener EXCEPT !.pc = "response"]
    /\ UNCHANGED <<listenRx, connecter, connRx, dial, taskVars, link, sessionVars>>

\* The response: the router's entry is removed, and the two tasks are started.
ListenerResponse ==
    /\ Alive("client")
    /\ listener.pc = "response"
    /\ listenRx # <<>>
    /\ listenRx' = Tail(listenRx)
    /\ listener' = [pc |-> "accept", conn |-> listener.conn + 1]
    /\ IF Head(listenRx).act = "Connected" THEN StartTasks("client", listener.conn)
                                           ELSE UNCHANGED taskVars
    /\ UNCHANGED <<connecter, connRx, dial, path, link, sessionVars>>

\* Mutant: the end of the session also ends the wait for a response.
ListenerEndAnywhere ==
    /\ Alive("client")
    /\ listener.pc \in {"accept", "response"}
    /\ client = "join"
    /\ listener' = [listener EXCEPT !.pc = "close"]
    /\ UNCHANGED <<listenRx, connecter, connRx, dial, taskVars, path, link, sessionVars>>

\* serve() has broadcast task_end; select! may still prefer accept.
ListenerEnd ==
    /\ Alive("client")
    /\ listener.pc = "accept"
    /\ client = "join"
    /\ listener' = [listener EXCEPT !.pc = "close"]
    /\ UNCHANGED <<listenRx, connecter, connRx, dial, taskVars, path, link, sessionVars>>

\* Mutant: the listener goes without a word.
ListenerCloseSilent ==
    /\ Alive("client")
    /\ listener.pc = "close"
    /\ listener' = [listener EXCEPT !.pc = "done"]
    /\ UNCHANGED <<path, listenRx, connecter, connRx, dial, taskVars, link, sessionVars>>

ListenerClose ==
    /\ Alive("client")
    /\ listener.pc = "close"
    /\ Send("client", ListenerClosed)
    /\ listener' = [listener EXCEPT !.pc = "done"]
    /\ UNCHANGED <<listenRx, connecter, connRx, dial, taskVars, link, sessionVars>>

-----------------------------------------------------------------------------
(* The connecter task of the server, and the tasks it spawns.              *)

ConnecterRecv ==
    /\ connecter = "recv"
    /\ connRx # <<>>
    /\ connRx' = Tail(connRx)
    /\ LET m == Head(connRx) IN
       \/ /\ m.act = "Connect"
          /\ dial' = [dial EXCEPT ![m.id] = "connect"]
          /\ UNCHANGED connecter
       \/ /\ m.act = "ListenerClosed"
          /\ connecter' = "done"
          /\ UNCHANGED dial
    /\ UNCHANGED <<listener, listenRx, taskVars, path, link, sessionVars>>

\* The shutdown has drained the router, and the channel's sender with it.
ConnecterNone ==
    /\ connecter = "recv"
    /\ connRx = <<>>
    /\ receiver["server"].pc = "closed"
    /\ connecter' = "done"
    /\ UNCHANGED <<listener, listenRx, connRx, dial, taskVars, path, link, sessionVars>>

\* addr.connect() succeeds or fails.
Dialed(c) ==
    /\ dial[c] = "connect"
    /\ \E res \in {"ok", "err"} : dial' = [dial EXCEPT ![c] = res]
    /\ UNCHANGED <<listener, listenRx, connecter, connRx, taskVars, path, link, sessionVars>>

\* Mutant: a failed connect ends the task before it has answered.
DialReplyOk(c) ==
    /\ Dialing(c) /\ dial[c] # "connect"
    /\ IF dial[c] = "ok" THEN Send("server", ConnectResponse(c, TRUE)) ELSE UNCHANGED path
    /\ dial' = [dial EXCEPT ![c] = IF @ = "ok" THEN "open" ELSE "refused"]
    /\ IF dial[c] = "ok" THEN StartTasks("server", c) ELSE UNCHANGED taskVars
    /\ UNCHANGED <<listener, listenRx, connecter, connRx, link, sessionVars>>

\* The response is queued, and the two tasks are started at once.
DialReply(c) ==
    /\ Dialing(c) /\ dial[c] # "connect"
    /\ Send("server", ConnectResponse(c, dial[c] = "ok"))
    /\ dial' = [dial EXCEPT ![c] = IF @ = "ok" THEN "open" ELSE "refused"]
    /\ IF dial[c] = "ok" THEN StartTasks("server", c) ELSE UNCHANGED taskVars
    /\ UNCHANGED <<listener, listenRx, connecter, connRx, link, sessionVars>>

-----------------------------------------------------------------------------
(* The source and sink tasks of the forwarded connections.                 *)

\* A remote peer has been spoken to, or has seen the end of the input.
SpokenTo(c) == wrote["server"][c] > 0 \/ SinkEnded(snk["server"][c])
MaySpeak(sd, c) == sd = "server" => RemoteFirst \/ SpokenTo(c)

ReadPacket(sd, c) ==
    /\ Alive(sd)
    /\ src[sd][c].pc = "select"
    /\ MaySpeak(sd, c)
    /\ src[sd][c].n < Packets[sd]
    /\ src' = [src EXCEPT ![sd][c] = SourceRead(@)]
    /\ UNCHANGED <<srcRx, snk, snkRx, wrote, portVars, path, link, sessionVars>>

EndOfInput(sd, c) ==
    /\ Alive(sd)
    /\ src[sd][c].pc = "select"
    /\ MaySpeak(sd, c)
    /\ src' = [src EXCEPT ![sd][c] = SourceBreak(@)]
    /\ UNCHANGED <<srcRx, snk, snkRx, wrote, portVars, path, link, sessionVars>>

SourceSend(sd, c) ==
    /\ Alive(sd)
    /\ SourceSending(src[sd][c])
    /\ Send(sd, StreamMsg(c, SourceMsg(src[sd][c])))
    /\ src' = [src EXCEPT ![sd][c] = SourceSent(@)]
    /\ UNCHANGED <<srcRx, snk, snkRx, wrote, portVars, link, sessionVars>>

SourceTake(sd, c) ==
    /\ Alive(sd)
    /\ SourceListening(src[sd][c])
    /\ \/ /\ srcRx[sd][c] # <<>>
          /\ src' = [src EXCEPT ![sd][c] = SourceRecv(@, Head(srcRx[sd][c]))]
          /\ srcRx' = [srcRx EXCEPT ![sd][c] = Tail(@)]
       \/ /\ srcRx[sd][c] = <<>>
          /\ RouterDropped(sd)
          /\ src' = [src EXCEPT ![sd][c] = SourceRecvNone(@)]
          /\ UNCHANGED srcRx
    /\ UNCHANGED <<snk, snkRx, wrote, portVars, path, link, sessionVars>>

SinkTake(sd, c) ==
    /\ Alive(sd)
    /\ snk[sd][c].pc = "recv"
    /\ \/ /\ snkRx[sd][c] # <<>>
          /\ snk' = [snk EXCEPT ![sd][c] = SinkRecv(@, Head(snkRx[sd][c]))]
          /\ snkRx' = [snkRx EXCEPT ![sd][c] = Tail(@)]
       \/ /\ snkRx[sd][c] = <<>>
          /\ RouterDropped(sd)
          /\ snk' = [snk EXCEPT ![sd][c] = SinkRecvNone(@)]
          /\ UNCHANGED snkRx
    /\ UNCHANGED <<src, srcRx, wrote, portVars, path, link, sessionVars>>

SinkWrite(sd, c) ==
    /\ Alive(sd)
    /\ snk[sd][c].pc \in {"write", "flush"}
    /\ \E res \in WriteResults :
         /\ snk' = [snk EXCEPT ![sd][c] = SinkIo(@, res)]
         /\ wrote' = IF snk[sd][c].pc = "write" /\ res = "ok"
                     THEN [wrote EXCEPT ![sd][c] = @ + 1] ELSE wrote
    /\ UNCHANGED <<src, srcRx, snkRx, portVars, path, link, sessionVars>>

SinkSend(sd, c) ==
    /\ Alive(sd)
    /\ SinkSending(snk[sd][c])
    /\ Send(sd, StreamMsg(c, SinkMsg(snk[sd][c])))
    /\ snk' = [snk EXCEPT ![sd][c] = SinkSent(@)]
    /\ UNCHANGED <<src, srcRx, snkRx, wrote, portVars, link, sessionVars>>

SinkFinish(sd, c) ==
    /\ Alive(sd)
    /\ snk[sd][c].pc = "shutdown"
    /\ snk' = [snk EXCEPT ![sd][c] = SinkShutdown(@)]
    /\ UNCHANGED <<src, srcRx, snkRx, wrote, portVars, path, link, sessionVars>>

-----------------------------------------------------------------------------
(* The receiver and sender tasks.                                          *)

\* What a failed receiver of the client drops: the exit status, unless sent.
StatusLost(sd) == IF sd = "client" /\ status = "none" THEN "lost" ELSE status

Fails(sd) ==
    /\ receiver' = [receiver EXCEPT ![sd].pc = "failed"]
    /\ status' = StatusLost(sd)
    /\ UNCHANGED <<srcRx, snkRx, listenRx, connRx>>

\* send_source_action: no entry, or a sink that has ended, is an error.
ToSink(sd, m) ==
    LET t == snk[sd][m.id] IN
    \/ SinkOver(t) /\ Fails(sd)
    \/ /\ ~SinkOver(t) /\ HasRoom(snkRx[sd][m.id])
       /\ snkRx' = [snkRx EXCEPT ![sd][m.id] = Append(@, ActionOf(m))]
       /\ UNCHANGED <<receiver, status, srcRx, listenRx, connRx>>

\* send_sink_action: no entry is an error, a source that has ended is none.
ToSource(sd, m) ==
    LET t == src[sd][m.id] IN
    \/ t = NoSource /\ Fails(sd)
    \/ /\ t # NoSource /\ (SourceEnded(t) \/ HasRoom(srcRx[sd][m.id]))
       /\ srcRx' = IF SourceEnded(t) THEN srcRx
                   ELSE [srcRx EXCEPT ![sd][m.id] = Append(@, ActionOf(m))]
       /\ UNCHANGED <<receiver, status, snkRx, listenRx, connRx>>

\* send_listener_action; the channel of 128 has room for every id of the model.
ToConnecter(m) ==
    \/ connecter = "done" /\ Fails("server")
    \/ /\ connecter # "done"
       /\ connRx' = Append(connRx, m)
       /\ UNCHANGED <<receiver, status, srcRx, snkRx, listenRx>>

\* send_connecter_action: the entry is there while the listener waits for this id.
ToListener(m) ==
    LET waiting == listener.pc \in {"request", "response"} /\ listener.conn = m.id IN
    \/ ~waiting /\ Fails("client")
    \/ /\ waiting
       /\ listenRx' = Append(listenRx, m)
       /\ UNCHANGED <<receiver, status, srcRx, snkRx, connRx>>

\* A message from the connection, routed by RecvRouter::send_stream_action.
Receive(sd) ==
    /\ Alive(sd)
    /\ receiver[sd].pc = "route"
    /\ path[Peer(sd)] # <<>>
    /\ path' = [path EXCEPT ![Peer(sd)] = Tail(@)]
    /\ LET m == Head(path[Peer(sd)]) IN
       \/ m.act \in {"Data", "SourceClosed"} /\ ToSink(sd, m)
       \/ m.act \in {"Ack", "SinkClosed"} /\ ToSource(sd, m)
       \/ m.act \in {"Connect", "ListenerClosed"} /\ ToConnecter(m)
       \/ m.act \in {"Connected", "Refused"} /\ ToListener(m)
       \/ /\ m.act = "Exit"
          /\ status' = "exit"
          /\ UNCHANGED <<receiver, srcRx, snkRx, listenRx, connRx>>
       \/ /\ m.act = "Finished"
          /\ receiver' = [receiver EXCEPT ![sd].pc = "finished"]
          /\ UNCHANGED <<status, srcRx, snkRx, listenRx, connRx>>
    /\ UNCHANGED <<src, snk, wrote, listener, connecter, dial, link, sender, serve, client>>

\* Mutant: the map of the sources is not drained.
DrainedSinks(sd) == {<<"sink", c>> : c \in {d \in Conns : ~SinkOver(snk[sd][d])}}

\* The entries RecvRouter::shutdown takes out of the maps of sinks and sources;
\* those of ended tasks make no difference.
Drained(sd) ==
    {<<"sink", c>> : c \in {d \in Conns : ~SinkOver(snk[sd][d])}} \cup
    {<<"source", c>> : c \in {d \in Conns : ~SourceOver(src[sd][d])}}

\* Receiving failed, or the sender reported a failed write.
BeginShutdown(sd) ==
    /\ Alive(sd)
    /\ link = "down"
    /\ receiver[sd].pc = "route"
    /\ receiver' = [receiver EXCEPT ![sd] = [pc |-> "shutdown", todo |-> Drained(sd)]]
    /\ path' = [path EXCEPT ![Peer(sd)] = <<>>]
    /\ UNCHANGED <<portVars, taskVars, link, sender, serve, status, client>>

\* One task after the other is sent its close message, the sinks first.
ShutdownOne(sd) ==
    /\ Alive(sd)
    /\ receiver[sd].pc = "shutdown"
    /\ \E e \in receiver[sd].todo :
         /\ receiver' = [receiver EXCEPT ![sd].todo = @ \ {e}]
         /\ \/ /\ e[1] = "sink"
               /\ SinkEnded(snk[sd][e[2]]) \/ HasRoom(snkRx[sd][e[2]])
               /\ snkRx' = IF SinkEnded(snk[sd][e[2]]) THEN snkRx
                           ELSE [snkRx EXCEPT ![sd][e[2]] = Append(@, SourceClosed)]
               /\ UNCHANGED srcRx
            \/ /\ e[1] = "source"
               /\ \A f \in receiver[sd].todo : f[1] = "source"
               /\ SourceEnded(src[sd][e[2]]) \/ HasRoom(srcRx[sd][e[2]])
               /\ srcRx' = IF SourceEnded(src[sd][e[2]]) THEN srcRx
                           ELSE [srcRx EXCEPT ![sd][e[2]] = Append(@, SinkClosed)]
               /\ UNCHANGED snkRx
    /\ UNCHANGED <<src, snk, wrote, portVars, path, link, sender, serve, status, client>>

\* The connecter's sender is dropped; the client's main gets an error instead of
\* a status; the server's sender is notified and serve() asked to kill the child.
ShutdownEnd(sd) ==
    /\ Alive(sd)
    /\ receiver[sd].pc = "shutdown"
    /\ receiver[sd].todo = {}
    /\ receiver' = [receiver EXCEPT ![sd].pc = "closed"]
    /\ status' = StatusLost(sd)
    /\ UNCHANGED <<portVars, taskVars, path, link, sender, serve, client>>

\* The queue is closed and empty; the server has been notified by its receiver.
SenderFinish(sd) ==
    /\ Alive(sd)
    /\ sender[sd] = "run"
    /\ TxDropped(sd)
    /\ sd = "server" => receiver["server"].pc \in {"finished", "closed"}
    /\ Send(sd, Finished)
    /\ sender' = [sender EXCEPT ![sd] = "done"]
    /\ UNCHANGED <<portVars, taskVars, link, receiver, serve, status, client>>

-----------------------------------------------------------------------------
(* serve() of both sides.                                                  *)

\* The child exits: Exit is sent and send_msg_tx dropped.
ServeExit ==
    /\ serve = "wait"
    /\ serve' = "join"
    /\ Send("server", Exit)
    /\ UNCHANGED <<portVars, taskVars, link, receiver, sender, status, client>>

\* The child is killed because the connection was lost.
ServeKill ==
    /\ serve = "wait"
    /\ receiver["server"].pc = "closed"
    /\ serve' = "join"
    /\ UNCHANGED <<portVars, taskVars, path, link, receiver, sender, status, client>>

ServeJoin ==
    /\ serve = "join"
    /\ \/ receiver["server"].pc \in {"finished", "closed"} /\ sender["server"] = "done"
       \/ receiver["server"].pc = "failed"
    /\ serve' = "over"
    /\ UNCHANGED <<portVars, taskVars, path, link, receiver, sender, status, client>>

\* Any suffix of what is under way is lost.
Disconnect ==
    /\ link' = "down"
    /\ \E i \in 0..Len(path["client"]), j \in 0..Len(path["server"]) :
         path' = [sd \in Sides |-> SubSeq(path[sd], 1, IF sd = "client" THEN i ELSE j)]

ClientExits ==
    /\ client' = "over"
    /\ IF link = "up" THEN Disconnect ELSE UNCHANGED <<link, path>>

\* exit_status_rx.await, and task_end is broadcast.
ClientStatus ==
    /\ client = "status"
    /\ \/ /\ status = "exit"
          /\ client' = "join"
          /\ UNCHANGED <<link, path>>
       \/ /\ status = "lost"
          /\ ClientExits
    /\ UNCHANGED <<portVars, taskVars, receiver, sender, serve, status>>

ClientJoin ==
    /\ client = "join"
    /\ \/ receiver["client"].pc \in {"finished", "closed"} /\ sender["client"] = "done"
       \/ receiver["client"].pc = "failed"
    /\ ClientExits
    /\ UNCHANGED <<portVars, taskVars, receiver, sender, serve, status>>

LinkDown ==
    /\ "link" \in Faults
    /\ link = "up"
    /\ Disconnect
    /\ UNCHANGED <<portVars, taskVars, sessionVars>>

-----------------------------------------------------------------------------

ListenerStep == ListenerRequest \/ ListenerResponse \/ ListenerClose
ConnecterStep == ConnecterRecv \/ ConnecterNone
SourceIn(sd, c) == ReadPacket(sd, c) \/ EndOfInput(sd, c)
TaskStep(sd, c) ==
    \/ SourceSend(sd, c) \/ SourceTake(sd, c)
    \/ SinkTake(sd, c) \/ SinkWrite(sd, c) \/ SinkSend(sd, c) \/ SinkFinish(sd, c)
ReceiverStep(sd) == Receive(sd) \/ BeginShutdown(sd) \/ ShutdownOne(sd) \/ ShutdownEnd(sd)

\* Every task of the server's session has ended.
ServerOver ==
    /\ serve = "over"
    /\ sender["server"] = "done"
    /\ TxDropped("server")

Over == client = "over" /\ ServerOver

Terminated == Over /\ UNCHANGED vars

Next ==
    \/ ListenerAccept \/ ListenerAcceptFails \/ ListenerEnd \/ ListenerStep
    \/ ConnecterStep
    \/ \E c \in Conns : Dialed(c) \/ DialReply(c)
    \/ \E sd \in Sides, c \in Conns : SourceIn(sd, c) \/ TaskStep(sd, c)
    \/ \E sd \in Sides : ReceiverStep(sd) \/ SenderFinish(sd)
    \/ ServeExit \/ ServeKill \/ ServeJoin
    \/ ClientStatus \/ ClientJoin
    \/ LinkDown
    \/ Terminated

Spec == Init /\ [][Next]_vars

\* Tokio polls every ready task, a connect returns, and writes return.  A peer
\* of a forwarded connection need not close it before the command has ended.
Fairness ==
    /\ WF_vars(ListenerStep) /\ WF_vars(ListenerEnd)
    /\ WF_vars(ConnecterStep)
    /\ \A c \in Conns : WF_vars(Dialed(c)) /\ WF_vars(DialReply(c))
    /\ \A sd \in Sides, c \in Conns : WF_vars(TaskStep(sd, c))
    /\ \A sd \in Sides, c \in Conns : WF_vars(serve # "wait" /\ SourceIn(sd, c))
    /\ \A sd \in Sides : WF_vars(ReceiverStep(sd)) /\ WF_vars(SenderFinish(sd))
    /\ WF_vars(ServeKill) /\ WF_vars(ServeJoin)
    /\ WF_vars(ClientStatus) /\ WF_vars(ClientJoin)

FairSpec == Spec /\ Fairness

-----------------------------------------------------------------------------
(* Properties.                                                             *)

TypeOK ==
    /\ listener.pc \in {"accept", "request", "response", "close", "done"}
    /\ listener.conn \in 1..MaxConns + 1
    /\ Len(listenRx) <= 1
    /\ connecter \in {"recv", "done"}
    /\ dial \in [Conns -> {"none", "connect", "ok", "err", "open", "refused"}]
    /\ \A sd \in Sides, c \in Conns :
         /\ src[sd][c] \in SourceState \cup {NoSource}
         /\ snk[sd][c] \in SinkState \cup {NoSink}
         /\ Len(srcRx[sd][c]) <= ChanCap /\ Len(snkRx[sd][c]) <= ChanCap
    /\ \A sd \in Sides :
         receiver[sd].pc \in {"route", "shutdown", "finished", "closed", "failed"}
    /\ sender \in [Sides -> {"run", "done"}]
    /\ serve \in {"wait", "join", "over"}
    /\ status \in {"none", "exit", "lost"}
    /\ client \in {"status", "join", "over"}

\* No message of a forwarded connection comes to a receiver that has no task for
\* it: as long as remote peers wait to be spoken to and writes fail with
\* BrokenPipe only, a connection never ends the session it belongs to.
ReceiversSurvive == \A sd \in Sides : receiver[sd].pc # "failed"

\* The listener is not held up by a remote address that refuses: it gets an
\* answer to each request.
RequestIsAnswered ==
    listener.pc = "response" ~> (listener.pc # "response" \/ link = "down")

\* When a session has ended in good order, each connection that the server has
\* made belongs to one that the client has accepted, and each direction has
\* carried all that was read, unless the reader of the output went away.
ForwardedInFull ==
    receiver["client"].pc = "finished" =>
        \A c \in Conns :
            /\ (dial[c] = "open") = (src["client"][c] # NoSource)
            /\ \A sd \in Sides :
                 snk[sd][c].closed \/ wrote[sd][c] = src[Peer(sd)][c].n

\* A session ends after its command, once the forwarded connections are closed:
\* no listener, connecter, queue or router keeps one of its tasks alive.
SessionEnds == serve # "wait" ~> Over

\* Both sides serve the connection, so that each knows it when it shuts down.
Established(c) ==
    \A sd \in Sides : src[sd][c] # NoSource /\ receiver[sd].pc = "route"

\* When the connection to the server is lost, the forwarded connections that were
\* established are closed on both sides.
LostLinkClosesForwards ==
    \A c \in Conns :
        (link = "down" /\ Established(c)) ~>
            \A sd \in Sides :
                Alive(sd) => SourceEnded(src[sd][c]) /\ SinkEnded(snk[sd][c])

\* "Whenever a connection is made to the local port or socket, the connection is
\* forwarded" (help text of -L): a connection that the server has made to the
\* remote address gets its two tasks at the client.
AcceptedIsForwarded ==
    \A c \in Conns : dial[c] = "open" ~> src["client"][c] # NoSource

\* "If error occurred, shutdown all handlers on this process" (receiver.rs of
\* both sides): after a lost connection no listener of the client stays behind,
\* and no task of a forwarded connection of the server.
HandlersShutDown ==
    /\ receiver["client"].pc = "closed" ~> (listener.pc = "done" \/ ~Alive("client"))
    /\ receiver["server"].pc = "closed" ~>
           \A c \in Conns : SourceOver(src["server"][c]) /\ SinkOver(snk["server"][c])

-----------------------------------------------------------------------------
(* A forwarded connection is two streams.                                   *)

\* The stream from a side to its peer; before it is started it is at its start.
StreamSrc(sd, c) == IF src[sd][c] = NoSource THEN SourceNew ELSE src[sd][c]
StreamSnk(sd, c) == IF snk[sd][c] = NoSink THEN SinkNew ELSE snk[sd][c]

ToServer == INSTANCE Stream WITH
    MaxPackets <- Packets["client"], WriteResults <- WriteResults, Faults <- {"link"},
    src <- StreamSrc("client", 1), srcRx <- srcRx["client"][1],
    snk <- StreamSnk("server", 1), snkRx <- snkRx["server"][1],
    fwd <- Actions(path["client"], 1, {"Data", "SourceClosed"}),
    back <- Actions(path["server"], 1, {"Ack", "SinkClosed"}),
    out <- [i \in 1..wrote["server"][1] |-> i],
    link <- link, srcRcv <- "route", snkRcv <- "route", served <- FALSE

ToClient == INSTANCE Stream WITH
    MaxPackets <- Packets["server"], WriteResults <- WriteResults, Faults <- {"link"},
    src <- StreamSrc("server", 1), srcRx <- srcRx["server"][1],
    snk <- StreamSnk("client", 1), snkRx <- snkRx["client"][1],
    fwd <- Actions(path["server"], 1, {"Data", "SourceClosed"}),
    back <- Actions(path["client"], 1, {"Ack", "SinkClosed"}),
    out <- [i \in 1..wrote["client"][1] |-> i],
    link <- link, srcRcv <- "route", snkRcv <- "route", served <- FALSE

\* Each direction of a forwarded connection is a Stream, although it is started
\* on the two sides at different times and shares its way with other connections.
ForwardIsStream == ToServer!Spec /\ ToClient!Spec

=============================================================================
