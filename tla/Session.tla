------------------------------ MODULE Session ------------------------------
(***************************************************************************)
(* One session: `rlirsh execute' on the client and the serve task of the    *)
(* server, from the moment the child process runs until both have ended.    *)
(* Each side has a sender task that drains its send_msg queue into the TCP  *)
(* connection and a receiver task that routes what arrives; the standard    *)
(* streams are source and sink tasks (StreamTasks.tla) over these.  A step  *)
(* is the code of one task from one await to the next.                      *)
(***************************************************************************)
EXTENDS StreamTasks, SequencesExt

CONSTANTS
    Pty,          \* whether a pseudo-terminal is allocated
    Packets,      \* packets in the input of each stream, before its end
    MaxResizes,   \* bound on the changes of the client's window size
    QueueCap,     \* capacity of the send_msg channels (128 in the code)
    NetCap,       \* messages the TCP buffers of one direction hold
    WriteResults, \* outcomes of the sinks' writes, per stream
    Statuses,     \* exit statuses of the child process
    Failures      \* what may fail: the connection, or with it a process

Streams == {"Stdin", "Stdout", "Stderr"}
Sides == {"client", "server"}

ASSUME SessionAssumption ==
    /\ Pty \in BOOLEAN
    /\ Packets \in [Streams -> Nat]
    /\ MaxResizes \in Nat
    /\ QueueCap \in Nat \ {0}
    /\ NetCap \in Nat \ {0}
    /\ WriteResults \in [Streams -> SUBSET IoResult]
    /\ Statuses \subseteq {"Code", "Signal"} \X Nat
    /\ Failures \subseteq {"link", "client", "server"}

Peer(sd) == IF sd = "client" THEN "server" ELSE "client"
SourceSide(s) == IF s = "Stdin" THEN "client" ELSE "server"
SinkSide(s) == Peer(SourceSide(s))

\* With a terminal the child has no stderr of its own: serve() closes that
\* stream itself and spawns no source for it.
HasSource(s) == ~(Pty /\ s = "Stderr")
Sources(sd) == {s \in Streams : SourceSide(s) = sd /\ HasSource(s)}
Sinks(sd) == {s \in Streams : SinkSide(s) = sd}

VARIABLES
    src, srcRx, snk, snkRx, out, \* per stream, as in Stream.tla
    queue,    \* per side: the send_msg channel
    net,      \* per side: messages it has sent on the connection
    conn,     \* up; down: lost; closed: by the exit of the client
    killed,   \* the sides whose process was killed
    sender,   \* per side: the sender task
    error,    \* per side: a send error was reported to the receiver
    receiver, \* per side: the receiver task
    child,    \* the child process: running or its exit status
    serve,    \* the server's serve()
    kill,     \* the kill_error channel
    notify,   \* the permit of finish_notify
    exit,     \* the oneshot channel for the exit status
    client,   \* the client's serve() and main()
    code,     \* exit code of the client process
    term,     \* window size of the client's terminal
    sig,      \* SIGWINCH is pending
    winch,    \* the window_change task
    pty       \* window size of the child's terminal

streamVars == <<src, srcRx, snk, snkRx, out>>
linkVars == <<queue, net, conn, killed, sender, error, receiver>>
serverVars == <<child, serve, kill, notify>>
clientVars == <<exit, client, code>>
windowVars == <<term, sig, winch, pty>>
vars == <<streamVars, linkVars, serverVars, clientVars, windowVars>>

-----------------------------------------------------------------------------
(* Messages.                                                               *)

StreamMsg(s, a) == [id |-> s, act |-> a.act, n |-> a.n]
Exit(status) == [id |-> "main", act |-> "Exit", n |-> status]
WindowSizeChange(n) == [id |-> "main", act |-> "WindowSizeChange", n |-> n]
Finished == [id |-> "main", act |-> "Finished", n |-> 0]

ForSink(m) == m.act \in {"Data", "SourceClosed"}

Running == <<"Running", 0>>
SigKill == <<"Signal", 9>>
NoStatus == <<"None", 0>>

\* Mutant: a signal is reported like a code.
ExitCodeBare(status) == status[2]

\* main() of the client turns the status into its own exit code.
ExitCode(status) == IF status[1] = "Code" THEN status[2] ELSE 128 + status[2]

-----------------------------------------------------------------------------
Init ==
    /\ src = [s \in Streams |-> IF HasSource(s) THEN SourceNew
                                                ELSE [pc |-> "done", n |-> 0]]
    /\ snk = [s \in Streams |-> SinkNew]
    /\ srcRx = [s \in Streams |-> <<>>]
    /\ snkRx = [s \in Streams |-> <<>>]
    /\ out = [s \in Streams |-> <<>>]
    /\ queue = [sd \in Sides |->
                  IF sd = "server" /\ Pty THEN <<StreamMsg("Stderr", SourceClosed)>>
                                          ELSE <<>>]
    /\ net = [sd \in Sides |-> <<>>]
    /\ conn = "up"
    /\ killed = {}
    /\ sender = [sd \in Sides |-> [pc |-> "recv", msg |-> <<>>, failed |-> FALSE]]
    /\ error = [sd \in Sides |-> FALSE]
    /\ receiver = [sd \in Sides |-> [pc |-> "recv", msg |-> <<>>, failed |-> FALSE,
                                     todo |-> <<>>]]
    /\ child = Running
    /\ serve = [pc |-> "wait", status |-> NoStatus]
    /\ kill = FALSE
    /\ notify = FALSE
    /\ exit = NoStatus
    /\ client = "status"
    /\ code = 0
    /\ term = 0
    /\ sig = FALSE
    /\ winch = [pc |-> IF Pty THEN "select" ELSE "done", n |-> 0]
    /\ pty = 0

\* A process stops with all its tasks.
Alive(sd) ==
    /\ sd \notin killed
    /\ sd = "client" => client \notin {"ok", "err"}

ReceiverEnded(sd) == receiver[sd].pc \in {"done", "failed"}

\* Arc<RecvRouter> is held by the receiver and, on the server, by serve(); its
\* end drops the channels' senders.
RouterDropped(sd) ==
    /\ ReceiverEnded(sd)
    /\ sd = "server" => serve.pc \in {"ok", "err"}

\* Mutant: a message that finds the channel full is dropped.
TryEnqueue(sd, m) ==
    /\ queue' = IF Len(queue[sd]) < QueueCap THEN [queue EXCEPT ![sd] = Append(@, m)] ELSE queue
    /\ UNCHANGED <<net, conn, killed, sender, error, receiver>>

\* tx.send(m) on the send_msg channel of a side.
Enqueue(sd, m) ==
    /\ Len(queue[sd]) < QueueCap
    /\ queue' = [queue EXCEPT ![sd] = Append(@, m)]
    /\ UNCHANGED <<net, conn, killed, sender, error, receiver>>

\* Mutant: serve() keeps its send_msg_tx until it returns.
TxDroppedLate(sd) ==
    /\ \A s \in Sources(sd) : SourceEnded(src[s])
    /\ \A s \in Sinks(sd) : SinkEnded(snk[s])
    /\ sd = "client" => winch.pc = "done"
    /\ sd = "server" => serve.pc \in {"ok", "err"}

\* No task holds a send_msg_tx of the side: its channel is closed once empty.
TxDropped(sd) ==
    /\ \A s \in Sources(sd) : SourceEnded(src[s])
    /\ \A s \in Sinks(sd) : SinkEnded(snk[s])
    /\ sd = "client" => winch.pc = "done"
    /\ sd = "server" => serve.pc \notin {"wait", "sinkclosed", "exit"}

-----------------------------------------------------------------------------
(* The source and sink tasks of the standard streams.                      *)

\* A packet is there to be read: typed by the user, or written by the child or
\* by the processes it leaves behind.
ReadPacket(s) ==
    /\ Alive(SourceSide(s))
    /\ src[s].pc = "select"
    /\ src[s].n < Packets[s]
    /\ src' = [src EXCEPT ![s] = SourceRead(@)]
    /\ UNCHANGED <<srcRx, snk, snkRx, out, linkVars, serverVars, clientVars, windowVars>>

EndOfInput(s) ==
    /\ Alive(SourceSide(s))
    /\ src[s].pc = "select"
    /\ src[s].n = Packets[s]
    /\ src' = [src EXCEPT ![s] = SourceBreak(@)]
    /\ UNCHANGED <<srcRx, snk, snkRx, out, linkVars, serverVars, clientVars, windowVars>>

SourceSend(s) ==
    /\ Alive(SourceSide(s))
    /\ SourceSending(src[s])
    /\ Enqueue(SourceSide(s), StreamMsg(s, SourceMsg(src[s])))
    /\ src' = [src EXCEPT ![s] = SourceSent(@)]
    /\ UNCHANGED <<srcRx, snk, snkRx, out, serverVars, clientVars, windowVars>>

SourceTake(s) ==
    /\ Alive(SourceSide(s))
    /\ SourceListening(src[s])
    /\ \/ /\ srcRx[s] # <<>>
          /\ src' = [src EXCEPT ![s] = SourceRecv(@, Head(srcRx[s]))]
          /\ srcRx' = [srcRx EXCEPT ![s] = Tail(@)]
       \/ /\ srcRx[s] = <<>>
          /\ RouterDropped(SourceSide(s))
          /\ src' = [src EXCEPT ![s] = SourceRecvNone(@)]
          /\ UNCHANGED srcRx
    /\ UNCHANGED <<snk, snkRx, out, linkVars, serverVars, clientVars, windowVars>>

SinkTake(s) ==
    /\ Alive(SinkSide(s))
    /\ snk[s].pc = "recv"
    /\ \/ /\ snkRx[s] # <<>>
          /\ snk' = [snk EXCEPT ![s] = SinkRecv(@, Head(snkRx[s]))]
          /\ snkRx' = [snkRx EXCEPT ![s] = Tail(@)]
       \/ /\ snkRx[s] = <<>>
          /\ RouterDropped(SinkSide(s))
          /\ snk' = [snk EXCEPT ![s] = SinkRecvNone(@)]
          /\ UNCHANGED snkRx
    /\ UNCHANGED <<src, srcRx, out, linkVars, serverVars, clientVars, windowVars>>

SinkWrite(s) ==
    /\ Alive(SinkSide(s))
    /\ snk[s].pc \in {"write", "flush"}
    /\ \E res \in WriteResults[s] :
         /\ snk' = [snk EXCEPT ![s] = SinkIo(@, res)]
         /\ out' = IF snk[s].pc = "write" /\ res = "ok"
                   THEN [out EXCEPT ![s] = Append(@, snk[s].n)]
                   ELSE out
    /\ UNCHANGED <<src, srcRx, snkRx, linkVars, serverVars, clientVars, windowVars>>

SinkSend(s) ==
    /\ Alive(SinkSide(s))
    /\ SinkSending(snk[s])
    /\ Enqueue(SinkSide(s), StreamMsg(s, SinkMsg(snk[s])))
    /\ snk' = [snk EXCEPT ![s] = SinkSent(@)]
    /\ UNCHANGED <<src, srcRx, snkRx, out, serverVars, clientVars, windowVars>>

SinkFinish(s) ==
    /\ Alive(SinkSide(s))
    /\ snk[s].pc = "shutdown"
    /\ snk' = [snk EXCEPT ![s] = SinkShutdown(@)]
    /\ UNCHANGED <<src, srcRx, snkRx, out, linkVars, serverVars, clientVars, windowVars>>

-----------------------------------------------------------------------------
(* The window_change task of the client.                                   *)

\* The user resizes the terminal; pending signals are one.
Resize ==
    /\ Pty
    /\ term < MaxResizes
    /\ term' = term + 1
    /\ sig' = TRUE
    /\ UNCHANGED <<winch, pty, streamVars, linkVars, serverVars, clientVars>>

\* SIGWINCH: the size is read now; when that fails the signal is ignored.
WindowSignal ==
    /\ Alive("client")
    /\ winch.pc = "select"
    /\ sig
    /\ sig' = FALSE
    /\ winch' \in {[pc |-> "send", n |-> term], winch}
    /\ UNCHANGED <<term, pty, streamVars, linkVars, serverVars, clientVars>>

WindowSend ==
    /\ Alive("client")
    /\ winch.pc = "send"
    /\ Enqueue("client", WindowSizeChange(winch.n))
    /\ winch' = [winch EXCEPT !.pc = "select"]
    /\ UNCHANGED <<term, sig, pty, streamVars, serverVars, clientVars>>

\* serve() broadcast task_end after it got the exit status.
WindowEnd ==
    /\ Alive("client")
    /\ winch.pc = "select"
    /\ client \in {"stdio", "join"}
    /\ winch' = [winch EXCEPT !.pc = "done"]
    /\ UNCHANGED <<term, sig, pty, streamVars, linkVars, serverVars, clientVars>>

-----------------------------------------------------------------------------
(* The sender tasks.                                                       *)

\* Mutant: the newest message is sent first.
SenderTakeLast(sd) ==
    /\ Alive(sd)
    /\ sender[sd].pc = "recv"
    /\ queue[sd] # <<>>
    /\ queue' = [queue EXCEPT ![sd] = Front(@)]
    /\ sender' = IF sender[sd].failed THEN sender
                 ELSE [sender EXCEPT ![sd].pc = "write", ![sd].msg = <<Last(queue[sd])>>]
    /\ UNCHANGED <<net, conn, killed, error, receiver, streamVars, serverVars, clientVars, windowVars>>

\* After a failed write the sender goes on draining its queue.
SenderTake(sd) ==
    /\ Alive(sd)
    /\ sender[sd].pc = "recv"
    /\ queue[sd] # <<>>
    /\ queue' = [queue EXCEPT ![sd] = Tail(@)]
    /\ sender' = IF sender[sd].failed THEN sender
                 ELSE [sender EXCEPT ![sd].pc = "write", ![sd].msg = <<Head(queue[sd])>>]
    /\ UNCHANGED <<net, conn, killed, error, receiver, streamVars, serverVars, clientVars, windowVars>>

\* Finished is written like any message, and is the last one.
FinishWith(t) ==
    IF t.failed THEN [t EXCEPT !.pc = "done"]
    ELSE [t EXCEPT !.pc = "write", !.msg = <<Finished>>]

Written(t) ==
    [t EXCEPT !.pc = IF t.msg[1].act = "Finished" THEN "done" ELSE "recv", !.msg = <<>>]

\* do_if_not_failed(send_message): on a lost connection the write is accepted
\* and lost, or fails; the first failure is reported to the receiver.
SenderWrite(sd) ==
    /\ Alive(sd)
    /\ sender[sd].pc = "write"
    /\ \/ /\ conn = "up"
          /\ Len(net[sd]) < NetCap
          /\ net' = [net EXCEPT ![sd] = Append(@, sender[sd].msg[1])]
          /\ sender' = [sender EXCEPT ![sd] = Written(@)]
          /\ UNCHANGED error
       \/ /\ conn # "up"
          /\ \/ /\ sender' = [sender EXCEPT ![sd] = Written(@)]
                /\ UNCHANGED error
             \/ /\ sender' = [sender EXCEPT ![sd] = [Written(@) EXCEPT !.failed = TRUE]]
                /\ error' = [error EXCEPT ![sd] = ~ReceiverEnded(sd)]
          /\ UNCHANGED net
    /\ UNCHANGED <<queue, conn, killed, receiver, streamVars, serverVars, clientVars, windowVars>>

\* Mutant: an empty queue is taken for a closed one.
SenderDrainedEarly(sd) ==
    /\ Alive(sd)
    /\ sender[sd].pc = "recv"
    /\ queue[sd] = <<>>
    /\ sender' = [sender EXCEPT ![sd] = FinishWith(@)]
    /\ UNCHANGED <<queue, net, conn, killed, error, receiver, streamVars, serverVars, clientVars, windowVars>>

\* rx.recv() is None: the client says Finished, the server first waits for the
\* receiver's notification.
SenderDrained(sd) ==
    /\ Alive(sd)
    /\ sender[sd].pc = "recv"
    /\ queue[sd] = <<>>
    /\ TxDropped(sd)
    /\ sender' = [sender EXCEPT ![sd] = IF sd = "client" THEN FinishWith(@)
                                        ELSE [@ EXCEPT !.pc = "notified"]]
    /\ UNCHANGED <<queue, net, conn, killed, error, receiver, streamVars, serverVars, clientVars, windowVars>>

SenderNotified ==
    /\ Alive("server")
    /\ sender["server"].pc = "notified"
    /\ notify
    /\ notify' = FALSE
    /\ sender' = [sender EXCEPT !["server"] = FinishWith(@)]
    /\ UNCHANGED <<queue, net, conn, killed, error, receiver, streamVars, child, serve, kill, clientVars, windowVars>>

-----------------------------------------------------------------------------
(* The receiver tasks.                                                     *)

\* One message from the connection, up to the await in send_stream_action.
ReceiverRecv(sd) ==
    /\ Alive(sd)
    /\ receiver[sd].pc = "recv"
    /\ net[Peer(sd)] # <<>>
    /\ net' = [net EXCEPT ![Peer(sd)] = Tail(@)]
    /\ LET m == Head(net[Peer(sd)]) IN
       \/ /\ m.id \in Streams
          /\ receiver' = [receiver EXCEPT ![sd].pc = "route", ![sd].msg = <<m>>]
          /\ UNCHANGED <<notify, exit, pty>>
       \/ /\ m.act = "Exit"
          /\ receiver' = IF exit = NoStatus THEN receiver
                         ELSE [receiver EXCEPT ![sd].pc = "failed"]
          /\ exit' = IF exit = NoStatus THEN m.n ELSE exit
          /\ UNCHANGED <<notify, pty>>
       \/ /\ m.act = "WindowSizeChange"
          /\ pty' \in {m.n, pty}
          /\ UNCHANGED <<receiver, notify, exit>>
       \/ /\ m.act = "Finished"
          /\ receiver' = [receiver EXCEPT ![sd].pc = "done"]
          /\ notify' = (notify \/ sd = "server")
          /\ UNCHANGED <<exit, pty>>
    /\ UNCHANGED <<queue, conn, killed, sender, error, streamVars, child, serve, kill, client, code, term, sig, winch>>

\* RecvRouter::send_stream_action.  A sink that has ended makes the send fail,
\* and `?' ends the receiver; on the client that drops exit_status_tx.
ReceiverRoute(sd) ==
    /\ Alive(sd)
    /\ receiver[sd].pc = "route"
    /\ LET m == receiver[sd].msg[1]
           s == m.id
           routed == [receiver EXCEPT ![sd].pc = "recv", ![sd].msg = <<>>]
       IN
       \/ /\ ForSink(m)
          /\ ~SinkEnded(snk[s])
          /\ HasRoom(snkRx[s])
          /\ snkRx' = [snkRx EXCEPT ![s] = Append(@, ActionOf(m))]
          /\ receiver' = routed
          /\ UNCHANGED <<srcRx, exit>>
       \/ /\ ForSink(m)
          /\ SinkEnded(snk[s])
          /\ receiver' = [routed EXCEPT ![sd].pc = "failed"]
          /\ exit' = IF sd = "client" /\ exit = NoStatus THEN <<"Lost", 0>> ELSE exit
          /\ UNCHANGED <<snkRx, srcRx>>
       \/ /\ ~ForSink(m)
          /\ ~SourceEnded(src[s])
          /\ HasRoom(srcRx[s])
          /\ srcRx' = [srcRx EXCEPT ![s] = Append(@, ActionOf(m))]
          /\ receiver' = routed
          /\ UNCHANGED <<snkRx, exit>>
       \/ /\ ~ForSink(m)
          /\ SourceEnded(src[s])
          /\ receiver' = routed
          /\ UNCHANGED <<snkRx, srcRx, exit>>
    /\ UNCHANGED <<src, snk, out, queue, net, conn, killed, sender, error, serverVars, client, code, windowVars>>

\* The read failed, or the sender reported an error: RecvRouter::shutdown
\* drains the maps and closes every task in turn, sinks first, in map order.
ReceiverError(sd) ==
    /\ Alive(sd)
    /\ receiver[sd].pc = "recv"
    /\ error[sd] \/ (conn # "up" /\ net[Peer(sd)] = <<>>)
    /\ \E sinks \in SetToSeqs(Sinks(sd)), sources \in SetToSeqs(Sources(sd)) :
         receiver' = [receiver EXCEPT ![sd].pc = "shutdown", ![sd].failed = TRUE,
                                      ![sd].todo = sinks \o sources]
    /\ error' = [error EXCEPT ![sd] = FALSE]
    /\ net' = [net EXCEPT ![Peer(sd)] = <<>>]
    /\ UNCHANGED <<queue, conn, killed, sender, streamVars, serverVars, clientVars, windowVars>>

ReceiverShutdown(sd) ==
    /\ Alive(sd)
    /\ receiver[sd].pc = "shutdown"
    /\ receiver[sd].todo # <<>>
    /\ LET s == Head(receiver[sd].todo) IN
       \/ /\ s \in Sinks(sd)
          /\ SinkEnded(snk[s]) \/ HasRoom(snkRx[s])
          /\ snkRx' = IF SinkEnded(snk[s]) THEN snkRx
                      ELSE [snkRx EXCEPT ![s] = Append(@, SourceClosed)]
          /\ UNCHANGED srcRx
       \/ /\ s \in Sources(sd)
          /\ SourceEnded(src[s]) \/ HasRoom(srcRx[s])
          /\ srcRx' = IF SourceEnded(src[s]) THEN srcRx
                      ELSE [srcRx EXCEPT ![s] = Append(@, SinkClosed)]
          /\ UNCHANGED snkRx
    /\ receiver' = [receiver EXCEPT ![sd].todo = Tail(@)]
    /\ UNCHANGED <<src, snk, out, queue, net, conn, killed, sender, error, serverVars, clientVars, windowVars>>

\* Mutant: serve() is not asked to kill the child.
ReceiverShutdownEndNoKill(sd) ==
    /\ Alive(sd)
    /\ receiver[sd].pc = "shutdown"
    /\ receiver[sd].todo = <<>>
    /\ receiver' = [receiver EXCEPT ![sd].pc = "done"]
    /\ exit' = IF sd = "client" /\ exit = NoStatus THEN <<"Lost", 0>> ELSE exit
    /\ kill' = kill
    /\ notify' = (notify \/ sd = "server")
    /\ UNCHANGED <<queue, net, conn, killed, sender, error, streamVars, child, serve, client, code, windowVars>>

\* Mutant: the sender is notified only after Finished.
ReceiverShutdownEndNoNotify(sd) ==
    /\ Alive(sd)
    /\ receiver[sd].pc = "shutdown"
    /\ receiver[sd].todo = <<>>
    /\ receiver' = [receiver EXCEPT ![sd].pc = "done"]
    /\ exit' = IF sd = "client" /\ exit = NoStatus THEN <<"Lost", 0>> ELSE exit
    /\ kill' = (kill \/ (sd = "server" /\ serve.pc \notin {"ok", "err"}))
    /\ notify' = notify
    /\ UNCHANGED <<queue, net, conn, killed, sender, error, streamVars, child, serve, client, code, windowVars>>

\* Mutant: the client's main is not told.
ReceiverShutdownEndSilent(sd) ==
    /\ Alive(sd)
    /\ receiver[sd].pc = "shutdown"
    /\ receiver[sd].todo = <<>>
    /\ receiver' = [receiver EXCEPT ![sd].pc = "done"]
    /\ exit' = exit
    /\ kill' = (kill \/ (sd = "server" /\ serve.pc \notin {"ok", "err"}))
    /\ notify' = (notify \/ sd = "server")
    /\ UNCHANGED <<queue, net, conn, killed, sender, error, streamVars, child, serve, client, code, windowVars>>

\* All closed: the client's main is told unless it has its status already; the
\* server's serve() is asked to kill the child, and the sender is notified.
ReceiverShutdownEnd(sd) ==
    /\ Alive(sd)
    /\ receiver[sd].pc = "shutdown"
    /\ receiver[sd].todo = <<>>
    /\ receiver' = [receiver EXCEPT ![sd].pc = "done"]
    /\ exit' = IF sd = "client" /\ exit = NoStatus THEN <<"Lost", 0>> ELSE exit
    /\ kill' = (kill \/ (sd = "server" /\ serve.pc \notin {"ok", "err"}))
    /\ notify' = (notify \/ sd = "server")
    /\ UNCHANGED <<queue, net, conn, killed, sender, error, streamVars, child, serve, client, code, windowVars>>

-----------------------------------------------------------------------------
(* The server's serve(), and the child process.                            *)

ChildExit ==
    /\ Alive("server")
    /\ child = Running
    /\ child' \in Statuses
    /\ UNCHANGED <<serve, kill, notify, streamVars, linkVars, clientVars, windowVars>>

ServeWait ==
    /\ Alive("server")
    /\ serve.pc = "wait"
    /\ child # Running
    /\ serve' = [pc |-> "sinkclosed", status |-> child]
    /\ UNCHANGED <<child, kill, notify, streamVars, linkVars, clientVars, windowVars>>

\* Child::kill sends SIGKILL and waits.
ServeKill ==
    /\ Alive("server")
    /\ serve.pc = "wait"
    /\ kill
    /\ kill' = FALSE
    /\ child' = IF child = Running THEN SigKill ELSE child
    /\ serve' = [serve EXCEPT !.pc = "join"]
    /\ UNCHANGED <<notify, streamVars, linkVars, clientVars, windowVars>>

ServeSinkClosed ==
    /\ Alive("server")
    /\ serve.pc = "sinkclosed"
    /\ Enqueue("server", StreamMsg("Stdin", SinkClosed))
    /\ serve' = [serve EXCEPT !.pc = "exit"]
    /\ UNCHANGED <<child, kill, notify, streamVars, clientVars, windowVars>>

\* The last message of serve(); then its send_msg_tx is dropped.
ServeExit ==
    /\ Alive("server")
    /\ serve.pc = "exit"
    /\ Enqueue("server", Exit(serve.status))
    /\ serve' = [serve EXCEPT !.pc = "join"]
    /\ UNCHANGED <<child, kill, notify, streamVars, clientVars, windowVars>>

StdioFailed(sd) ==
    \/ \E s \in Sources(sd) : src[s].pc \in {"failed", "panicked"}
    \/ \E s \in Sinks(sd) : snk[s].pc = "failed"

StdioDone(sd) ==
    /\ \A s \in Sources(sd) : src[s].pc = "done"
    /\ \A s \in Sinks(sd) : snk[s].pc = "done"

\* try_join! of the receiver, the sender and the stdio handlers.
ServeJoin ==
    /\ Alive("server")
    /\ serve.pc = "join"
    /\ \/ /\ receiver["server"].pc = "done"
          /\ sender["server"].pc = "done"
          /\ StdioDone("server")
          /\ serve' = [serve EXCEPT !.pc = "ok"]
       \/ /\ receiver["server"].pc = "failed" \/ StdioFailed("server")
          /\ serve' = [serve EXCEPT !.pc = "err"]
    /\ UNCHANGED <<child, kill, notify, streamVars, linkVars, clientVars, windowVars>>

-----------------------------------------------------------------------------
(* The client's serve() and main().                                        *)

\* Any suffix of what is under way is lost.
Disconnect(how) ==
    /\ conn' = how
    /\ \E i \in 0..Len(net["client"]), j \in 0..Len(net["server"]) :
         net' = [sd \in Sides |-> SubSeq(net[sd], 1, IF sd = "client" THEN i ELSE j)]

\* process::exit: the socket is closed with the process.
ClientExits(result, c) ==
    /\ client' = result
    /\ code' = c
    /\ \/ conn = "up" /\ Disconnect("closed")
       \/ conn # "up" /\ UNCHANGED <<conn, net>>

\* exit_status_rx.await; an error ends the client at once with 255.
ClientStatus ==
    /\ Alive("client")
    /\ client = "status"
    /\ exit # NoStatus
    /\ \/ /\ exit[1] # "Lost"
          /\ client' = "stdio"
          /\ UNCHANGED <<code, conn, net>>
       \/ /\ exit[1] = "Lost"
          /\ ClientExits("err", 255)
    /\ UNCHANGED <<exit, queue, killed, sender, error, receiver, streamVars, serverVars, windowVars>>

\* Mutant: the handlers are joined one after the other, whatever they return.
ClientStdioJoinAll ==
    /\ Alive("client")
    /\ client = "stdio"
    /\ StdioDone("client")
    /\ winch.pc = "done"
    /\ client' = "join"
    /\ UNCHANGED <<code, conn, net, exit, queue, killed, sender, error, receiver, streamVars, serverVars, windowVars>>

\* try_join_all of the stdio handlers and the window_change task.
ClientStdio ==
    /\ Alive("client")
    /\ client = "stdio"
    /\ \/ /\ StdioDone("client")
          /\ winch.pc = "done"
          /\ client' = "join"
          /\ UNCHANGED <<code, conn, net>>
       \/ /\ StdioFailed("client")
          /\ ClientExits("err", 255)
    /\ UNCHANGED <<exit, queue, killed, sender, error, receiver, streamVars, serverVars, windowVars>>

\* try_join! of the receiver and the sender, then the end of main.
ClientJoin ==
    /\ Alive("client")
    /\ client = "join"
    /\ \/ /\ receiver["client"].pc = "done"
          /\ sender["client"].pc = "done"
          /\ ClientExits("ok", ExitCode(exit))
       \/ /\ receiver["client"].pc = "failed"
          /\ ClientExits("err", 255)
    /\ UNCHANGED <<exit, queue, killed, sender, error, receiver, streamVars, serverVars, windowVars>>

\* The network fails, or a process is killed.
ConnectionLost ==
    /\ conn = "up"
    /\ Disconnect("down")
    /\ \E f \in Failures :
         killed' = {f} \cap Sides
    /\ UNCHANGED <<queue, sender, error, receiver, streamVars, serverVars, clientVars, windowVars>>

-----------------------------------------------------------------------------

SourceIn(s) == ReadPacket(s) \/ EndOfInput(s)
SourceStep(s) == SourceSend(s) \/ SourceTake(s)
SinkStep(s) == SinkTake(s) \/ SinkSend(s) \/ SinkFinish(s)
WindowStep == WindowSignal \/ WindowSend \/ WindowEnd
SenderStep(sd) == SenderTake(sd) \/ SenderWrite(sd) \/ SenderDrained(sd)
ReceiverStep(sd) ==
    \/ ReceiverRecv(sd) \/ ReceiverRoute(sd) \/ ReceiverError(sd)
    \/ ReceiverShutdown(sd) \/ ReceiverShutdownEnd(sd)
ServeStep == ServeWait \/ ServeKill \/ ServeSinkClosed \/ ServeExit \/ ServeJoin
ClientStep == ClientStatus \/ ClientStdio \/ ClientJoin

\* The client's process has ended; no task of the session is left on the server.
ClientOver == ~Alive("client")
ServerOver ==
    \/ ~Alive("server")
    \/ /\ serve.pc \in {"ok", "err"}
       /\ sender["server"].pc = "done"
       /\ ReceiverEnded("server")
       /\ TxDropped("server")

Over == ClientOver /\ ServerOver

Terminated == Over /\ UNCHANGED vars

Next ==
    \/ \E s \in Streams :
         SourceIn(s) \/ SourceStep(s) \/ SinkStep(s) \/ SinkWrite(s)
    \/ Resize \/ WindowStep
    \/ \E sd \in Sides : SenderStep(sd) \/ ReceiverStep(sd)
    \/ SenderNotified
    \/ ChildExit \/ ServeStep \/ ClientStep \/ ConnectionLost
    \/ Terminated

Spec == Init /\ [][Next]_vars

\* Tokio polls every ready task.  The user may type nothing.  The client's
\* writes return; the child may leave its input unread, but a pipe without a
\* reader fails the write.  Once the child has exited, its outputs come to an
\* end.
Fairness ==
    /\ \A s \in Streams : WF_vars(SourceStep(s)) /\ WF_vars(SinkStep(s))
    /\ \A s \in Sinks("client") : WF_vars(SinkWrite(s))
    /\ WF_vars(child # Running /\ SinkWrite("Stdin"))
    /\ \A s \in Sinks("client") : WF_vars(child # Running /\ SourceIn(s))
    /\ WF_vars(WindowStep)
    /\ \A sd \in Sides : WF_vars(SenderStep(sd)) /\ WF_vars(ReceiverStep(sd))
    /\ WF_vars(SenderNotified)
    /\ WF_vars(ServeStep)
    /\ WF_vars(ClientStep)

FairSpec == Spec /\ Fairness

-----------------------------------------------------------------------------
(* Properties.                                                             *)

TypeOK ==
    /\ src \in [Streams -> SourceState]
    /\ snk \in [Streams -> SinkState]
    /\ \A s \in Streams : /\ Len(srcRx[s]) <= ChanCap
                          /\ Len(snkRx[s]) <= ChanCap
                          /\ \A i \in 1..Len(srcRx[s]) : srcRx[s][i] \in SinkAction
                          /\ \A i \in 1..Len(snkRx[s]) : snkRx[s][i] \in SourceAction
    /\ \A sd \in Sides : Len(queue[sd]) <= QueueCap /\ Len(net[sd]) <= NetCap
    /\ conn \in {"up", "down", "closed"}
    /\ killed \subseteq Sides
    /\ \A sd \in Sides :
         /\ sender[sd].pc \in {"recv", "write", "notified", "done"}
         /\ receiver[sd].pc \in {"recv", "route", "shutdown", "done", "failed"}
    /\ error \in [Sides -> BOOLEAN]
    /\ child \in Statuses \cup {Running, SigKill}
    /\ serve.pc \in {"wait", "sinkclosed", "exit", "join", "ok", "err"}
    /\ client \in {"status", "stdio", "join", "ok", "err"}
    /\ exit \in Statuses \cup {NoStatus, <<"Lost", 0>>}
    /\ pty \in 0..term

\* As long as writes fail with BrokenPipe only, no receiver is ended by a
\* message that it cannot deliver or by a second exit status.
ReceiversSurvive == \A sd \in Sides : receiver[sd].pc # "failed"

\* When a client ends with the status of the command and the connection did
\* not fail, its outputs have everything the child and its descendants wrote.
OutputDelivered ==
    (client = "ok" /\ conn = "closed") =>
        \A s \in Sinks("client") :
            (HasSource(s) /\ ~snk[s].closed) => Len(out[s]) = Packets[s]

\* A client that ends without an error ends with the code of the status with
\* which the child exited, and that child was not killed by the server.
ExitCodeIsChilds ==
    client = "ok" =>
        /\ child \in Statuses
        /\ code = IF child[1] = "Code" THEN child[2] ELSE 128 + child[2]

\* Finished is the last word: when a side has received it, the tasks and the
\* queue of the peer are finished and nothing else is under way from there; and
\* the server says it only when both sides have closed every stream.
FinishedIsLast ==
    /\ \A sd \in Sides :
         (receiver[sd].pc = "done" /\ ~receiver[sd].failed) =>
             /\ sender[Peer(sd)].pc = "done"
             /\ TxDropped(Peer(sd))
             /\ net[Peer(sd)] = <<>>
             /\ queue[Peer(sd)] = <<>>
    /\ (receiver["client"].pc = "done" /\ ~receiver["client"].failed) =>
         /\ \A sd \in Sides :
              /\ queue[sd] = <<>>
              /\ \A s \in Sources(sd) : src[s].pc \in {"done", "failed"}
              /\ \A s \in Sinks(sd) : snk[s].pc \in {"done", "failed"}
         /\ child # Running

\* A session that loses no connection ends once the child has exited, both
\* sides in good order, whatever the user's input does.
CleanEnd == child # Running ~> (client = "ok" /\ serve.pc = "ok")

\* A session always ends once the child has exited, also when the connection
\* is lost at any point of the handshake.
SessionEnds == child # Running ~> Over

\* A child is not left behind by a lost connection, as long as the server runs and
\* still receives: it is killed, or it has exited.
LostClientKillsChild ==
    (conn # "up" /\ Alive("server") /\ ~ReceiverEnded("server")) ~> child # Running

\* After a loss of the connection the client ends, whether or not it already
\* has the exit status.
LostServerEndsClient == conn # "up" ~> ClientOver

\* When an output of the client fails (a full disk, say), the client ends with
\* an error once the child has exited: the failure is neither lost in the stopped
\* task nor does it hold up the end of the session.
FailedOutputIsReported ==
    (child # Running /\ snk["Stdout"].pc = "failed") ~> client = "err"

\* "all stream closed, waiting for receiver task finished" (sender.rs of the
\* server): the sender waits for the receiver and no longer.
SenderFollowsReceiver ==
    (sender["server"].pc = "notified" /\ ReceiverEnded("server"))
        ~> sender["server"].pc = "done"

\* The terminal of the child gets the size of the client's terminal, in the
\* order of the changes.
SizesInOrder == [][pty' >= pty]_vars

=============================================================================
