# rlirsh, specified and checked

rlirsh is a remote shell: `rlirsh server` accepts TCP connections and runs a
command for each; `rlirsh execute` asks for a command, carries its standard
streams and window size over the connection, and ends with its exit code.  With
`-L` it also forwards local TCP ports.  Paths below are relative to the
repository.

## The system

Both programs run on a `current_thread` tokio runtime (`src/main.rs:41`): tasks
interleave where they await and nowhere else.  Every model here takes that as
its grain: a step is the code of one task from one await to the next.

| Component | State | Operations | What makes it correct |
|---|---|---|---|
| source task (`src/stream/source.rs`) | reader, channel(1) of `SinkAction`, where it awaits | read, send Data, await Ack, send SourceClosed | stop-and-wait: one packet under way; never meets an Ack it does not wait for (it would panic) |
| sink task (`src/stream/sink.rs`) | writer, channel(1) of `SourceAction`, `is_closed` | write, send Ack, flush, answer SinkClosed, shut the writer down | writes in order and once; a broken pipe is answered until the source closes |
| `RecvRouter` (`src/stream/recv_router.rs`) | four maps from ids to channel senders | insert, route a message, shutdown | never delivers to a finished sink; shutdown reaches every task |
| receiver tasks (`src/execute/receiver.rs`, `src/server/execute/receiver.rs`) | socket reader, router, error channel | receive and route; Exit, window size, Finished; shutdown after an error | messages of a stream stay in order; a failure closes everything on this side |
| sender tasks (`src/execute/sender.rs`, `src/server/execute/sender.rs`) | socket writer, `send_msg` channel(128), `is_failed` | drain the queue; Finished when all senders are dropped (the server first awaits the receiver's notification) | Finished is last; a failed write does not block the producers |
| client `serve()`, `main()` (`src/execute/mod.rs`) | oneshot for the exit status, broadcast for the end, stdio handlers | await status, announce the end, join stdio, leave raw mode, join receiver and sender, exit code | ends once the command has ended, with all of its output and its code |
| server `serve()` (`src/server/execute/mod.rs`) | child, kill channel, `Notify` | wait for the child or kill it, SinkClosed, Exit, join | the child does not outlive a lost client as long as the receiver is there to ask for its end; the client learns the status |
| window_change (`src/execute/window_change.rs`) | signal stream, end broadcast | read the size, send it | sizes arrive in order |
| port forwarding (`src/stream/listener.rs`, `connecter.rs`) | listener, one pending connection, router entries | accept, Connect, ConnectResponse, start the two stream tasks of each side | a connection is forwarded or closed; it does not harm the session |
| set-up of a session (`create_request`, `connect`, `serve()` of the client; `handle_request` of the server) | options, request, listeners, child | listen, connect, Request, resolve, spawn, Response, start the tasks | a refusal is reported; what was started is stopped again, whichever step fails |
| framing (`src/protocol.rs`) | what `send_message` and `recv_message` have still to write or read | size, limit, body | what is sent is received, however it is cut |
| raw mode (`src/terminal/raw_mode.rs`) | saved terminal settings behind a lock | enter, leave, guard, panic hook, newline conversion | the terminal is restored on every way out |
| standard input (`src/stdin.rs`), pseudo-terminal (`tokio-pty-command`) | `AsyncFd` and its readiness | `poll_read`, `poll_write`; open, spawn, duplicate | no wakeup is lost, no byte is lost or repeated |
| server accept loop (`src/server/mod.rs`) | listener | accept, a task per connection | |
| sockets and parsing (`src/net.rs`, `src/parse.rs`) | none | try addresses in order; read a specifier | |

### How they interact

A message of a source goes into the `send_msg` channel of its side, through the
sender task, the TCP connection and the receiver task of the other side, into
the sink's channel; acknowledgements take the same way back.  The receiver
awaits room in a task's channel, so one task can hold up the session.  The end
is a handshake without a coordinator: the child exits; serve() sends SinkClosed
for the client's stdin and Exit; each side's queue closes when the last task
drops its `send_msg_tx`; the client's sender says Finished, the server's
receiver notifies its sender, which says Finished in turn.

### What is hard

Acks, close messages of the sink, of serve() and of a shutdown cross on the
way; queues of capacity 1 and a receiver that waits; ends that are signalled by
dropping channel senders; a kill that races with an exit; failures of either
process at every point of the handshakes at both ends; errors that leave a task
through `?` and skip what follows; terminal settings that three places restore;
readiness that is reported once.  `PROJECT.json` lists them under "hazards", each with
its line.

## Modules

| Module | What it models | Code |
|---|---|---|
| `StreamTasks` | the source and the sink task as operators on their local state; `pc` names the await a task is parked at | `stream/source.rs`, `stream/sink.rs` |
| `Stream` | one stream: both tasks, their channels, a FIFO each way, what a receiver does for it, and faults | the above, `stream/recv_router.rs` |
| `Pipe` | the abstract specification of a stream: a pipe of one packet that may be cut | |
| `Session` | both sides of a session without port forwarding: three streams, queues, connection, senders, receivers, child, both serve(), exit code, window size | `execute/*.rs`, `server/execute/*.rs` |
| `SessionStream` | the session's Stdin and Stdout shown to implement `Stream` | |
| `PortForward` | one forwarded port: listener, connecter and the tasks it spawns, up to `MaxConns` connections with two streams each, and the part of the session that ends with them; its connections shown to implement two `Stream`s | `stream/listener.rs`, `stream/connecter.rs`, `stream/recv_router.rs` |
| `Lifecycle` | the client from its command line to its exit code and the server's task for it: set-up, refusals, child, raw mode, panics, and the size of the terminal | `execute/mod.rs`, `server/execute/mod.rs`, `server/mod.rs`, `terminal/*.rs`, `window_change.rs`, `net.rs`, `main.rs`, `command_ext.rs` |
| `Readiness` | one direction of an `AsyncFd` as operators: kernel event, driver, readiness, waker, and the loops that use them | `stdin.rs`, `pty_master.rs` |
| `Framing` | the size field and `recv_message` as operators on what has arrived | `protocol.rs` |
| `BytePath` | the bytes a user types, from the client's standard input through messages in pieces to the child's terminal; uses `Readiness` twice and `Framing` once | `stdin.rs`, `protocol.rs`, `stream/source.rs`, `stream/sink.rs`, `pty_master.rs` |
| `StreamTasksProofs` | lemmas about the tasks, their channels and the order of what is on a way, for all who use them | |
| `StreamProofs` | theorems about `Stream` | |
| `SessionProofs`, `SessionOrderProofs`, `SessionDeliveryProofs` | theorems about `Session` | |
| `PortForwardProofs`, `LifecycleProofs`, `BytePathProofs` | theorems about `PortForward`, `Lifecycle` and `BytePath` | |
| `MCStream`, `MCSession`, `MCPortForward`, `MCLifecycle`, `MCBytePath` | instances for TLC | |

The layers are joined by refinement: `Pipe` is what a user of a stream relies on,
`Stream` implements it (`ImplementsPipe`), and the streams inside a session and
of a forwarded connection implement `Stream` (`StdinIsStream`,
`StdoutIsStream`, `ForwardIsStream`).  `Stream` is where the protocol
of one stream is seen alone; the refinements say that sharing queues,
connection and receivers with the others changes nothing about it.  `BytePath`
looks below them: it opens the packet, the write and the message that `Stream` and
`Session` take as units.  `Lifecycle` looks around them: of a session's streams it has their
end, and `Session` starts where it has reached `status`.

### State and code

* `src`, `snk`: the locals of the two `Task::handle`.  `pc = "ack"` of a source,
  for example, is the `rx.recv()` that follows `tx.send(Data)`; `closed` of a
  sink is `is_closed`.  A packet is the number of the read that returned it.
* `srcRx`, `snkRx`: the `mpsc::channel(1)` of each task, whose sender is its
  entry in the `RecvRouter`.
* `fwd`, `back` (`Stream`), `path` (`PortForward`): everything between a task
  and the receiver of the other side.  `Session` has its parts: `queue` is the
  `send_msg` channel, `sender[sd].msg` the message the sender task is writing,
  `net` the bytes in the TCP buffers, `receiver[sd].msg` the message that awaits
  room in a task's channel.
* `receiver[sd].todo` is what `RecvRouter::shutdown` has drained from its maps and
  still has to close, one task after the other, as each close awaits.
* A channel whose senders are all dropped is not a variable.  `TxDropped` says
  when no task of a side holds a `send_msg_tx`, `RouterDropped` when no one
  holds the `Arc<RecvRouter>`: both are read off the states of the tasks, since
  in the code they are decided by where each clone goes out of scope.
* `client` and `serve` are where the two `serve()` functions await; `code` is the
  exit code `main` returns.
* `pc` and `spc` of `Lifecycle` name the call that is next in `main()` and `serve()`;
  a call that may fail is named in `Failures`.  `mode` is the terminal itself,
  `saved` is `RAW_MODE.orig`, `guard` the `RawModeGuard` in scope: the three are
  apart because the code restores the terminal by what it saved and forgets that
  before it has succeeded.  Sizes are numbered as the user makes them; 0 is the
  size no local terminal has (80x60 in a request without one, 0x0 of a new one).
* `sender` and `receiver` of `Lifecycle` are the two tasks that decide when Finished of the
  client is said and what follows it.  The sender says it when the queue closes: the
  window_change task and the listeners of `-L` hold the queue until `task_end`, which follows
  the exit status (`HeldUntilStatus`); a session without either says it when its streams have
  ended, be it before the child.  The server's receiver ends with Finished, and drops
  `kill_error_tx` with it, or with a failure of its connection, and asks for the child
  to be killed; `ServeKill` needs the second.
* `Readiness` has one `pc` per place of the loop: `poll_*_ready` (`poll`), the
  system call (`io`), the end of `try_io` (`clear`), Pending (`parked`).  The kernel
  may report an event between any two; the driver takes it only between polls, as
  the runtime has one thread.
* `BytePath` numbers the bytes, so that order, loss and repetition are one
  equation.  Its size field has `SizeBytes` digits to the base `Base`.
* Entries of ended tasks stay in the maps in the code.  Here an entry is the
  task's state: routing to an ended sink is the error that ends the receiver,
  routing to an ended source is not, as in `send_source_action` and
  `send_sink_action`.

Some definitions are preceded by a mutated form, which shows that a property depends
on them; its comment starts with `Mutant`.  A mutant is never part of a
specification.

## Runs

"Bounds" gives what differs from an unbounded system; the channel of each task has
its real capacity of 1 everywhere.

| Run | Question | Bounds |
|---|---|---|
| `stream` | Does a stream deliver what it read, without a panic, a loss, a repetition or a message to an ended task; does a close at either end close the other, and a lost connection end both tasks; is it a pipe of one packet? | 3 packets; any write may succeed, break or fail; the connection may be lost, and either receiver may fail |
| `session_stdin` | Does a session end in good order, with the child's code, whatever input is under way? | terminal; 1 packet of input, the child may close its input; exit by code or signal; queues and TCP buffers of 1 message |
| `session_outputs` | Does all output arrive before the client ends, and is a failing output reported? | no terminal, so stderr is a stream; 1 packet of output; writes to stdout succeed, break or fail |
| `session_terminal` | Do changes of the window size arrive in order while output flows and the session ends? | terminal; 2 changes, 1 packet of output; queues of 2 messages |
| `session_lost` | Do both sides end when either process dies at any point? | terminal; no data, so the streams carry their close messages only |
| `session_stdin_error` | finding 1 | 1 packet of input whose write fails |
| `forward` | Is every connection answered, forwarded in full, and no obstacle to the end of the session? | 2 connections, 1 packet from each local peer; outputs do not break |
| `forward_lost` | Are established connections closed on both sides when the connection to the server is lost? | 1 connection, 1 packet from the remote peer once it has seen the end of its input; outputs may break |
| `forward_early` | finding 2 | 1 connection whose remote peer may speak first |
| `forward_shutdown` | findings 3 and 4 | 1 connection without data; the connection is lost |
| `lifecycle` | Is the terminal restored, the child of a lost client ended where the code promises it, a refusal reported and the size of the terminal kept, whatever fails? | every command line (`-T`, `-t`, `-tt`, `-L` or not, a command or none where it decides, a terminal or none); 2 addresses; 2 changes of the size; every failure the code handles, a panic, a lost connection, a killed client |
| `byte_path` | Do the bytes arrive in order however reads and writes cut them, and is no wakeup lost? | 6 bytes, packets of up to 4, a size of 3 binary digits, TCP buffers of 3 bytes, a terminal that holds 2 |

Why these bounds are enough to be of interest:

* Three packets: the stop-and-wait protocol has one packet under way, so the third
  is sent when the first is long forgotten; the theorems cover every number.
* Queues and TCP buffers of one or two messages instead of 128 and some
  kilobytes: a small queue blocks its producers early, which is the hard case; a
  larger one only lets more interleavings of independent messages happen.
  `session_terminal` uses 2, because the order of two sizes needs a queue that holds both.
* One packet per stream in a session: a packet, its Ack, the close of the source and
  up to three SinkClosed (of the sink, of serve(), of a shutdown) meet in the
  channels of one stream, and three streams meet in the queues.
* Two connections: one is requested or refused while the other carries data or
  closes; a third would add no kind of pair.

* `lifecycle`: a second change of the size can be made while the first is under way;
  two addresses have a first and a last.
* `byte_path`: every buffer is smaller than a packet and the size field alone fills
  the TCP buffers, so every write and read is cut, and the terminal is full
  within each packet; 6 bytes are two packets at least.

Deadlock is checked in every passing run but two.  In `session_outputs` a client
that ends because its output failed may meet a server that hangs by finding 1;
in `forward_lost` the tasks of findings 3 and 4 stay behind.

### Properties

Each property has a comment at its definition.  The ones that carry most:

* `OnePacket`, `OneBehind`, `NoPanic`: the stop-and-wait protocol under crossing
  acknowledgements and close messages.
* `CloseEndsBoth`: a sink that closes stops the source of the other side and is closed
  by it in turn, without a fault on the way.
* `NeverStalls`, `NoStraySourceAction`: a receiver, which serves every stream of
  a session, is not held up by an output that does not accept data, and not
  ended by a message for a task that has finished.
* `CleanEnd`, `FinishedIsLast`, `OutputDelivered`: the end of a session, which no
  single task coordinates; when the client has the server's Finished, every task
  and queue of both sides is through.
* `SessionEnds`, `LostClientKillsChild`, `LostServerEndsClient`,
  `LostLinkClosesForwards`: what a failure at any point must lead to.
* `ForwardedInFull`, `RequestIsAnswered`: the forwarded connections of both sides
  agree, although each side starts its tasks on its own.
* `TerminalRestored`, `NoFalseSuccess`: three places leave raw mode, each way out of
  `main()` passes some of them, and the settings are forgotten before they are
  restored; `unrestored` names the one excuse, a `tcsetattr` that failed.
* `SizeSettles`: the size of the request, the ones of the signal and the one the
  server applies agree in the end; `missed` names the excuses, a change between the
  request and the registration of the handler, and a failure to apply it.
* `ChildIsNotLeft`, `RefusalIsReported`: wherever the server is in its handshake when
  the client goes or a step fails.  `ChildIsNotLeft` has an exception, `LeftEarly`, and it is
  one of the code: a client without a terminal and without `-L` whose three streams have ended
  before its child (`true | rlirsh execute host 'exec <&- >&- 2>&-; sleep 1000'`) has said
  Finished; the server's receiver has ended, and when the client is killed then, only
  `child.wait()` is left of the `select!` (`src/server/execute/mod.rs:223`) and the child
  runs on.  No document of the repository promises otherwise.  `LostClientKillsChild` of
  `Session` leaves the same case out (`~ReceiverEnded`).  `ReceiverStays` proves that no
  session with a terminal or `-L` comes to it.
* `InOrder`, `NoLostWakeup`, `BytesArrive`: partial reads and writes and events that
  come while a task is about to sleep.

### Fairness

Weak fairness of the steps of a task stands for tokio, which polls every task that
is ready, and for two things the environment owes: a write to the client's
outputs or to a forwarded socket returns, and `connect` returns.  What need not
happen, and is not assumed: that the user types or ends the input, that the
child exits (`child # Running` and `serve # "wait"` are premises of the
properties), that a child reads its input (a write to it is only sure to return
once the child has exited and the pipe has no reader), that a local connection
arrives, that something fails.  Once the child has exited its output pipes end, and
the peers of forwarded connections close them (`WF` of the reads, under that
condition): a forwarded connection that is never closed does keep the session
open in the code.  The exit of a child is taken to include the processes it left
behind with its pipes.  In `Lifecycle` each program goes on when it can and its
system calls return; the streams, and with them the client's sender, have to end only once
the exit status is known; the child need not exit, no failure and no change of the size
has to happen.  In `BytePath` the runtime polls what is ready, TCP delivers and the
child reads; nobody has to type.

## Findings

1. *`session_stdin_error`.*  The server's sender waits for the receiver to finish
   (`src/server/execute/sender.rs:72`), but a receiver that leaves through `?`
   never calls `notify_one` (`src/server/execute/receiver.rs:84`, `:108`).  When a
   write to the child's standard input fails with anything but BrokenPipe, the
   sender waits for ever and the client with it.
2. *`forward_early`.*  The listener registers the tasks of a connection after it
   has got the ConnectResponse (`src/stream/listener.rs:72-85`), while the
   receiver goes on to the next message.  Data of a remote peer that speaks
   first may find no sink; the error ends the client's receiver and the session.
   The passing `forward` runs assume `RemoteFirst = FALSE` for this reason: the
   remote peer speaks when it has been spoken to.
3. *`forward_shutdown`.*  `RecvRouter::shutdown` drains three of its four maps
   (`src/stream/recv_router.rs:45`); a listener that waits for a ConnectResponse
   keeps the client from ending.
4. *`forward_shutdown`, second clause.*  A connect that completes during or after the
   shutdown starts tasks that nothing closes (`src/stream/connecter.rs:114`).
   `LostLinkClosesForwards` therefore speaks of established connections only.
   The run stops at finding 3; the clause of the server is violated too when it
   is the only one.

## Proofs

The theorems hold for every value of the constants that the assumptions allow, and
`StreamAssumption`, `SessionAssumption`, `PortForwardAssumption`, `LifecycleAssumption` and
`BytePathAssumption` say no more than what kind of thing each constant is, and that a packet is
within the limit of a message's size; `FramingAssumption` says that the size field
holds every size up to the limit.  Three theorems need other hypotheses, which they
state: the two `ReceiversSurviveCorrect`, and `ForwardIsStreamCorrect`.

| Module | Theorem | States |
|---|---|---|
| `StreamProofs` | `TypeCorrect` | `Spec => []TypeOK`; the task channels hold one message at most |
| | `OnePacketCorrect` | `Spec => []OnePacket` |
| | `OneBehindCorrect` | `Spec => []OneBehind` |
| | `NoPanicCorrect` | `Spec => []NoPanic` |
| | `AckedIsWrittenCorrect` | `Spec => AckedIsWritten`, a property of steps |
| | `NoStraySourceActionCorrect` | `Spec => []NoStraySourceAction` |
| | `NeverStallsCorrect` | `Spec => []NeverStalls` |
| | `CompleteCorrect` | `Spec => []Complete` |
| | `ImplementsPipeCorrect` | `Spec => P!Spec`: a stream implements a pipe |
| `SessionProofs` | `SessionTypeCorrect` | `Spec => []TypeOK` |
| | `ExitCodeIsChildsCorrect` | `Spec => []ExitCodeIsChilds` |
| `SessionOrderProofs` | `OrderInvariance` | `Spec => []Order`, the order of the end |
| | `ReceiversSurviveCorrect` | `Spec => []ReceiversSurvive`, if no write fails but by BrokenPipe |
| | `SizesInOrderCorrect` | `Spec => SizesInOrder`, a property of steps |
| `SessionDeliveryProofs` | `TokensInvariance` | `Spec => []Tokens`, one packet or acknowledgement per stream |
| | `FinishedIsLastCorrect` | `Spec => []FinishedIsLast` |
| | `OutputDeliveredCorrect` | `Spec => []OutputDelivered` |
| | `StdinIsStreamCorrect` | `Spec => StdinIsStream`: the standard input of a session implements `Stream` |
| | `StdoutIsStreamCorrect` | `Spec => StdoutIsStream`: the standard output does, too |
| `PortForwardProofs` | `PortForwardTypeCorrect` | `Spec => []TypeOK` |
| | `ForwardedInFullCorrect` | `Spec => []ForwardedInFull` |
| | `ReceiversSurviveCorrect` | `Spec => []ReceiversSurvive`, if `RemoteFirst = FALSE` and no write fails but by BrokenPipe |
| | `ForwardIsStreamCorrect` | `Spec => ForwardIsStream`, if moreover `Faults = {}`: each direction of a forwarded connection implements `Stream` |
| `LifecycleProofs` | `LifecycleTypeCorrect` | `Spec => []TypeOK` |
| | `TerminalRestoredCorrect` | `Spec => []TerminalRestored` |
| | `NoFalseSuccessCorrect` | `Spec => []NoFalseSuccess` |
| | `SizeSettlesCorrect` | `Spec => []SizeSettles` |
| | `ReceiverStays` | `Spec => [](ReceiverLeftChild => ~HeldUntilStatus)`: the receiver of a session with a terminal or `-L` outlasts the child |
| `BytePathProofs` | `NoLostWakeupCorrect` | `Spec => []NoLostWakeup` |
| | `InOrderCorrect` | `Spec => []InOrder` |

Each proof that an invariant is kept has one step for each action, or one for each
group of actions that treat the invariant alike, after lemmas that say what the
group leaves alone.

### A stream

The inductive invariant of `StreamProofs` is `Inv == TypeOK /\ OnePacket /\ OneBehind`.
`OneBehind` alone is not inductive: a write appends whatever packet the sink holds,
so the invariant has to say that it holds the one that was read last and that
this one has not been written.  `OnePacket` says that, by following the packet
through every place it can be: as Data in the path, in the sink's channel or in
the sink; then as its Ack in the sink, in the way back or in the source's
channel; never in two of them, and with the output one behind before the write
and level after it.  It also gives that no Ack is under way while the source
reads or sends, which is what keeps the panic unreachable.  A lost
connection, which keeps a prefix of what is under way, and a shutdown, which
empties it, only take packets away.

`OnePacket` says nothing of close messages, and how a stream ends needs them.
`CloseInv` adds them: SourceClosed is the last message of its source
(`CloseIsLast`), in the sink's channel it is the last one or the receiver's own
(`CloseArrived`), a sink shuts its writer down after one of the two (`SinkOver`);
SinkClosed has a cause, which is serve(), a broken pipe or a shutdown
(`CloseHasCause`), a source that closes with its packet under way was told to by
serve() (`CloseServed`, `ClosedArrived`), and a packet that was read is written, under
way, or lost with a cause (`NotLost`).  A receiver meets an ended sink only if
`SinkOver` is violated; a full channel before a sink that writes holds the close of a
source whose packet is not acknowledged; what ends complete is `NotLost` at the end.
`ImplementsPipeCorrect` takes the steps of `Stream` one by one: the read of the source is
the pipe's, the write of the sink is the pipe's, faults cut it, the end of the sink
ends it (`EndIsComplete` says it may), and every other step leaves its variables
alone.

`AckedIsWritten` is in no run of its own: that `Stream` implements `Pipe` says more.
A receiver that fails (`failed`) and one that has shut down (`gone`) are two states
that differ for `LostLinkEndsTasks` only; the proofs treat them alike (`Silent`).

### A session

The three modules build on each other.

`SessionProofs`: the type invariant of a session is only inductive when the types say
which messages a side can have under way.  `Msgs(sd)` does, and says that they are
true: a size is one that the terminal has had, an exit status is that of a child
that has exited by itself.  `Inv` adds to it who knows the status by when
(`StatusKnown`); the exit code of the client follows, since no later step revives or
kills the child.  `TypeOK` itself bounds every queue, connection and task channel.

`SessionOrderProofs`: the queue, the message that the sender writes, the connection and
the message that the receiver holds are one sequence, `Path(sd)`, of which most steps
only move the boundaries.  Every step either keeps a part of it, in its order, or adds
one message at its end (`PathStep`), and `Adds` names the steps that do; after this
lemma an order on the way is a matter of what is added when.  `Order` has three parts:
Finished is the last message of a side, behind it the queue is closed and the tasks
are through (`FinishOrder`); nothing follows a stream's SourceClosed to its sink, and a
sink closes under a receiver that takes messages only behind it (`CloseOrder`); the
exit status is reported once (`ExitOrder`).  With these no receiver meets a message
for a task that has ended, or a second status, which are the two errors that end
one.  The third is a sink that has failed on a write: `ReceiversSurviveCorrect` assumes
that no outcome of `WriteResults` is `"other"`.  The run that checks the property,
`session_stdin`, has such a constant, and finding 1 is what happens without it.
`SizesInOrder` is a question of the way, too: `SizeOrder` says that the sizes on it grow, from
the one applied last to the one read last.

`SessionDeliveryProofs`: `Token(s)` is `OnePacket` of a stream inside a session.  Its packet
or its acknowledgement is in one place at most, whatever else is on the shared way;
while its source reads or sends, nowhere.  `FinishedIsLast` follows from `FinishOrder`
and from the absence of a panicked source, which `Tokens` gives: a task that has
dropped its sender is done or failed.  `OutputDelivered` needs to know of each output, as
long as nothing has failed (`Sound`), that it has written all but the packet under
way, and that it closes at the end of the child's output or when its pipe is broken
(`Delivers`); and of `main()` that it ends after the tasks of the standard streams have
(`ClientEnd`).  At the end nothing is under way, so nothing is left to write.  What was
delivered when the client ends well is kept as a part of the invariant, since the
state of the other side is no longer `Sound` then.

The last part of `SessionDeliveryProofs` proves the refinement.  `Of(s)` is the mapping of
`SessionStream` for any stream s that has a source, and `StreamNext` takes every step of
the session to a step of `Of(s)!Next` or to none (`StepOf`), in groups: the tasks of the
stream (`SourceSteps`, `SinkSteps`), all that does not concern it (`StrangerSteps`), the
receivers (`ReceiverReads`, `ReceiverRoutes`, `ReceiverDrops`, `ReceiverCloses`), serve()
and the connection.  The mapping's `fwd` and `back` are what the shared way says to one
task, `Actions(Path(sd), s, ...)`, a recursive function over the messages of all streams.
What it becomes when a message is put on the way, is taken off it, or when its end is
lost, is `ActionsMove` of `StreamTasksProofs`; it is proved by `LeastNumber`, as below.
Beside `Ending` the steps need `RouterOrder`: a shutdown closes every task of its side
once, and only a receiver that shuts down has failed in this way.  With it, a task that
finds its channel without a sender has a receiver that tells it nothing any more
(`RouterSilent`).  One case of the mapping was found by this proof: a serve() that
has failed drops the router although its receiver has ended in good order, so that the
receiver is then `failed` for the stream.  `InIsOf` and `OutIsOf` only say that `In` and
`Out` of `SessionStream`, the instances that TLC checks, are `Of` of the two streams.

With `ImplementsPipeCorrect` the two theorems make a chain: a session's standard input and
output are pipes of one packet, and what `StreamProofs` shows of a stream alone holds of
them.

### A forwarded port

The tasks of a connection are those of `Stream`, but they are started while the session
runs, on the server before the client knows that there is a connection, and every
connection shares one way with the others, the listener and the connecter.
The invariant of `PortForwardProofs`, `ForwardInv`, has these parts beside the types:

* `Requested`: a request of the listener and its answer are one token.  `RequestToken(c)`
  follows it from the listener to the path, the connecter's channel, the dial, the way
  back and the listener's channel, and says that it is in one place; `RequestResult(c)`
  says what the tasks of both sides are at each of them.  Both tasks of a
  connection are started together (`Paired`).  That no answer but the awaited one comes
  (the `ensure!` of the listener) is part of it.
* `Finish`: Finished is the last message of a side and comes when all of its tasks have
  ended; the server's comes after the client's, as its sender is the last of its
  session (`ServerFinish`); a side in shutdown means a connection that is down.
* `Token(p, c)`, of the stream that side p reads: `OnePacket` once more, before and after
  its tasks are started.
* `Cause(p, c)`: a source is told to close by a sink whose reader is gone or by its own
  side's shutdown, and by nothing else.
* `Count(p, c)`: how many packets have been read and written at each place of the token, and
  that a source leaves a packet unwritten only if its side has shut down or failed.

`ForwardedInFull` is then read off at the end: when the client's receiver has
finished, nothing is under way and all tasks have ended in good order, so what was
read has been written.

`ReceiversSurvive` asks for more (`SurviveInv`): nothing follows a SourceClosed to its sink and
that sink does not end before it (`CloseOrder`), nothing follows the listener's close to the
connecter (`ListenerOrder`), no sink has failed (`NoFailedSink`), and the server's tasks of
a connection are idle until those of the client are there (`Quiet`).  The hypotheses are
what the passing `forward` runs assume, and both are needed: with a peer that speaks first `Quiet`
fails, which is finding 2, and with a write that fails by another error `NoFailedSink` does, as
in finding 1.  TLC finds `ReceiversSurvive` violated when either is dropped.

`ForwardIsStream` is proved by a lemma for each kind of step, for any connection and either
direction (`Of(p, c)`), of which the two streams of connection 1 are instances.  A step of one of the
stream's own tasks is the step of that task (`SourceIsStep`, `SinkIsStep`), a message that a receiver takes
for it is routed to it (`ReceiveIsStep`), and every other step changes neither its tasks nor
what the two ways say to it (`OtherTasks`, `EndsRest`); the start of a task is a stutter, since a task that
has not been started is mapped to one at its start.  Beside `ForwardInv` and `SurviveInv` this needs
that a receiver in a session where nothing fails never shuts down (`Calm`), and that the packet
a sink writes is the one its source read last (`Numbers`): `PortForward` counts what is
written, where `Stream` keeps the packets.  The hypotheses are what the mapping is made for: in it
the receivers route for ever.  With `Faults = {"link"}` a task may be started behind a
shutdown that has passed it by (finding 4), and a stream has no such task.  The loss of the
connection by the end of the client is part of the theorem.

### The client's life

Neither `TerminalRestored` nor `NoFalseSuccess` is inductive.  The invariant `Inv` of
`LifecycleProofs` adds what holds on the way: the
saved settings exist exactly while the terminal is raw (`SavedIsRaw`); they are
covered by a guard from `enter_scoped` to the return of `main()`, and gone behind
`leave()` (`GuardCovers`, `LeftIsCooked`); a failure to restore the terminal ends the
program (`FailureEnds`); and an exit status, in a message or in the client's hands,
is one of a child that has exited, which no later step revives or kills
(`ExitIsTrue`, `SpawnedOnce`).  The steps of `main()` are proved in three groups: before
raw mode, in the session, on the way out; no other step touches the terminal
(`OtherSteps`).

`SizeSettles` looks at a moment when no size is under way; `SizeInv` says what it means that
one is.  Unless a change was missed or its signal is pending, the present size is the
last one on the way to the server, or there is none on the way and the server has it:
in the request until it sets the first size, in the terminal from then on
(`SizeIsKnown`).

`ReceiverStays` bounds the exception of `ChildIsNotLeft`.  Its invariant, `FinishedInv`, follows
Finished back to its sender: who has it, has it from a sender that is done, and a sender
that is done while the queue was held open comes after an exit status, hence, by
`ExitIsTrue`, after the exit of the child.

### Readiness

`NoLostWakeup` speaks of parked tasks.  A task parks at the end of a poll that began some
steps before, so the invariant of `BytePathProofs` says of a descriptor wherever its task
is that it has an event or its readiness when it is usable, and an event, which the
driver has not yet taken, at `clear` and at `parked`: the loop clears a readiness that
came before its call, and one that came during the call is still to be delivered
(`FdInv`).

### Bytes

`InOrder` says where each byte is; its invariant, `PathInv`, says what the bytes on the way
are: `d` is the packet under way and `rest` the part of its message that is still to come,
and what the reader has, what the TCP buffers hold and `rest` are together one message
or the part of it behind its size (`Carries`, `Holds`).  Every step moves a
boundary between buffers, and leaves the concatenation of all as it is.  There is one
message at most: as long as the connection lasts, one of the source, the
connection and the sink has the packet (`Turn`).  A lost connection is why `rest` is a
variable of its own in the invariant: the reader may still have the first part of a
message whose end no buffer holds any more.  That the reader then finds the boundary
of the size and of the message needs that the size is read as it was written,
`SizeIsRead`: `SizeOf(SizeField(n)) = n` for every n up to the limit, in every base and
with every width.  Both directions are recursive functions over the digits, so this
is an induction over data.  The library's induction theorems take an operator, which
the provers cannot instantiate; `LeastNumber` does without: a set of numbers that is not
empty has a least one, and the least counterexample is refuted.  In this way
`WeightFacts` shows that the recursion of `Weight` defines the powers of the base, and
`SizeIsRead` that after i digits the reader has the quotient by the weight of the
i-th (`SizeSoFar`).

### Only model-checked

* All liveness: it needs fairness and ENABLED, which the prover does not reach.

No module uses RECURSIVE operators.

## Not modelled

* *What a message contains* (`src/protocol.rs`): bincode is the identity on a tag
  and the bytes; a message that does not deserialize comes from a program other
  than rlirsh.
* *The forms of `-L` and of an address* (`src/parse.rs`, parts of `src/net.rs`): data
  without a state.  Listening on a specifier is one call that may fail.
* *Several sessions of one server*: the accept loop (`src/server/mod.rs`) starts a
  task for each, without shared state; what they share is the thread, which a
  blocking name lookup holds up (a hazard without a property).  An error of
  `accept` that persists is a loop of warnings.
* *File descriptors*: `PtyMaster` closes none (a hazard without a property).
* *A client killed by a signal* leaves its terminal raw, as it has no handler for
  one; `TerminalRestored` leaves that case out.
* *`tokio::fs::File` of the client's outputs*: it reports the error of a write with
  the next call.  The models let a write or its flush fail, which is the same
  to the sink.
* *A receiver that leaves through `?`* in `Lifecycle`: its receiver ends with Finished or with
  its connection.  One that a failing stream has ended asks for nothing either (finding 1);
  that case is in `Session` only.
* *Panics of the window_change task and of the listeners* in `Lifecycle`: the assertions they
  meet say that the id of a connection is new and its entry there, which holds as each is used
  once, so `TaskPanics` is one of the streams' tasks and closes no queue early.
* *Argument parsing and logging*, but for when a log line is converted.
* *Several forwarded ports*: each has its own listener, connecter and id range;
  they share queues and receivers, as the connections of one port do.

## Plan

1. Done: `StreamTasks`, `Stream`, `Pipe`; `Session` over them; `PortForward`; the
   set-up and the end of both programs in `Lifecycle`; `Readiness`, `Framing`,
   `BytePath`.
2. Done: the theorems listed above; every invariant that a passing run checks is one of them.
3. Open: a mapping of forwarded connections to streams that also covers a lost connection.
   A task that is started behind the shutdown of its receiver (finding 4) needs a
   `Stream` whose receivers may be gone from the beginning.
