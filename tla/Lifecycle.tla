----------------------------- MODULE Lifecycle -----------------------------
(***************************************************************************)
(* The life of one `rlirsh execute', from its command line to its exit      *)
(* code, and of the task of the server that serves it: the handshake, the   *)
(* child process, the raw mode of the local terminal and its size.  `pc'    *)
(* and `spc' name the call that is next.  Both programs run other tasks     *)
(* only where they await, but between any two calls the other side, the     *)
(* child and the user act.                                                  *)
(* The streams of the session are in Session.tla; here they end at some     *)
(* time, be it before the child exits, in good order or not.                *)
(***************************************************************************)
EXTENDS Naturals, Sequences

CONSTANTS
    Options,    \* command lines, with what the standard input is
    Addrs,      \* number of addresses the name of the server has
    Failures,   \* the calls and parts that may fail, by name
    MaxResizes  \* bound on the changes of the local terminal's size

\* -T, the number of -t, an empty command, -L, and a terminal as standard input.
CommandLine ==
    [disable : BOOLEAN, force : 0..2, shell : BOOLEAN, forward : BOOLEAN, tty : BOOLEAN]

ASSUME LifecycleAssumption ==
    /\ Options \subseteq {o \in CommandLine : o.disable => o.force = 0}
    /\ Addrs \in Nat \ {0}
    /\ MaxResizes \in Nat

VARIABLES
    opts,        \* the command line
    req,         \* the request: a terminal, and its size
    pc,          \* main() and serve() of the client
    addr,        \* the address the client is connecting to
    guard,       \* a RawModeGuard is in scope
    code,        \* how the client ended
    told,        \* the client got the error response
    mode,        \* of the local terminal
    saved,       \* RAW_MODE holds the settings of the cooked mode
    unrestored,  \* a tcsetattr that should have restored them has failed
    size,        \* of the local terminal
    sig,         \* SIGWINCH is pending
    missed,      \* the last change of the size was not signalled or not applied
    ptySize,     \* size of the child's terminal
    c2s, s2c,    \* messages under way
    link,        \* the connection
    spc,         \* the task of the server
    child,       \* the child process
    sender,      \* the client's sender, which says Finished
    receiver     \* the server's receiver, which ends with Finished or the connection

clientVars == <<opts, req, pc, addr, guard, code, told>>
termVars == <<mode, saved, unrestored>>
sizeVars == <<size, sig, missed, ptySize>>
wireVars == <<c2s, s2c, link>>
serverVars == <<spc, child>>
taskVars == <<sender, receiver>>
vars == <<clientVars, termVars, sizeVars, wireVars, serverVars, taskVars>>

May(f) == f \in Failures

\* A size that no local terminal has: 80x60 in a request, 0x0 of a new pty.
NoSize == 0

Msg(what) == [what |-> what, size |-> NoSize]
WindowSizeChange(n) == [what |-> "WindowSizeChange", size |-> n]
ToServer == [what : {"Request", "WindowSizeChange", "Finished"}, size : 0..MaxResizes + 1]
ToClient == [what : {"Ok", "Err", "Exit", "Finished"}, size : {NoSize}]
Arrived(chan, what) == chan # <<>> /\ Head(chan).what = what

ClientGone == pc \in {"over", "aborted", "killed"}

\* A client that panicked inside the panic hook may wait for a lock it holds.
ClientEnded == ClientGone \/ pc = "hung"

ClientPc ==
    {"prepare", "connect", "request", "response", "raw", "handler", "stdin", "outputs",
     "status", "stdio", "leave", "join", "return", "fail", "over", "hung", "aborted", "killed"}

ServerPc ==
    {"backlog", "request", "resolve", "pty", "spawn", "window", "bind", "ok", "err", "serve",
     "finish", "over"}

TypeOK ==
    /\ opts \in Options
    /\ req \in [pty : BOOLEAN, size : 0..MaxResizes + 1]
    /\ pc \in ClientPc
    /\ addr \in 1..Addrs
    /\ guard \in BOOLEAN
    /\ code \in {"none", "status", "255", "101"}
    /\ told \in BOOLEAN
    /\ mode \in {"cooked", "raw"}
    /\ saved \in BOOLEAN
    /\ unrestored \in BOOLEAN
    /\ size \in 1..MaxResizes + 1
    /\ sig \in BOOLEAN
    /\ missed \in BOOLEAN
    /\ ptySize \in 0..MaxResizes + 1
    /\ c2s \in Seq(ToServer)
    /\ s2c \in Seq(ToClient)
    /\ link \in {"none", "up", "down"}
    /\ spc \in ServerPc
    /\ child \in {"none", "run", "exited", "killed"}
    /\ sender \in {"run", "done"}
    /\ receiver \in {"read", "finished", "lost"}

Init ==
    /\ opts \in Options
    /\ req = [pty |-> FALSE, size |-> NoSize]
    /\ pc = "prepare"
    /\ addr = 1
    /\ guard = FALSE
    /\ code = "none"
    /\ told = FALSE
    /\ mode = "cooked"
    /\ saved = FALSE
    /\ unrestored = FALSE
    /\ size = 1
    /\ sig = FALSE
    /\ missed = FALSE
    /\ ptySize = NoSize
    /\ c2s = <<>>
    /\ s2c = <<>>
    /\ link = "none"
    /\ spc = "backlog"
    /\ child = "none"
    /\ sender = "run"
    /\ receiver = "read"

-----------------------------------------------------------------------------
(* The raw mode of the local terminal: RAW_MODE and its users.             *)

\* RawMode::enter, with nothing saved: a standard input that is no terminal has
\* no settings to read.
EnterRawMode ==
    \/ /\ opts.tty
       /\ mode' = "raw"
       /\ saved' = TRUE
       /\ guard' = TRUE
       /\ UNCHANGED unrestored
    \/ /\ May("tcsetattr") \/ ~opts.tty
       /\ UNCHANGED <<termVars, guard>>

\* RawMode::leave takes the saved settings before it uses them.
Left ==
    \/ /\ saved
       /\ mode' = "cooked"
       /\ saved' = FALSE
       /\ UNCHANGED unrestored
    \/ /\ ~saved
       /\ UNCHANGED termVars

NotLeft ==
    /\ saved
    /\ May("tcsetattr")
    /\ saved' = FALSE
    /\ unrestored' = TRUE
    /\ UNCHANGED mode

\* The guard is dropped on the way out of main(), or there is none.
GuardDropped == (guard /\ Left) \/ (~guard /\ UNCHANGED termVars)

\* RawModeWriter: log lines get a carriage return while RAW_MODE says raw.
Converts == saved

-----------------------------------------------------------------------------
(* The client, from its start to the response.                             *)

\* The options decide whether a pseudo-terminal is asked for.
AllocatePty(o) ==
    /\ ~o.disable
    /\ o.force > 0 \/ o.shell
    /\ o.force = 2 \/ o.tty

\* get_window_size of the standard input, where it is a terminal.
LocalSize == IF opts.tty THEN size ELSE NoSize

Exits(c) == pc' = "over" /\ code' = c

\* prepare_local_forwarding fails if no address of a specifier can be listened
\* on; create_request reads the size of the terminal.
Prepare ==
    /\ pc = "prepare"
    /\ \/ /\ pc' = "connect"
          /\ req' = [pty |-> AllocatePty(opts),
                     size |-> IF AllocatePty(opts) THEN LocalSize ELSE NoSize]
          /\ UNCHANGED code
       \/ /\ opts.forward /\ May("listen")
          /\ Exits("255")
          /\ UNCHANGED req
    /\ UNCHANGED <<opts, addr, guard, told, termVars, sizeVars, wireVars, serverVars, taskVars>>

\* Mutant: one address more is tried than there are.
ConnectPast ==
    /\ pc = "connect"
    /\ \/ pc' = "request" /\ link' = "up" /\ UNCHANGED <<addr, code>>
       \/ May("connect") /\ addr <= Addrs /\ addr' = addr + 1 /\ UNCHANGED <<pc, code, link>>
    /\ UNCHANGED <<opts, req, guard, told, termVars, sizeVars, c2s, s2c, serverVars, taskVars>>

\* SocketAddrs::connect tries the addresses in order.
Connect ==
    /\ pc = "connect"
    /\ \/ /\ pc' = "request"
          /\ link' = "up"
          /\ UNCHANGED <<addr, code>>
       \/ /\ May("connect")
          /\ addr < Addrs
          /\ addr' = addr + 1
          /\ UNCHANGED <<pc, code, link>>
       \/ /\ May("connect")
          /\ addr = Addrs
          /\ Exits("255")
          /\ UNCHANGED <<addr, link>>
    /\ UNCHANGED <<opts, req, guard, told, termVars, sizeVars, c2s, s2c, serverVars, taskVars>>

\* A message on a lost connection fails to be sent, or is sent and lost.
Sent(chan, m) == IF link = "up" THEN Append(chan, m) ELSE chan

\* A request over the size limit is an error, and nothing of it is sent.
SendRequest ==
    /\ pc = "request"
    /\ \/ /\ pc' = "response"
          /\ c2s' = Sent(c2s, Msg("Request"))
          /\ UNCHANGED code
       \/ /\ May("size limit") \/ link = "down" \/ spc = "over"
          /\ Exits("255")
          /\ UNCHANGED c2s
    /\ UNCHANGED <<opts, req, addr, guard, told, termVars, sizeVars, s2c, link, serverVars, taskVars>>

\* What a reader on the client sees once nothing more can arrive.
ServerSilent == s2c = <<>> /\ (link = "down" \/ spc = "over")

RecvResponse ==
    /\ pc = "response"
    /\ \/ /\ Arrived(s2c, "Ok")
          /\ pc' = "raw"
          /\ s2c' = Tail(s2c)
          /\ UNCHANGED <<code, told>>
       \/ /\ Arrived(s2c, "Err")
          /\ Exits("255")
          /\ told' = TRUE
          /\ s2c' = Tail(s2c)
       \/ /\ ServerSilent
          /\ Exits("255")
          /\ UNCHANGED <<told, s2c>>
    /\ UNCHANGED <<opts, req, addr, guard, termVars, sizeVars, c2s, link, serverVars, taskVars>>

-----------------------------------------------------------------------------
(* The client's session.                                                   *)

\* leave_on_panic and enter_scoped; a failure to enter is only a warning.
EnterRaw ==
    /\ pc = "raw"
    /\ pc' = IF req.pty THEN "handler" ELSE "stdin"
    /\ \/ req.pty /\ EnterRawMode
       \/ ~req.pty /\ UNCHANGED <<termVars, guard>>
    /\ UNCHANGED <<opts, req, addr, code, told, sizeVars, wireVars, serverVars, taskVars>>

\* The calls that start the session's tasks; each error leaves main() by `?'.
Start(call, next, failure) ==
    /\ pc = call
    /\ pc' = next \/ (May(failure) /\ pc' = "fail")
    /\ UNCHANGED <<opts, req, addr, guard, code, told, termVars, sizeVars, wireVars, serverVars, taskVars>>

\* signal(SIGWINCH); Stdin::new, which epoll refuses for a regular file;
\* File::create for /dev/stdout and /dev/stderr.
StartTasks ==
    \/ Start("handler", "stdin", "signal")
    \/ Start("stdin", "outputs", "stdin")
    \/ Start("outputs", "status", "outputs")

\* exit_status_rx: the status, or the error of a receiver that failed.
AwaitStatus ==
    /\ pc = "status"
    /\ \/ /\ Arrived(s2c, "Exit")
          /\ pc' = "stdio"
          /\ s2c' = Tail(s2c)
       \/ /\ ServerSilent \/ May("task")
          /\ pc' = "fail"
          /\ UNCHANGED s2c
    /\ UNCHANGED <<opts, req, addr, guard, code, told, termVars, sizeVars, c2s, link, serverVars, taskVars>>

\* try_join_all(stdio_handlers): the streams have ended.
JoinStdio ==
    /\ pc = "stdio"
    /\ pc' = "leave" \/ (May("task") /\ pc' = "fail")
    /\ UNCHANGED <<opts, req, addr, guard, code, told, termVars, sizeVars, wireVars, serverVars, taskVars>>

\* Until task_end, which follows the status, the window_change task and the
\* listeners of -L hold a sender of the queue.
HeldUntilStatus == req.pty \/ opts.forward

\* Mutant: only the streams hold the queue open.
SenderFinishEarly ==
    /\ pc \in {"status", "stdio", "join"}
    /\ sender = "run"
    /\ sender' = "done"
    /\ c2s' = Sent(c2s, Msg("Finished"))
    /\ UNCHANGED <<clientVars, termVars, sizeVars, s2c, link, serverVars, receiver>>

\* The sender says Finished when nobody holds the queue any more: without a
\* terminal and -L as soon as the streams have ended, be it before the child.
SenderFinish ==
    /\ pc \in {"status", "stdio", "join"}
    /\ pc = "status" => ~HeldUntilStatus
    /\ sender = "run"
    /\ sender' = "done"
    /\ c2s' = Sent(c2s, Msg("Finished"))
    /\ UNCHANGED <<clientVars, termVars, sizeVars, s2c, link, serverVars, receiver>>

\* Mutant: the error of leave() is ignored.
LeaveIgnored ==
    /\ pc = "leave"
    /\ pc' = "join"
    /\ Left \/ NotLeft
    /\ UNCHANGED <<opts, req, addr, guard, code, told, sizeVars, wireVars, serverVars, taskVars>>

Leave ==
    /\ pc = "leave"
    /\ \/ Left /\ pc' = "join"
       \/ NotLeft /\ pc' = "fail"
    /\ UNCHANGED <<opts, req, addr, guard, code, told, sizeVars, wireVars, serverVars, taskVars>>

\* try_join!(receiver, sender): a receiver that has passed the status on and
\* finds the connection lost then ends without an error; an error of one is
\* returned before the other has ended.
JoinTasks ==
    /\ pc = "join"
    /\ \/ /\ Arrived(s2c, "Finished") /\ sender = "done"
          /\ pc' = "return"
          /\ s2c' = Tail(s2c)
       \/ /\ ServerSilent
          /\ pc' = "fail" \/ (sender = "done" /\ pc' = "return")
          /\ UNCHANGED s2c
       \/ /\ May("task")
          /\ pc' = "fail"
          /\ UNCHANGED s2c
    /\ UNCHANGED <<opts, req, addr, guard, code, told, termVars, sizeVars, c2s, link, serverVars, taskVars>>

\* Mutant: an error is returned past the guard.
ReturnUnguarded ==
    /\ \/ pc = "return" /\ Exits("status") /\ GuardDropped
       \/ pc = "fail" /\ Exits("255") /\ UNCHANGED termVars
    /\ UNCHANGED <<opts, req, addr, guard, told, sizeVars, wireVars, serverVars, taskVars>>

\* main() returns and drops the guard, which panics if it cannot restore the
\* settings.  By then they are forgotten, and the panic hook finds none.
Return ==
    /\ \/ pc = "return" /\ Exits("status") /\ GuardDropped
       \/ pc = "fail" /\ Exits("255") /\ GuardDropped
       \/ pc \in {"return", "fail"} /\ Exits("101") /\ guard /\ NotLeft
    /\ UNCHANGED <<opts, req, addr, guard, told, sizeVars, wireVars, serverVars, taskVars>>

\* A task panics where main() awaits.  The hook leaves raw mode and the session
\* goes on.  If it cannot, it panics while it holds the lock: the process is
\* aborted, or the hook runs again and waits for its own lock.  The window_change
\* task asserts nothing, and the listeners only that an id is used once, as it is.
TaskPanics ==
    /\ May("panic")
    /\ pc \in {"outputs", "status", "stdio", "join"}
    /\ \/ Left /\ UNCHANGED pc
       \/ NotLeft /\ pc' \in {"aborted", "hung"}
    /\ UNCHANGED <<opts, req, addr, guard, code, told, sizeVars, wireVars, serverVars, taskVars>>

-----------------------------------------------------------------------------
(* The size of the terminal.                                               *)

\* The handler is in place from signal() to the end of the window_change task.
Watching == req.pty /\ pc \in {"stdin", "outputs", "status"}

Resize ==
    /\ size <= MaxResizes
    /\ ~ClientEnded
    /\ size' = size + 1
    /\ sig' = (sig \/ Watching)
    /\ missed' = (pc # "prepare" /\ ~Watching)
    /\ UNCHANGED <<clientVars, termVars, ptySize, wireVars, serverVars, taskVars>>

\* Mutant: the size of the request is sent again.
WindowSignalOld ==
    /\ pc = "status" /\ sig
    /\ sig' = FALSE
    /\ c2s' = IF opts.tty THEN Sent(c2s, WindowSizeChange(req.size)) ELSE c2s
    /\ missed' = (missed /\ ~opts.tty)
    /\ UNCHANGED <<clientVars, termVars, size, ptySize, s2c, link, serverVars, taskVars>>

\* window_change::Task, which runs when serve() waits for the status: it sends
\* the size the terminal has now, if the standard input is a terminal.
WindowSignal ==
    /\ pc = "status" /\ sig
    /\ sig' = FALSE
    /\ c2s' = IF opts.tty THEN Sent(c2s, WindowSizeChange(size)) ELSE c2s
    /\ missed' = (missed /\ ~opts.tty)
    /\ UNCHANGED <<clientVars, termVars, size, ptySize, s2c, link, serverVars, taskVars>>

\* The receiver of the server sets the size; a failure is only a warning.
SetWindowSize ==
    /\ spc \in {"serve", "finish"} /\ receiver = "read"
    /\ Arrived(c2s, "WindowSizeChange")
    /\ c2s' = Tail(c2s)
    /\ \/ /\ ptySize' = IF req.pty THEN Head(c2s).size ELSE ptySize
          /\ UNCHANGED missed
       \/ /\ May("winsize")
          /\ missed' = TRUE
          /\ UNCHANGED ptySize
    /\ UNCHANGED <<clientVars, termVars, size, sig, s2c, link, serverVars, taskVars>>

-----------------------------------------------------------------------------
(* The server.                                                             *)

\* A Child that is dropped is killed.
DropChild == IF child = "run" THEN "killed" ELSE child

\* The accept loop spawns a task for a connection; an error of accept() is
\* logged and the connection stays in the backlog.
Accept ==
    /\ spc = "backlog" /\ link # "none"
    /\ spc' = "request"
    /\ UNCHANGED <<clientVars, termVars, sizeVars, wireVars, child, taskVars>>

\* The connection fails under a reader of the server, at once or after what the
\* client had sent.
ClientLost == link = "down" \/ ClientGone

RecvRequest ==
    /\ spc = "request"
    /\ \/ /\ Arrived(c2s, "Request")
          /\ c2s' = Tail(c2s)
          /\ spc' = "resolve"
       \/ /\ ClientLost
          /\ spc' = "over"
          /\ UNCHANGED c2s
    /\ UNCHANGED <<clientVars, termVars, sizeVars, s2c, link, child, taskVars>>

\* prepare_local_forwarding resolves the remote addresses.
Resolve ==
    /\ spc = "resolve"
    /\ \/ spc' = IF req.pty THEN "pty" ELSE "spawn"
       \/ opts.forward /\ May("resolve") /\ spc' = "err"
    /\ UNCHANGED <<clientVars, termVars, sizeVars, wireVars, child, taskVars>>

\* PtyMaster::open.
OpenPty ==
    /\ spc = "pty"
    /\ spc' = "spawn" \/ (May("pty") /\ spc' = "err")
    /\ UNCHANGED <<clientVars, termVars, sizeVars, wireVars, child, taskVars>>

\* The shell runs when spawn() returns.  The pseudo-terminal is its controlling
\* terminal, which has no size yet.
SpawnWithPty ==
    /\ spc = "spawn" /\ req.pty
    /\ child' = "run"
    /\ spc' = "window"
    /\ UNCHANGED <<clientVars, termVars, sizeVars, wireVars, taskVars>>

SpawnWithPipes ==
    /\ spc = "spawn" /\ ~req.pty
    /\ child' = "run"
    /\ spc' = "ok"
    /\ UNCHANGED <<clientVars, termVars, sizeVars, wireVars, taskVars>>

\* The user has no login shell, or it cannot be executed.
SpawnFails ==
    /\ spc = "spawn" /\ May("spawn")
    /\ spc' = "err"
    /\ UNCHANGED <<clientVars, termVars, sizeVars, wireVars, child, taskVars>>

\* The size of the new terminal is set while the child already runs.
SetFirstSize ==
    /\ spc = "window"
    /\ \/ /\ ptySize' = req.size
          /\ spc' = "bind"
          /\ UNCHANGED child
       \/ /\ May("winsize")
          /\ spc' = "err"
          /\ child' = DropChild
          /\ UNCHANGED ptySize
    /\ UNCHANGED <<clientVars, termVars, size, sig, missed, wireVars, taskVars>>

\* bind_stdio duplicates the descriptor of the pseudo-terminal.
BindStdio ==
    /\ spc = "bind"
    /\ \/ /\ spc' = "ok"
          /\ UNCHANGED child
       \/ /\ May("dup")
          /\ spc' = "err"
          /\ child' = DropChild
    /\ UNCHANGED <<clientVars, termVars, sizeVars, wireVars, taskVars>>

\* Mutant: the error of handle_request is returned before a response is sent.
RespondOkOnly ==
    /\ \/ spc = "ok" /\ spc' = "serve" /\ s2c' = Sent(s2c, Msg("Ok")) /\ UNCHANGED child
       \/ spc = "ok" /\ ClientLost /\ spc' = "over" /\ child' = DropChild /\ UNCHANGED s2c
       \/ spc = "err" /\ spc' = "over" /\ UNCHANGED <<s2c, child>>
    /\ UNCHANGED <<clientVars, termVars, sizeVars, c2s, link, taskVars>>

\* main() sends the response before it looks at the result itself.
Respond ==
    /\ \/ /\ spc = "ok"
          /\ spc' = "serve"
          /\ s2c' = Sent(s2c, Msg("Ok"))
          /\ UNCHANGED child
       \/ /\ spc = "ok"
          /\ ClientLost
          /\ spc' = "over"
          /\ child' = DropChild
          /\ UNCHANGED s2c
       \/ /\ spc = "err"
          /\ spc' = "over"
          /\ s2c' = Sent(s2c, Msg("Err"))
          /\ UNCHANGED child
    /\ UNCHANGED <<clientVars, termVars, sizeVars, c2s, link, taskVars>>

\* serve() selects between the end of the child and a request to kill it.
ServeExit ==
    /\ spc = "serve" /\ child = "exited"
    /\ spc' = "finish"
    /\ s2c' = Sent(s2c, Msg("Exit"))
    /\ UNCHANGED <<clientVars, termVars, sizeVars, c2s, link, child, taskVars>>

\* The receiver leaves its loop with Finished and drops kill_error_tx.
RecvFinished ==
    /\ spc \in {"serve", "finish"} /\ receiver = "read"
    /\ Arrived(c2s, "Finished")
    /\ c2s' = Tail(c2s)
    /\ receiver' = "finished"
    /\ UNCHANGED <<clientVars, termVars, sizeVars, s2c, link, serverVars, sender>>

\* It leaves it with an error of its connection, and asks for the child to be
\* killed.  A receiver that a failing stream ends is a subject of Session.tla.
ReceiverLost ==
    /\ spc \in {"serve", "finish"} /\ receiver = "read"
    /\ ClientLost
    /\ receiver' = "lost"
    /\ UNCHANGED <<clientVars, termVars, sizeVars, wireVars, serverVars, sender>>

\* kill_error_rx: nothing comes from a receiver that has ended with Finished.
ServeKill ==
    /\ spc = "serve" /\ receiver = "lost"
    /\ spc' = "finish"
    /\ child' = DropChild
    /\ UNCHANGED <<clientVars, termVars, sizeVars, wireVars, taskVars>>

\* The tasks are joined; the sender waits for the receiver before its last word.
ServeFinish ==
    /\ spc = "finish" /\ receiver # "read"
    /\ spc' = "over"
    /\ s2c' = Sent(s2c, Msg("Finished"))
    /\ UNCHANGED <<clientVars, termVars, sizeVars, c2s, link, child, taskVars>>

-----------------------------------------------------------------------------
(* The environment.                                                        *)

ChildExits ==
    /\ child = "run"
    /\ child' = "exited"
    /\ UNCHANGED <<clientVars, termVars, sizeVars, wireVars, spc, taskVars>>

LinkLost ==
    /\ May("link") /\ link = "up"
    /\ link' = "down"
    /\ \E i \in 0..Len(c2s) : c2s' = SubSeq(c2s, 1, i)
    /\ \E i \in 0..Len(s2c) : s2c' = SubSeq(s2c, 1, i)
    /\ UNCHANGED <<clientVars, termVars, sizeVars, serverVars, taskVars>>

\* SIGTERM, SIGHUP or SIGINT: rlirsh has no handler for them.
ClientKilled ==
    /\ May("client") /\ ~ClientGone
    /\ pc' = "killed"
    /\ UNCHANGED <<opts, req, addr, guard, code, told, termVars, sizeVars, wireVars, serverVars, taskVars>>

-----------------------------------------------------------------------------

ClientStep ==
    \/ Prepare \/ Connect \/ SendRequest \/ RecvResponse \/ EnterRaw \/ StartTasks
    \/ AwaitStatus \/ JoinStdio \/ Leave \/ JoinTasks \/ Return

ServerStep ==
    \/ Accept \/ RecvRequest
    \/ Resolve \/ OpenPty \/ SpawnWithPty \/ SpawnWithPipes \/ SpawnFails
    \/ SetFirstSize \/ BindStdio \/ Respond
    \/ SetWindowSize \/ RecvFinished \/ ReceiverLost
    \/ ServeExit \/ ServeKill \/ ServeFinish

\* The client is over, and the server where it has seen it.
Terminated ==
    /\ ClientEnded
    /\ spc = "over" \/ (spc = "backlog" /\ link = "none") \/ pc = "hung"
    /\ UNCHANGED vars

Next ==
    \/ ClientStep \/ SenderFinish \/ ServerStep
    \/ TaskPanics \/ Resize \/ WindowSignal
    \/ ChildExits \/ LinkLost \/ ClientKilled
    \/ Terminated

Spec == Init /\ [][Next]_vars

\* Each program goes on when it can, and its system calls return.  The streams
\* end, and the sender with them, once the child has exited; before that nothing
\* need end them.  The child need not exit, nothing has to fail and no size has to
\* change.
Fairness ==
    /\ WF_vars(ClientStep) /\ WF_vars(ServerStep) /\ WF_vars(WindowSignal)
    /\ WF_vars(pc # "status" /\ SenderFinish)

FairSpec == Spec /\ Fairness

-----------------------------------------------------------------------------
(* Properties.                                                             *)

\* Whichever way the client ends by itself - a refused request, an error at any
\* point of the set-up or the session, a task that panicked - it leaves the
\* terminal as it found it, unless tcsetattr failed to restore it; and as long as
\* it has not, log lines are converted if and only if the terminal is raw.
TerminalRestored ==
    ~unrestored => /\ ClientEnded /\ pc # "killed" => mode = "cooked"
                   /\ Converts <=> mode = "raw"

\* The client reports the status of the child only if the child ended by itself
\* and the terminal was restored.
NoFalseSuccess == code = "status" => child = "exited" /\ mode = "cooked"

\* While the session runs and no change of the size is under way, the child's
\* terminal has the size of the local one.  The exception is a last change
\* between the request and the registration of the signal handler, or one that
\* the server could not apply.
SizeSettles ==
    ( /\ pc = "status" /\ spc = "serve"
      /\ req.pty /\ opts.tty
      /\ ~sig /\ c2s = <<>> /\ link = "up"
      /\ ~missed ) => ptySize = size

\* The server's receiver has ended with a Finished that the client may say before
\* the child has exited.
LeftEarly == receiver = "finished" /\ ~HeldUntilStatus

\* From the time the client is gone or the connection is lost, wherever the
\* server is in its handshake, there is an end to the child, and none is spawned
\* after it.  The exception is a client without a terminal and -L whose streams
\* have all ended before the child: its Finished has ended the receiver, and
\* nobody is left to ask for the child to be killed.
ChildIsNotLeft == (ClientGone \/ link = "down") ~> [](child # "run" \/ LeftEarly)

\* A client whose request fails on the server is told so, and ends.
RefusalIsReported == spc = "err" ~> (told /\ pc = "over") \/ link = "down" \/ pc = "killed"

=============================================================================
