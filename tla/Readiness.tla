----------------------------- MODULE Readiness -----------------------------
(***************************************************************************)
(* Non-blocking reads and writes of a descriptor through tokio's AsyncFd,   *)
(* as transitions of one direction of it: the loops of Stdin::poll_read,    *)
(* PtyMaster::poll_read and PtyMaster::poll_write.  The kernel reports an   *)
(* event when the descriptor becomes ready, once; the driver of the runtime *)
(* turns it into a readiness that stays until an operation would block.     *)
(*   idle    nobody polls the descriptor                                    *)
(*   poll    poll_read_ready or poll_write_ready is next                    *)
(*   io      it was ready: read(2) or write(2) is next                      *)
(*   clear   the call would have blocked: try_io clears the readiness       *)
(*   parked  the poll returned Pending                                      *)
(***************************************************************************)
EXTENDS Naturals

FdState ==
    [pc : {"idle", "poll", "io", "clear", "parked"},
     event : BOOLEAN,   \* epoll holds an event that the driver has not taken
     ready : BOOLEAN,   \* the readiness AsyncFd keeps
     waker : BOOLEAN]   \* the task is to be woken when it becomes ready

\* A descriptor that is registered while it can be used has an event at once.
Registered(usable) == [pc |-> "idle", event |-> usable, ready |-> FALSE, waker |-> FALSE]

\* The kernel: the descriptor becomes usable.
BecomesUsable(fd) == [fd EXCEPT !.event = TRUE]

\* The runtime polls the driver between the polls of its tasks, in its only
\* thread.
DriverRuns(fd) == fd.event /\ fd.pc \in {"idle", "parked"}

Driven(fd) ==
    [fd EXCEPT !.event = FALSE, !.ready = TRUE, !.waker = FALSE,
               !.pc = IF fd.waker THEN "poll" ELSE fd.pc]

\* A future that reads or writes is polled.
Polled(fd) == [fd EXCEPT !.pc = "poll"]

\* poll_read_ready and poll_write_ready register the task if they return Pending.
PollReady(fd) ==
    IF fd.ready THEN [fd EXCEPT !.pc = "io"] ELSE [fd EXCEPT !.pc = "parked", !.waker = TRUE]

\* try_io: the operation would block, or it does something.
WouldBlock(fd) == [fd EXCEPT !.pc = "clear"]
Completed(fd) == [fd EXCEPT !.pc = "idle"]

\* Mutant: the poll returns Pending after an operation that would block.
ClearedPending(fd) == [fd EXCEPT !.pc = "parked", !.ready = FALSE]

\* The loop goes round once more: only poll_*_ready registers the task.
Cleared(fd) == [fd EXCEPT !.pc = "poll", !.ready = FALSE]

\* A parked task will be woken if the descriptor is usable, or when it becomes so.
WillWake(fd, usable) == fd.pc = "parked" => fd.waker /\ (usable => fd.event)

=============================================================================
