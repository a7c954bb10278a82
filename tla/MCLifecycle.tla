---------------------------- MODULE MCLifecycle ----------------------------
(* Instances of Lifecycle for TLC.                                         *)
EXTENDS Lifecycle

\* Every command line that has an effect of its own: -T; none; -t; -tt; each with
\* -L or not, and an empty command where it decides.
AllOptions ==
    {o \in CommandLine : (o.disable => o.force = 0) /\ (o.disable \/ o.force > 0 => ~o.shell)}

\* Every failure the code handles, and the end of the client by a signal.
Everything ==
    {"listen", "connect", "size limit", "tcsetattr", "signal", "stdin", "outputs", "task",
     "panic", "resolve", "pty", "spawn", "winsize", "dup", "link", "client"}
=============================================================================
