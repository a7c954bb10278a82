-------------------------------- MODULE Pipe --------------------------------
(***************************************************************************)
(* What one stream promises to its user: a pipe that holds at most one      *)
(* packet.  Packets come out in the order in which they went in, each once; *)
(* the output ends only when it is complete or the pipe was cut, and a cut   *)
(* loses at most the packet it holds.                                       *)
(***************************************************************************)
EXTENDS Naturals, Sequences

VARIABLES
    taken,    \* packets taken from the input
    written,  \* packets accepted by the output
    cut,      \* the output broke, or the connection was lost
    ended     \* no packet will be written any more

vars == <<taken, written, cut, ended>>

Init ==
    /\ taken = 0
    /\ written = <<>>
    /\ cut = FALSE
    /\ ended = FALSE

\* Stop-and-wait: the pipe is empty when a packet enters it.
Take ==
    /\ taken = Len(written)
    /\ ended => cut
    /\ taken' = taken + 1
    /\ UNCHANGED <<written, cut, ended>>

Put ==
    /\ ~ended
    /\ Len(written) < taken
    /\ written' = Append(written, taken)
    /\ UNCHANGED <<taken, cut, ended>>

Cut ==
    /\ ~cut
    /\ cut' = TRUE
    /\ ended' \in {ended, TRUE}
    /\ UNCHANGED <<taken, written>>

End ==
    /\ ~ended
    /\ cut \/ Len(written) = taken
    /\ ended' = TRUE
    /\ UNCHANGED <<taken, written, cut>>

Next == Take \/ Put \/ Cut \/ End

Spec == Init /\ [][Next]_vars

=============================================================================
