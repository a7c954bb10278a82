----------------------------- MODULE MCSession -----------------------------
(* Instances of Session for TLC.                                           *)
EXTENDS SessionStream

OneStatus == {<<"Code", 3>>}
TwoStatuses == {<<"Code", 3>>, <<"Signal", 15>>}

\* Packets of the standard input, output and error.
P(i, o, e) == [s \in Streams |-> CASE s = "Stdin" -> i [] s = "Stdout" -> o [] OTHER -> e]
NoData == P(0, 0, 0)
In1 == P(1, 0, 0)
Out1 == P(0, 1, 0)

OkWrites == [s \in Streams |-> {"ok"}]
StdinBreaks == [OkWrites EXCEPT !["Stdin"] = {"ok", "broken"}]
StdinFails == [OkWrites EXCEPT !["Stdin"] = IoResult]
StdoutFails == [OkWrites EXCEPT !["Stdout"] = IoResult]
=============================================================================
