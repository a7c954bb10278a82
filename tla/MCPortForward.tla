--------------------------- MODULE MCPortForward ---------------------------
(* Instances of PortForward for TLC.                                        *)
EXTENDS PortForward

\* Packets a local and a remote peer send on each connection.
P(local, remote) == [sd \in Sides |-> IF sd = "client" THEN local ELSE remote]
NoData == P(0, 0)
Request == P(1, 0)
Reply == P(0, 1)
RequestReply == P(1, 1)
=============================================================================
