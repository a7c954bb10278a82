------------------------- MODULE SessionOrderProofs -------------------------
(***************************************************************************)
(* Proofs about the order in which the messages of a session arrive: what   *)
(* is last is last, so that no receiver is ended by a message that comes    *)
(* too late, and Finished is the end.  The streams, the statuses and the     *)
(* words of main() share one queue and one connection per side; an ordered   *)
(* statement about one of them is a statement about the whole way.           *)
(***************************************************************************)
EXTENDS SessionProofs

-----------------------------------------------------------------------------
(* The way of the messages.                                                *)

\* What the peer's receiver holds, h, then what is in the connection, n, then, as long
\* as it is up, what the sender holds, m, and its queue, q.
PathOf(h, n, c, m, q) == h \o n \o (IF c = "up" THEN m \o q ELSE <<>>)

\* Concatenation, with its definition out of sight.
Cat(a, b) == a \o b

\* Concatenation is associative.
LEMMA CatAssociative ==
    ASSUME NEW S
    PROVE  \A a, b, c \in Seq(S) : Cat(Cat(a, b), c) = Cat(a, Cat(b, c))
  BY ConcatAssociative DEF Cat

\* How a message moves along.
LEMMA PathMoves ==
    ASSUME NEW S, NEW h \in Seq(S), NEW n \in Seq(S), NEW x \in S
    PROVE  /\ \A m, q \in Seq(S) :
                Appended(PathOf(h, n, "up", m, Append(q, x)), PathOf(h, n, "up", m, q), x)
           /\ \A q \in Seq(S) : \A r :
                Taken(r, x, q) => PathOf(h, n, "up", <<x>>, q) = PathOf(h, n, "up", <<>>, r)
           /\ Appended(PathOf(h, n, "up", <<x>>, <<>>), PathOf(h, n, "up", <<>>, <<>>), x)
           /\ \A q \in Seq(S) :
                PathOf(h, Append(n, x), "up", <<>>, q) = PathOf(h, n, "up", <<x>>, q)
  <1> SUFFICES ASSUME NEW m \in Seq(S), NEW q \in Seq(S)
               PROVE  /\ Appended(PathOf(h, n, "up", m, Append(q, x)), PathOf(h, n, "up", m, q), x)
                      /\ \A r : Taken(r, x, q) =>
                               PathOf(h, n, "up", <<x>>, q) = PathOf(h, n, "up", <<>>, r)
                      /\ Appended(PathOf(h, n, "up", <<x>>, <<>>), PathOf(h, n, "up", <<>>, <<>>), x)
                      /\ PathOf(h, Append(n, x), "up", <<>>, q) = PathOf(h, n, "up", <<x>>, q)
    OBVIOUS
  <1> DEFINE l == <<x>>
             e == <<>>
             P(a, b, c, d) == PathOf(a, b, "up", c, d)
  <1>1. l \in Seq(S) /\ e \in Seq(S)
    OBVIOUS
  <1>2. \A a \in Seq(S) : Append(a, x) = Cat(a, l)
    BY AppendIsConcat DEF Cat
  <1>3. \A a \in Seq(S) : Cat(e, a) = a /\ Cat(a, e) = a
    BY ConcatEmptySeq DEF Cat
  <1>4. \A a, b \in Seq(S) : Cat(a, b) \in Seq(S)
    BY ConcatProperties DEF Cat
  <1>5. \A a, b, c \in Seq(S) : Cat(Cat(a, b), c) = Cat(a, Cat(b, c))
    BY CatAssociative
  <1>6. \A a, b, c, d : P(a, b, c, d) = Cat(Cat(a, b), Cat(c, d))
    BY DEF PathOf, Cat
  <1>7. \A p, r : /\ Appended(p, r, x) <=> p = Append(r, x)
                  /\ Taken(r, x, p) <=> r = Cat(l, p)
    BY DEF Taken, Appended, Cat
  <1> HIDE DEF l, e, P
  <1>8. P(h, n, m, Append(q, x)) = Append(P(h, n, m, q), x)
    <2>1. Cat(h, n) \in Seq(S) /\ Cat(m, q) \in Seq(S)
      BY <1>4
    <2>2. Cat(m, Cat(q, l)) = Cat(Cat(m, q), l)
      BY <1>1, <1>5
    <2>3. Cat(Cat(h, n), Cat(Cat(m, q), l)) = Cat(Cat(Cat(h, n), Cat(m, q)), l)
      BY <1>1, <1>5, <2>1
    <2>4. P(h, n, m, q) \in Seq(S)
      BY <1>4, <1>6, <2>1
    <2> QED
      BY <1>2, <1>6, <2>2, <2>3, <2>4
  <1>9. \A r : r = Cat(l, q) => P(h, n, l, q) = P(h, n, e, r)
    BY <1>1, <1>3, <1>4, <1>6
  <1>10. P(h, n, l, e) = Append(P(h, n, e, e), x)
    <2>1. Cat(h, n) \in Seq(S)
      BY <1>4
    <2>2. P(h, n, l, e) = Cat(Cat(h, n), l) /\ P(h, n, e, e) = Cat(h, n)
      BY <1>1, <1>3, <1>6, <2>1
    <2> QED
      BY <1>2, <2>1, <2>2
  <1>11. P(h, Append(n, x), e, q) = P(h, n, l, q)
    <2>1. Cat(h, n) \in Seq(S) /\ Append(n, x) = Cat(n, l) /\ Cat(e, q) = q
      BY <1>2, <1>3, <1>4
    <2>2. Cat(h, Cat(n, l)) = Cat(Cat(h, n), l)
      BY <1>1, <1>5
    <2>3. Cat(Cat(Cat(h, n), l), q) = Cat(Cat(h, n), Cat(l, q))
      BY <1>1, <1>5, <2>1
    <2> QED
      BY <1>6, <2>1, <2>2, <2>3
  <1> QED
    BY <1>7, <1>8, <1>9, <1>10, <1>11 DEF l, e, P

\* A way is a sequence of messages; when nothing is left, and nothing will come.
LEMMA PathIsSeq ==
    ASSUME NEW S, NEW h \in Seq(S), NEW n \in Seq(S), NEW m \in Seq(S), NEW q \in Seq(S),
           NEW c
    PROVE  /\ PathOf(h, n, c, m, q) \in Seq(S)
           /\ c # "up" => PathOf(<<>>, <<>>, c, m, q) = <<>>
  <1>1. m \o q \in Seq(S) /\ h \o n \in Seq(S) /\ <<>> \in Seq(S)
    BY ConcatProperties
  <1>2. PathOf(h, n, c, m, q) \in Seq(S)
    BY <1>1, ConcatProperties DEF PathOf
  <1>3. c # "up" => PathOf(<<>>, <<>>, c, m, q) = <<>>
    BY <1>1, ConcatEmptySeq DEF PathOf
  <1> QED
    BY <1>2, <1>3

\* How a message arrives at the peer's receiver.
LEMMA PathArrives ==
    ASSUME NEW S, NEW n \in Seq(S), NEW m \in Seq(S), NEW q \in Seq(S), NEW x \in S,
           NEW c
    PROVE  /\ \A r : Taken(r, x, n) => PathOf(<<x>>, n, c, m, q) = PathOf(<<>>, r, c, m, q)
           /\ Taken(PathOf(<<x>>, n, c, m, q), x, PathOf(<<>>, n, c, m, q))
  <1> DEFINE l == <<x>>
             e == <<>>
             rest == IF c = "up" THEN m \o q ELSE e
  <1>1. l \in Seq(S) /\ rest \in Seq(S) /\ l \o n \in Seq(S)
    BY ConcatProperties
  <1>2. e \o (l \o n) = l \o n /\ e \o n = n
    BY <1>1, ConcatEmptySeq
  <1>3. /\ PathOf(l, n, c, m, q) = (l \o n) \o rest
        /\ PathOf(e, l \o n, c, m, q) = (l \o n) \o rest
        /\ PathOf(e, n, c, m, q) = n \o rest
    BY <1>2 DEF PathOf
  <1> HIDE DEF l, rest
  <1>4. (l \o n) \o rest = l \o (n \o rest)
    BY <1>1
  <1> QED
    BY <1>3, <1>4 DEF l, Taken

\* When the connection is lost, the first of the messages arrive, and no others.
LEMMA PathCut ==
    ASSUME NEW S, NEW h \in Seq(S), NEW n \in Seq(S), NEW m \in Seq(S), NEW q \in Seq(S),
           NEW c, NEW lost, lost # "up", NEW k \in 0..Len(n)
    PROVE  Begins(PathOf(h, SubSeq(n, 1, k), lost, m, q), PathOf(h, n, c, m, q))
  <1> DEFINE rest == IF c = "up" THEN m \o q ELSE <<>>
  <1>1. rest \in Seq(S)
    OBVIOUS
  <1> HIDE DEF rest
  <1>2. PICK p \in Seq(S), t \in Seq(S) : p = SubSeq(n, 1, k) /\ n = p \o t
    <2>0. Len(n) \in Nat
      OBVIOUS
    <2>1. SubSeq(n, 1, k) \in Seq(S) /\ SubSeq(n, k + 1, Len(n)) \in Seq(S)
      BY <2>0, SubSeqProperties
    <2>2. SubSeq(n, 1, k) \o SubSeq(n, k + 1, Len(n)) = SubSeq(n, 1, Len(n))
      <3>1. 1 \in 1..Len(n) + 1 /\ k \in 1 - 1..Len(n) /\ Len(n) \in k..Len(n)
        BY <2>0
      <3> QED
        BY <2>0, <3>1, ConcatAdjacentSubSeq
    <2>3. SubSeq(n, 1, Len(n)) = n
      BY SubSeqFull
    <2> QED
      BY <2>1, <2>2, <2>3
  <1>3. PICK a \in Seq(S), b \in Seq(S) : a = h \o p /\ b = t \o rest
    BY <1>1, ConcatProperties
  <1>4. PathOf(h, n, c, m, q) = a \o b
    <2>1. PathOf(h, n, c, m, q) = (h \o (p \o t)) \o rest
      BY <1>2 DEF PathOf, rest
    <2>2. \A x, y, z \in Seq(S) : Cat(Cat(x, y), z) = Cat(x, Cat(y, z))
      BY CatAssociative
    <2>3. Cat(h, Cat(p, t)) = Cat(a, t)
      <3>1. Cat(Cat(h, p), t) = Cat(h, Cat(p, t))
        BY <2>2
      <3> QED
        BY <1>3, <3>1 DEF Cat
    <2>4. Cat(a, Cat(t, rest)) = Cat(Cat(a, t), rest)
      BY <1>1, <2>2
    <2> QED
      BY <1>3, <2>1, <2>3, <2>4 DEF Cat
  <1>5. PathOf(h, p, lost, m, q) = a
    BY <1>3, ConcatEmptySeq DEF PathOf
  <1>6. Len(a) \in 0..Len(a \o b) /\ a = SubSeq(a \o b, 1, Len(a))
    OBVIOUS
  <1> QED
    BY <1>2, <1>4, <1>5, <1>6 DEF Begins

-----------------------------------------------------------------------------
(* The ways of a session.                                                  *)

\* A task that has failed has lost its connection.
FailedIsDown ==
    \A sd \in Sides :
        /\ sender[sd].failed \/ error[sd] \/ receiver[sd].failed => conn # "up"
        /\ receiver[sd].pc = "shutdown" => receiver[sd].failed

\* The parts of the way from a side.
LEMMA PathTypes ==
    ASSUME LinkTypes, NEW sd \in Sides
    PROVE  /\ Path(sd) = PathOf(receiver[Peer(sd)].msg, net[sd], conn,
                                sender[sd].msg, queue[sd])
           /\ receiver[Peer(sd)].msg \in Seq(Msgs(sd)) /\ net[sd] \in Seq(Msgs(sd))
           /\ sender[sd].msg \in Seq(Msgs(sd)) /\ queue[sd] \in Seq(Msgs(sd))
           /\ Path(sd) \in Seq(Msgs(sd))
  <1>1. Path(sd) = PathOf(receiver[Peer(sd)].msg, net[sd], conn,
                          sender[sd].msg, queue[sd])
    BY DEF Path, Held, PathOf
  <1>2. /\ net[sd] \in Seq(Msgs(sd))
        /\ sender[sd].msg \in Seq(Msgs(sd)) /\ queue[sd] \in Seq(Msgs(sd))
    BY DEF LinkTypes, Way, SenderState
  <1>3. receiver[Peer(sd)].msg \in Seq(StreamMsgs(sd))
    BY SideFacts DEF LinkTypes, Way, ReceiverState
  <1>4. receiver[Peer(sd)].msg \in Seq(Msgs(sd))
    <2>1. StreamMsgs(sd) \subseteq Msgs(sd)
      BY DEF Msgs
    <2> QED
      BY <1>3, <2>1, SeqMonotonic
  <1>7. Path(sd) \in Seq(Msgs(sd))
    <2>1. PathOf(receiver[Peer(sd)].msg, net[sd], conn, sender[sd].msg, queue[sd]) \in Seq(Msgs(sd))
      BY <1>2, <1>4, PathIsSeq
    <2> QED
      BY <1>1, <2>1
  <1> QED
    BY <1>1, <1>2, <1>4, <1>7

\* Where nothing that makes up the ways changes, they do not.
LEMMA PathSame ==
    ASSUME UNCHANGED <<net, conn, sender, receiver, queue>>
    PROVE  \A sd \in Sides : Path(sd)' = Path(sd)
  BY DEF Path, Held

\* A message that is put into the queue is the last on the way.
LEMMA PathEnqueue ==
    ASSUME LinkTypes, NEW sd \in Sides, NEW m \in Msgs(sd), Enqueue(sd, m)
    PROVE  /\ \A e \in Sides : e # sd => Path(e)' = Path(e)
           /\ conn = "up" => Appended(Path(sd)', Path(sd), m)
           /\ conn # "up" => Path(sd)' = Path(sd)
  <1>1. /\ UNCHANGED <<net, conn, sender, receiver>> /\ queue'[sd] = Append(queue[sd], m)
        /\ \A e \in Sides : e # sd => queue'[e] = queue[e]
    BY DEF Enqueue, LinkTypes
  <1>2. \A e \in Sides : e # sd => Path(e)' = Path(e)
    BY <1>1 DEF Path, Held
  <1>3. conn # "up" => Path(sd)' = Path(sd)
    BY <1>1 DEF Path, Held
  <1>4. ASSUME conn = "up" PROVE Appended(Path(sd)', Path(sd), m)
    <2>1. Path(sd)' = PathOf(receiver[Peer(sd)].msg, net[sd], "up", sender[sd].msg,
                             Append(queue[sd], m))
      BY <1>1, <1>4 DEF Path, Held, PathOf
    <2>2. Path(sd) = PathOf(receiver[Peer(sd)].msg, net[sd], "up", sender[sd].msg, queue[sd])
      BY <1>4 DEF Path, Held, PathOf
    <2>3. /\ receiver[Peer(sd)].msg \in Seq(Msgs(sd)) /\ net[sd] \in Seq(Msgs(sd))
          /\ queue[sd] \in Seq(Msgs(sd)) /\ sender[sd].msg \in Seq(Msgs(sd))
      BY PathTypes
    <2>4. Appended(PathOf(receiver[Peer(sd)].msg, net[sd], "up", sender[sd].msg,
                          Append(queue[sd], m)),
                   PathOf(receiver[Peer(sd)].msg, net[sd], "up", sender[sd].msg, queue[sd]), m)
      BY <2>3, PathMoves
    <2> QED
      BY <2>1, <2>2, <2>4
  <1> QED
    BY <1>2, <1>3, <1>4

\* A sender moves messages along, and adds Finished.
LEMMA PathSender ==
    ASSUME LinkTypes, FailedIsDown, (\E sd \in Sides : SenderStep(sd)) \/ SenderNotified,
           sender["server"].pc = "notified" => queue["server"] = <<>>,
           NEW e \in Sides
    PROVE  Path(e)' = Path(e) \/ Appended(Path(e)', Path(e), Finished)
  <1>0. UNCHANGED <<receiver, conn>>
    BY SenderFrames
  <1>a. Finished \in Msgs(e) /\ <<>> \in Seq(Msgs(e)) /\ \A m \in Msgs(e) : <<m>> \in Seq(Msgs(e))
    BY DEF Msgs, MainMsgs
  <1>b. /\ receiver[Peer(e)].msg \in Seq(Msgs(e)) /\ net[e] \in Seq(Msgs(e))
        /\ queue[e] \in Seq(Msgs(e)) /\ sender[e].msg \in Seq(Msgs(e))
    BY PathTypes
  <1>c. UNCHANGED <<net[e], queue[e], sender[e].msg>> => Path(e)' = Path(e)
    BY <1>0 DEF Path, Held
  <1>d. SUFFICES ASSUME conn = "up"
                 PROVE  Path(e)' = Path(e) \/ Appended(Path(e)', Path(e), Finished)
    <2>1. ASSUME conn # "up" PROVE Path(e)' = Path(e)
      <3>1. net' = net
        BY <2>1 DEF SenderStep, SenderTake, SenderWrite, SenderDrained, SenderNotified
      <3> QED
        BY <1>0, <2>1, <3>1 DEF Path, Held
    <2> QED
      BY <2>1
  <1>1. ASSUME NEW sd \in Sides, SenderTake(sd)
        PROVE  Path(e)' = Path(e)
    <2>1. CASE e # sd
      BY <1>1, <1>c, <2>1 DEF SenderTake, LinkTypes
    <2>2. CASE e = sd
      <3>1. ~sender[e].failed /\ sender[e].msg = <<>>
        BY <1>1, <1>d, <2>2, InHand DEF FailedIsDown, SenderTake
      <3>2. /\ queue[e] # <<>> /\ queue'[e] = Tail(queue[e]) /\ net'[e] = net[e]
            /\ sender'[e] = [sender[e] EXCEPT !.pc = "write", !.msg = <<Head(queue[e])>>]
        BY <1>1, <2>2, <3>1 DEF SenderTake, LinkTypes
      <3>3. sender'[e].msg = <<Head(queue[e])>>
        BY <3>2 DEF LinkTypes, Way, SenderState
      <3>4. Path(e)' = PathOf(receiver[Peer(e)].msg, net[e], "up", <<Head(queue[e])>>, Tail(queue[e]))
        BY <1>0, <1>d, <3>2, <3>3 DEF Path, Held, PathOf
      <3>5. Path(e) = PathOf(receiver[Peer(e)].msg, net[e], "up", <<>>, queue[e])
        BY <1>d, <3>1 DEF Path, Held, PathOf
      <3>6. Head(queue[e]) \in Msgs(e) /\ Tail(queue[e]) \in Seq(Msgs(e))
        BY <1>b, <3>2, TailFacts
      <3>7. Taken(queue[e], Head(queue[e]), Tail(queue[e]))
        BY <1>b, <3>2, HeadFirst
      <3> QED
        <4>1. PathOf(receiver[Peer(e)].msg, net[e], "up", <<Head(queue[e])>>, Tail(queue[e])) =
              PathOf(receiver[Peer(e)].msg, net[e], "up", <<>>, queue[e])
          <5> DEFINE x == Head(queue[e])
                     q == Tail(queue[e])
          <5>1. x \in Msgs(e) /\ q \in Seq(Msgs(e)) /\ Taken(queue[e], x, q)
            BY <3>6, <3>7
          <5> HIDE DEF x, q
          <5>2. PathOf(receiver[Peer(e)].msg, net[e], "up", <<x>>, q) =
                PathOf(receiver[Peer(e)].msg, net[e], "up", <<>>, queue[e])
            BY <1>b, <5>1, PathMoves
          <5> QED
            BY <5>2 DEF x, q
        <4> QED
          BY <3>4, <3>5, <4>1
    <2> QED
      BY <2>1, <2>2
  <1>2. ASSUME NEW sd \in Sides, SenderWrite(sd)
        PROVE  Path(e)' = Path(e)
    <2>1. CASE e # sd
      BY <1>2, <1>c, <2>1 DEF SenderWrite, LinkTypes
    <2>2. CASE e = sd
      <3>1. /\ sender[e].pc = "write" /\ queue'[e] = queue[e]
            /\ net'[e] = Append(net[e], sender[e].msg[1])
            /\ sender'[e] = Written(sender[e])
        BY <1>2, <1>d, <2>2 DEF SenderWrite, LinkTypes
      <3>2. sender[e].msg[1] \in Msgs(e) /\ sender[e].msg = <<sender[e].msg[1]>>
        BY <3>1, InHand
      <3>3. sender'[e].msg = <<>>
        BY <3>1 DEF Written, LinkTypes, Way, SenderState
      <3>4. Path(e)' = PathOf(receiver[Peer(e)].msg, Append(net[e], sender[e].msg[1]), "up", <<>>,
                              queue[e])
        BY <1>0, <1>d, <3>1, <3>3 DEF Path, Held, PathOf
      <3>5. Path(e) = PathOf(receiver[Peer(e)].msg, net[e], "up", <<sender[e].msg[1]>>, queue[e])
        BY <1>d, <3>2 DEF Path, Held, PathOf
      <3> QED
        BY <1>b, <3>2, <3>4, <3>5, PathMoves
    <2> QED
      BY <2>1, <2>2
  <1>3. ASSUME NEW sd \in Sides, SenderDrained(sd) \/ (sd = "server" /\ SenderNotified)
        PROVE  Path(e)' = Path(e) \/ Appended(Path(e)', Path(e), Finished)
    <2>1. CASE e # sd
      BY <1>3, <1>c, <2>1 DEF SenderDrained, SenderNotified, LinkTypes
    <2>2. CASE e = sd
      <3>1. /\ sender[e].pc \in {"recv", "notified"} /\ UNCHANGED <<net, queue>>
            /\ \/ sender'[e] = FinishWith(sender[e])
               \/ sender'[e] = [sender[e] EXCEPT !.pc = "notified"]
        BY <1>3, <2>2 DEF SenderDrained, SenderNotified, LinkTypes
      <3>2. sender[e].msg = <<>> /\ ~sender[e].failed
        BY <1>d, <3>1, InHand DEF FailedIsDown
      <3>3. CASE sender'[e] = [sender[e] EXCEPT !.pc = "notified"]
        BY <1>c, <3>1, <3>3 DEF LinkTypes, Way, SenderState
      <3>4. CASE sender'[e] = FinishWith(sender[e]) /\ queue[e] = <<>>
        <4>1. sender'[e].msg = <<Finished>>
          BY <3>2, <3>4 DEF FinishWith, LinkTypes, Way, SenderState
        <4>2. Path(e)' = PathOf(receiver[Peer(e)].msg, net[e], "up", <<Finished>>, <<>>)
          BY <1>0, <1>d, <3>1, <3>4, <4>1 DEF Path, Held, PathOf
        <4>3. Path(e) = PathOf(receiver[Peer(e)].msg, net[e], "up", <<>>, <<>>)
          BY <1>d, <3>2, <3>4 DEF Path, Held, PathOf
        <4> QED
          BY <1>a, <1>b, <4>2, <4>3, PathMoves
      <3>5. queue[e] = <<>>
        BY <1>3, <2>2 DEF SenderDrained, SenderNotified
      <3> QED
        BY <3>1, <3>3, <3>4, <3>5
    <2> QED
      BY <2>1, <2>2
  <1>4. "server" \in Sides
    BY DEF Sides
  <1> QED
    BY <1>1, <1>2, <1>3, <1>4 DEF SenderStep

\* A receiver that stops reading drops all that is on the way from its peer.
LEMMA PathDropped ==
    ASSUME LinkTypes, FailedIsDown, NEW sd \in Sides, ReceiverError(sd)
    PROVE  conn # "up" /\ Path(Peer(sd))' = <<>>
  <1>0. DOMAIN receiver = Sides /\ DOMAIN net = Sides /\ receiver[sd] \in ReceiverState(sd)
    BY DEF LinkTypes, Way
  <1>1. /\ receiver[sd].pc = "recv" /\ net'[Peer(sd)] = <<>> /\ conn # "up" /\ conn' = conn
        /\ Peer(Peer(sd)) = sd
    BY <1>0, SideFacts DEF ReceiverError, FailedIsDown
  <1>2. receiver'[sd].msg = <<>>
    <2>1. receiver[sd].msg = <<>>
      BY <1>1, InHand
    <2>2. \E todo : receiver' = [receiver EXCEPT ![sd].pc = "shutdown", ![sd].failed = TRUE,
                                                 ![sd].todo = todo]
      BY DEF ReceiverError
    <2> QED
      BY <1>0, <2>1, <2>2 DEF ReceiverState
  <1>3. Path(Peer(sd))' = <<>> \o <<>> \o <<>>
    BY <1>1, <1>2 DEF Path, Held
  <1> QED
    BY <1>1, <1>3, ConcatEmptySeq

\* A receiver takes the first message off the way from its peer; a message of a
\* stream stays on it until it has been routed.
LEMMA PathReceiver ==
    ASSUME LinkTypes, FailedIsDown, NEW sd \in Sides, ReceiverStep(sd)
    PROVE  /\ Path(sd)' = Path(sd)
           /\ \/ /\ ~ReceiverRoute(sd)
                 /\ Path(Peer(sd))' = Path(Peer(sd))
              \/ /\ ReceiverRoute(sd)
                 /\ receiver[sd].msg[1] \in StreamMsgs(Peer(sd))
                 /\ Taken(Path(Peer(sd)), receiver[sd].msg[1], Path(Peer(sd))')
              \/ /\ ReceiverRecv(sd)
                 /\ Head(net[Peer(sd)]) \in MainMsgs(Peer(sd))
                 /\ Taken(Path(Peer(sd)), Head(net[Peer(sd)]), Path(Peer(sd))')
              \/ /\ ReceiverError(sd)
                 /\ Path(Peer(sd))' = <<>>
  <1> DEFINE p == Peer(sd)
             s == Msgs(p)
             m == sender[p].msg
             q == queue[p]
             n == net[p]
  <1>1. p \in Sides /\ p # sd /\ Peer(p) = sd
    BY SideFacts
  <1>2. UNCHANGED <<queue, conn, sender>>
    BY ReceiverFrames
  <1>3. m \in Seq(s) /\ q \in Seq(s) /\ n \in Seq(s)
    BY <1>1, PathTypes
  <1>4. Path(p) = PathOf(receiver[sd].msg, n, conn, m, q)
    BY <1>1, PathTypes
  <1>5. Path(p)' = PathOf(receiver'[sd].msg, net'[p], conn, m, q)
    BY <1>1, <1>2 DEF Path, Held, PathOf
  <1>6. DOMAIN receiver = Sides /\ DOMAIN net = Sides /\ receiver[sd] \in ReceiverState(sd)
    BY DEF LinkTypes, Way
  <1>7. receiver'[p] = receiver[p] /\ net'[sd] = net[sd]
    <2>1. CASE ReceiverRecv(sd)
      BY <1>1, <1>6, <2>1 DEF ReceiverRecv
    <2>2. CASE ReceiverRoute(sd)
      BY <1>1, <1>6, <2>2 DEF ReceiverRoute
    <2>3. CASE ReceiverError(sd)
      BY <1>1, <1>6, <2>3 DEF ReceiverError
    <2>4. CASE ReceiverShutdown(sd) \/ ReceiverShutdownEnd(sd)
      BY <1>1, <1>6, <2>4 DEF ReceiverShutdown, ReceiverShutdownEnd
    <2> QED
      BY <2>1, <2>2, <2>3, <2>4 DEF ReceiverStep
  <1>8. Path(sd)' = Path(sd)
    BY <1>1, <1>2, <1>7 DEF Path, Held
  <1> HIDE DEF m, q, s
  <1>9. CASE ReceiverRecv(sd)
    <2> DEFINE x == Head(n)
               t == Tail(n)
    <2>1. /\ n # <<>> /\ receiver[sd].pc = "recv"
          /\ net' = [net EXCEPT ![p] = t]
      BY <1>9 DEF ReceiverRecv
    <2>2. x \in s /\ t \in Seq(s) /\ Taken(n, x, t)
      BY <1>3, <2>1, TailFacts, HeadFirst
    <2>3. net'[p] = t
      BY <1>1, <1>6, <2>1
    <2>4. receiver[sd].msg = <<>>
      BY <2>1, InHand
    <2>5. \/ x.id \in Streams /\ receiver' = [receiver EXCEPT ![sd].pc = "route", ![sd].msg = <<x>>]
          \/ x.act \in {"Exit", "WindowSizeChange", "Finished"}
             /\ \/ receiver' = receiver
                \/ \E pc \in {"failed", "done"} : receiver' = [receiver EXCEPT ![sd].pc = pc]
             /\ x.id \notin Streams
      <3>1. /\ x.act \in {"Exit", "WindowSizeChange", "Finished"} => x.id \notin Streams
        BY <1>1, <2>2, MainMsgFacts DEF s
      <3>2. \/ x.id \in Streams /\ receiver' = [receiver EXCEPT ![sd].pc = "route", ![sd].msg = <<x>>]
            \/ x.act = "Exit" /\ (receiver' = receiver \/ receiver' = [receiver EXCEPT ![sd].pc = "failed"])
            \/ x.act = "WindowSizeChange" /\ receiver' = receiver
            \/ x.act = "Finished" /\ receiver' = [receiver EXCEPT ![sd].pc = "done"]
        BY <1>9 DEF ReceiverRecv
      <3> QED
        BY <3>1, <3>2
    <2> HIDE DEF x, t
    <2>6. CASE x.id \in Streams /\ receiver' = [receiver EXCEPT ![sd].pc = "route", ![sd].msg = <<x>>]
      <3>1. receiver'[sd].msg = <<x>>
        BY <1>6, <2>6 DEF ReceiverState
      <3>2. Path(p)' = PathOf(<<x>>, t, conn, m, q)
        BY <1>5, <2>3, <3>1
      <3>3. Path(p) = PathOf(<<>>, n, conn, m, q)
        BY <1>4, <2>4
      <3>4. Path(p)' = Path(p)
        BY <1>3, <2>2, <3>2, <3>3, PathArrives
      <3>5. ~ReceiverRoute(sd)
        BY <2>1 DEF ReceiverRoute
      <3> QED
        BY <1>8, <3>4, <3>5
    <2>7. CASE /\ x.act \in {"Exit", "WindowSizeChange", "Finished"} /\ x.id \notin Streams
               /\ \/ receiver' = receiver
                  \/ \E pc \in {"failed", "done"} : receiver' = [receiver EXCEPT ![sd].pc = pc]
      <3>1. receiver'[sd].msg = <<>>
        BY <1>6, <2>4, <2>7 DEF ReceiverState
      <3>2. Path(p)' = PathOf(<<>>, t, conn, m, q)
        BY <1>5, <2>3, <3>1
      <3>3. Path(p) = PathOf(<<>>, n, conn, m, q)
        BY <1>4, <2>4
      <3>4. PathOf(<<x>>, t, conn, m, q) = PathOf(<<>>, n, conn, m, q)
        BY <1>3, <2>2, PathArrives
      <3>5. Taken(PathOf(<<x>>, t, conn, m, q), x, PathOf(<<>>, t, conn, m, q))
        BY <1>3, <2>2, PathArrives
      <3>6. Taken(Path(p), x, Path(p)')
        BY <3>2, <3>3, <3>4, <3>5
      <3>7. x \in MainMsgs(p)
        BY <1>1, <2>2, <2>7, MainMsgFacts DEF s, Msgs
      <3> QED
        BY <1>8, <1>9, <3>6, <3>7 DEF x
    <2> QED
      BY <2>5, <2>6, <2>7
  <1>10. CASE ReceiverRoute(sd)
    <2> DEFINE x == receiver[sd].msg[1]
    <2>1. /\ receiver[sd].pc = "route" /\ net' = net
          /\ \/ receiver' = [receiver EXCEPT ![sd].pc = "recv", ![sd].msg = <<>>]
             \/ receiver' = [[receiver EXCEPT ![sd].pc = "recv", ![sd].msg = <<>>]
                               EXCEPT ![sd].pc = "failed"]
      BY <1>10 DEF ReceiverRoute
    <2>2. x \in StreamMsgs(p) /\ receiver[sd].msg = <<x>>
      BY <2>1, InHand
    <2>3. x \in s
      BY <2>2 DEF s, Msgs
    <2> HIDE DEF x
    <2>4. receiver'[sd].msg = <<>>
      BY <1>6, <2>1 DEF ReceiverState
    <2>5. Path(p)' = PathOf(<<>>, n, conn, m, q)
      BY <1>5, <2>1, <2>4
    <2>6. Path(p) = PathOf(<<x>>, n, conn, m, q)
      BY <1>4, <2>2
    <2>7. Taken(PathOf(<<x>>, n, conn, m, q), x, PathOf(<<>>, n, conn, m, q))
      BY <1>3, <2>3, PathArrives
    <2> QED
      BY <1>8, <1>10, <2>2, <2>5, <2>6, <2>7 DEF x
  <1>11. CASE ReceiverError(sd)
    BY <1>8, <1>11, PathDropped
  <1>12. CASE ReceiverShutdown(sd) \/ ReceiverShutdownEnd(sd)
    <2>1. /\ net' = net /\ receiver[sd].pc # "route"
          /\ \/ receiver' = [receiver EXCEPT ![sd].todo = Tail(@)]
             \/ receiver' = [receiver EXCEPT ![sd].pc = "done"]
      BY <1>12 DEF ReceiverShutdown, ReceiverShutdownEnd
    <2>2. receiver'[sd].msg = receiver[sd].msg
      BY <1>6, <2>1 DEF ReceiverState
    <2>3. Path(p)' = Path(p)
      BY <1>4, <1>5, <2>1, <2>2
    <2>4. ~ReceiverRoute(sd)
      BY <2>1 DEF ReceiverRoute
    <2> QED
      BY <1>8, <2>3, <2>4
  <1> QED
    BY <1>9, <1>10, <1>11, <1>12 DEF ReceiverStep

\* What is lost with the connection is at the end of the way.
LEMMA PathPrefix ==
    ASSUME LinkTypes, ClientStep \/ ConnectionLost, NEW e \in Sides
    PROVE  \E i \in 0..Len(Path(e)) : Path(e)' = SubSeq(Path(e), 1, i)
  <1>1. UNCHANGED <<queue, sender, receiver>>
    BY ClientFrames
  <1>2. CASE UNCHANGED <<conn, net>>
    <2>1. Path(e)' = Path(e)
      BY <1>1, <1>2 DEF Path, Held
    <2>2. PICK p \in Seq(Msgs(e)) : p = Path(e)
      BY PathTypes
    <2>3. Len(p) \in 0..Len(p) /\ p = SubSeq(p, 1, Len(p))
      OBVIOUS
    <2> QED
      BY <2>1, <2>2, <2>3
  <1>3. CASE conn' # "up" /\ Disconnect(conn')
    <2>1. \E k \in 0..Len(net[e]) : net'[e] = SubSeq(net[e], 1, k)
      BY <1>3 DEF Disconnect, Sides
    <2>2. PICK k \in 0..Len(net[e]) : net'[e] = SubSeq(net[e], 1, k)
      BY <2>1
    <2> DEFINE h == receiver[Peer(e)].msg
               m == sender[e].msg
               q == queue[e]
               n == net[e]
    <2>3. h \in Seq(Msgs(e)) /\ m \in Seq(Msgs(e)) /\ q \in Seq(Msgs(e)) /\ n \in Seq(Msgs(e))
      BY PathTypes
    <2>4. Path(e) = PathOf(h, n, conn, m, q)
      BY PathTypes
    <2>5. Path(e)' = PathOf(h, SubSeq(n, 1, k), conn', m, q)
      BY <1>1, <2>2 DEF Path, Held, PathOf
    <2> HIDE DEF h, m, q, n
    <2>6. k \in 0..Len(n)
      BY DEF n
    <2>7. PICK lost : lost = conn' /\ lost # "up"
      BY <1>3
    <2>8. Begins(PathOf(h, SubSeq(n, 1, k), lost, m, q), PathOf(h, n, conn, m, q))
      BY <2>3, <2>6, <2>7, PathCut
    <2> QED
      BY <2>4, <2>5, <2>7, <2>8 DEF Begins
  <1> QED
    BY <1>2, <1>3, ClientFrames

\* So what arrives arrives in order.
LEMMA PathLost ==
    ASSUME LinkTypes, ClientStep \/ ConnectionLost, NEW e \in Sides, NEW C, NEW D
    PROVE  /\ Has(Path(e)', C) => Has(Path(e), C)
           /\ NoneAfter(Path(e), C, D) => NoneAfter(Path(e)', C, D)
  <1>1. PICK p \in Seq(Msgs(e)) : p = Path(e)
    BY PathTypes
  <1>2. PICK i \in 0..Len(p) : Path(e)' = SubSeq(p, 1, i)
    BY <1>1, PathPrefix
  <1> QED
    BY <1>1, <1>2, PrefixOrder

-----------------------------------------------------------------------------
(* What is over stays over.                                                *)

\* What a sender's task is after a message, and at the end of its queue.
LEMMA SenderStates ==
    ASSUME LinkTypes, NEW sd \in Sides
    PROVE  /\ Written(sender[sd]).failed = sender[sd].failed /\ Written(sender[sd]).msg = <<>>
           /\ Written(sender[sd]).pc = IF sender[sd].msg[1].act = "Finished" THEN "done" ELSE "recv"
           /\ [Written(sender[sd]) EXCEPT !.failed = TRUE].pc = Written(sender[sd]).pc
           /\ [Written(sender[sd]) EXCEPT !.failed = TRUE].msg = <<>>
           /\ FinishWith(sender[sd]).failed = sender[sd].failed
           /\ sender[sd].failed =>
                /\ FinishWith(sender[sd]).pc = "done"
                /\ FinishWith(sender[sd]).msg = sender[sd].msg
           /\ ~sender[sd].failed =>
                /\ FinishWith(sender[sd]).pc = "write"
                /\ FinishWith(sender[sd]).msg = <<Finished>>
  <1>1. sender[sd] \in SenderState(sd)
    BY DEF LinkTypes, Way
  <1> DEFINE p == IF sender[sd].msg[1].act = "Finished" THEN "done" ELSE "recv"
             w == Written(sender[sd])
  <1>2. w = [sender[sd] EXCEPT !.pc = p, !.msg = <<>>]
    BY DEF Written
  <1> HIDE DEF p, w
  <1>3. w = [pc |-> p, msg |-> <<>>, failed |-> sender[sd].failed]
    BY <1>1, <1>2 DEF SenderState
  <1>4. /\ w.failed = sender[sd].failed /\ w.msg = <<>> /\ w.pc = p
        /\ [w EXCEPT !.failed = TRUE].pc = p /\ [w EXCEPT !.failed = TRUE].msg = <<>>
    BY <1>3
  <1>5. CASE sender[sd].failed
    BY <1>1, <1>4, <1>5 DEF FinishWith, SenderState, p, w
  <1>6. CASE ~sender[sd].failed
    BY <1>1, <1>4, <1>6 DEF FinishWith, SenderState, p, w
  <1> QED
    BY <1>5, <1>6

\* The receiver of one side does not touch that of the other.
LEMMA ReceiverAlone ==
    ASSUME LinkTypes, NEW sd \in Sides, ReceiverStep(sd)
    PROVE  \A e \in Sides : e # sd => receiver'[e] = receiver[e] /\ net'[Peer(e)] = net[Peer(e)]
  <1> SUFFICES ASSUME NEW e \in Sides, e # sd
               PROVE  receiver'[e] = receiver[e] /\ net'[Peer(e)] = net[Peer(e)]
    OBVIOUS
  <1>1. DOMAIN receiver = Sides /\ DOMAIN net = Sides /\ Peer(e) # Peer(sd) /\ Peer(e) \in Sides
    BY SideFacts DEF LinkTypes
  <1>2. CASE ReceiverRecv(sd)
    BY <1>1, <1>2 DEF ReceiverRecv
  <1>3. CASE ReceiverRoute(sd)
    BY <1>1, <1>3 DEF ReceiverRoute
  <1>4. CASE ReceiverError(sd)
    BY <1>1, <1>4 DEF ReceiverError
  <1>5. CASE ReceiverShutdown(sd) \/ ReceiverShutdownEnd(sd)
    BY <1>1, <1>5 DEF ReceiverShutdown, ReceiverShutdownEnd
  <1> QED
    BY <1>2, <1>3, <1>4, <1>5 DEF ReceiverStep

\* What a receiver's task becomes.
LEMMA ReceiverStates ==
    ASSUME LinkTypes, NEW sd \in Sides
    PROVE  /\ ReceiverRecv(sd) =>
                /\ receiver'[sd].failed = receiver[sd].failed
                /\ receiver[sd].pc = "recv" /\ receiver'[sd].pc \in {"route", "recv", "failed", "done"}
           /\ ReceiverRoute(sd) =>
                /\ receiver'[sd].failed = receiver[sd].failed
                /\ receiver[sd].pc = "route" /\ receiver'[sd].pc \in {"recv", "failed"}
           /\ ReceiverError(sd) =>
                receiver[sd].pc = "recv" /\ receiver'[sd].failed /\ receiver'[sd].pc = "shutdown"
           /\ ReceiverShutdown(sd) =>
                /\ receiver'[sd].failed = receiver[sd].failed
                /\ receiver[sd].pc = "shutdown" /\ receiver'[sd].pc = "shutdown"
           /\ ReceiverShutdownEnd(sd) =>
                /\ receiver'[sd].failed = receiver[sd].failed
                /\ receiver[sd].pc = "shutdown" /\ receiver'[sd].pc = "done"
  <1>0. DOMAIN receiver = Sides /\ receiver[sd] \in ReceiverState(sd)
    BY DEF LinkTypes, Way
  <1>1. ASSUME ReceiverRecv(sd)
        PROVE  /\ receiver'[sd].failed = receiver[sd].failed
               /\ receiver[sd].pc = "recv"
               /\ receiver'[sd].pc \in {"route", "recv", "failed", "done"}
    BY <1>0, <1>1 DEF ReceiverRecv, ReceiverState
  <1>2. ASSUME ReceiverRoute(sd)
        PROVE  /\ receiver'[sd].failed = receiver[sd].failed
               /\ receiver[sd].pc = "route" /\ receiver'[sd].pc \in {"recv", "failed"}
    <2>1. \/ receiver' = [receiver EXCEPT ![sd].pc = "recv", ![sd].msg = <<>>]
          \/ receiver' = [[receiver EXCEPT ![sd].pc = "recv", ![sd].msg = <<>>]
                            EXCEPT ![sd].pc = "failed"]
      BY <1>2 DEF ReceiverRoute
    <2>2. receiver'[sd].failed = receiver[sd].failed /\ receiver'[sd].pc \in {"recv", "failed"}
      BY <1>0, <2>1 DEF ReceiverState
    <2> QED
      BY <1>2, <2>2 DEF ReceiverRoute
  <1>3. ASSUME ReceiverError(sd)
        PROVE  receiver[sd].pc = "recv" /\ receiver'[sd].failed /\ receiver'[sd].pc = "shutdown"
    <2>1. \E todo : receiver' = [receiver EXCEPT ![sd].pc = "shutdown", ![sd].failed = TRUE,
                                                 ![sd].todo = todo]
      BY <1>3 DEF ReceiverError
    <2> QED
      BY <1>0, <1>3, <2>1 DEF ReceiverState, ReceiverError
  <1>4. ASSUME ReceiverShutdown(sd)
        PROVE  /\ receiver'[sd].failed = receiver[sd].failed
               /\ receiver[sd].pc = "shutdown" /\ receiver'[sd].pc = "shutdown"
    BY <1>0, <1>4 DEF ReceiverShutdown, ReceiverState
  <1>5. ASSUME ReceiverShutdownEnd(sd)
        PROVE  /\ receiver'[sd].failed = receiver[sd].failed
               /\ receiver[sd].pc = "shutdown" /\ receiver'[sd].pc = "done"
    BY <1>0, <1>5 DEF ReceiverShutdownEnd, ReceiverState
  <1> QED
    BY <1>1, <1>2, <1>3, <1>4, <1>5

\* A task that has ended takes no step, and a connection that is lost stays lost.
LEMMA EndsStay ==
    ASSUME TaskTypes, LinkTypes, MainTypes, [Next]_vars
    PROVE  /\ \A s \in Streams : /\ SourceEnded(src[s]) => src'[s] = src[s]
                                 /\ SinkEnded(snk[s]) => snk'[s] = snk[s]
           /\ \A sd \in Sides : /\ sender[sd].pc = "done" => sender'[sd] = sender[sd]
                                /\ ReceiverEnded(sd) => receiver'[sd] = receiver[sd]
           /\ winch.pc = "done" => winch' = winch
           /\ serve.pc \notin {"wait", "sinkclosed", "exit"} =>
                serve'.pc \notin {"wait", "sinkclosed", "exit"}
           /\ conn # "up" => conn' # "up"
  <1>0. UNCHANGED vars => /\ UNCHANGED <<src, snk, sender, receiver, winch, serve, conn>>
    BY DEF vars, streamVars, linkVars, serverVars, windowVars
  <1>1. ASSUME NEW s \in Streams
        PROVE  /\ SourceEnded(src[s]) => src'[s] = src[s]
               /\ SinkEnded(snk[s]) => snk'[s] = snk[s]
    <2>1. ASSUME UNCHANGED <<src, snk>>
          PROVE  src'[s] = src[s] /\ snk'[s] = snk[s]
      BY <2>1
    <2>2. ASSUME NEW t \in Streams, SourceIn(t) \/ SourceStep(t)
          PROVE  snk' = snk /\ (SourceEnded(src[s]) => src'[s] = src[s])
      <3>1. snk' = snk
        BY <2>2 DEF SourceIn, SourceStep, ReadPacket, EndOfInput, SourceSend, SourceTake
      <3>2. ~SourceEnded(src[t])
        BY <2>2 DEF SourceIn, SourceStep, ReadPacket, EndOfInput, SourceSend, SourceTake,
                    SourceEnded, SourceSending, SourceListening
      <3>3. \E x : src' = [src EXCEPT ![t] = x]
        BY <2>2 DEF SourceIn, SourceStep, ReadPacket, EndOfInput, SourceSend, SourceTake
      <3>4. s # t => src'[s] = src[s]
        BY <3>3 DEF TaskTypes
      <3> QED
        BY <3>1, <3>2, <3>4
    <2>3. ASSUME NEW t \in Streams, SinkStep(t) \/ SinkWrite(t)
          PROVE  src' = src /\ (SinkEnded(snk[s]) => snk'[s] = snk[s])
      <3>1. src' = src
        BY <2>3 DEF SinkStep, SinkTake, SinkSend, SinkFinish, SinkWrite
      <3>2. ~SinkEnded(snk[t])
        BY <2>3 DEF SinkStep, SinkTake, SinkSend, SinkFinish, SinkWrite, SinkEnded, SinkSending
      <3>3. \E x : snk' = [snk EXCEPT ![t] = x]
        BY <2>3 DEF SinkStep, SinkTake, SinkSend, SinkFinish, SinkWrite
      <3>4. s # t => snk'[s] = snk[s]
        BY <3>3 DEF TaskTypes
      <3> QED
        BY <3>1, <3>2, <3>4
    <2>4. UNCHANGED streamVars => UNCHANGED <<src, snk>>
      BY DEF streamVars
    <2> QED
      BY <1>0, <2>1, <2>2, <2>3, <2>4, WindowFrames, SenderFrames, ReceiverFrames, ServerFrames,
         ClientFrames DEF Next, Terminated
  <1>2. ASSUME NEW sd \in Sides
        PROVE  /\ sender[sd].pc = "done" => sender'[sd] = sender[sd]
               /\ ReceiverEnded(sd) => receiver'[sd] = receiver[sd]
    <2>1. ASSUME NEW e \in Sides, SenderStep(e), sender[sd].pc = "done"
          PROVE  sender'[sd] = sender[sd]
      BY <2>1 DEF SenderStep, SenderTake, SenderWrite, SenderDrained, LinkTypes
    <2>2. ASSUME SenderNotified, sender[sd].pc = "done"
          PROVE  sender'[sd] = sender[sd]
      BY <2>2 DEF SenderNotified, LinkTypes
    <2>3. ASSUME NEW e \in Sides, ReceiverStep(e), ReceiverEnded(sd)
          PROVE  receiver'[sd] = receiver[sd]
      <3>1. ~ReceiverEnded(e)
        BY <2>3, ReceiverStates DEF ReceiverStep, ReceiverEnded
      <3> QED
        BY <2>3, <3>1, ReceiverAlone
    <2> QED
      BY <1>0, <2>1, <2>2, <2>3, TaskFrames, WindowFrames, SenderFrames, ReceiverFrames,
         ServerFrames, ClientFrames DEF Next, Terminated
  <1>3. winch.pc = "done" => winch' = winch
    <2>1. Resize \/ WindowStep => (winch.pc = "done" => winch' = winch)
      BY DEF Resize, WindowStep, WindowSignal, WindowSend, WindowEnd
    <2>2. UNCHANGED windowVars => winch' = winch
      BY DEF windowVars
    <2> QED
      BY <1>0, <2>1, <2>2, TaskFrames, SenderFrames, ReceiverFrames, ServerFrames, ClientFrames
         DEF Next, Terminated
  <1>4. serve.pc \notin {"wait", "sinkclosed", "exit"} =>
          serve'.pc \notin {"wait", "sinkclosed", "exit"}
    <2>1. ChildExit \/ ServeStep =>
            \/ serve' = serve \/ serve.pc \in {"wait", "sinkclosed", "exit"}
            \/ \E p \in {"ok", "err"} : serve' = [serve EXCEPT !.pc = p]
      BY DEF ChildExit, ServeStep, ServeWait, ServeKill, ServeSinkClosed, ServeExit, ServeJoin
    <2>2. \A p \in {"ok", "err"} :
            serve' = [serve EXCEPT !.pc = p] => serve'.pc \notin {"wait", "sinkclosed", "exit"}
      BY DEF MainTypes
    <2>3. UNCHANGED serverVars => serve' = serve
      BY DEF serverVars
    <2>4. serve' = serve \/ ChildExit \/ ServeStep
      BY <1>0, <2>3, TaskFrames, WindowFrames, SenderFrames, ReceiverFrames, ClientFrames
         DEF Next, Terminated
    <2> QED
      BY <2>1, <2>2, <2>4
  <1>5. conn # "up" => conn' # "up"
    BY <1>0, TaskFrames, WindowFrames, SenderFrames, ReceiverFrames, ServerFrames, ClientFrames
       DEF Next, Terminated
  <1> QED
    BY <1>1, <1>2, <1>3, <1>4, <1>5

\* Every failure has the loss of the connection as its cause.
LEMMA FailedNext == LinkTypes /\ MainTypes /\ TaskTypes /\ FailedIsDown /\ [Next]_vars => FailedIsDown'
  <1> SUFFICES ASSUME LinkTypes, MainTypes, TaskTypes, FailedIsDown, [Next]_vars, NEW sd \in Sides
               PROVE  /\ sender'[sd].failed \/ error'[sd] \/ receiver'[sd].failed => conn' # "up"
                      /\ receiver'[sd].pc = "shutdown" => receiver'[sd].failed
    BY DEF FailedIsDown
  <1>0. conn # "up" => conn' # "up"
    BY EndsStay
  <1>1. CASE UNCHANGED <<sender, error, receiver>>
    BY <1>0, <1>1 DEF FailedIsDown
  <1>2. CASE (\E e \in Sides : SenderStep(e)) \/ SenderNotified
    <2>1. UNCHANGED <<receiver, conn>>
      BY <1>2, SenderFrames
    <2>2. ASSUME conn = "up" PROVE error' = error /\ sender'[sd].failed = sender[sd].failed
      <3>1. sender[sd] \in SenderState(sd)
        BY DEF LinkTypes, Way
      <3>2. ASSUME NEW e \in Sides, SenderTake(e)
            PROVE  error' = error /\ sender'[sd].failed = sender[sd].failed
        BY <3>1, <3>2 DEF SenderTake, LinkTypes, SenderState
      <3>3. ASSUME NEW e \in Sides, SenderWrite(e)
            PROVE  error' = error /\ sender'[sd].failed = sender[sd].failed
        <4>1. error' = error /\ sender' = [sender EXCEPT ![e] = Written(@)]
          BY <2>2, <3>3 DEF SenderWrite
        <4> QED
          BY <3>3, <4>1, SenderStates DEF LinkTypes
      <3>4. ASSUME NEW e \in Sides, SenderDrained(e) \/ (e = "server" /\ SenderNotified)
            PROVE  error' = error /\ sender'[sd].failed = sender[sd].failed
        <4>1. /\ error' = error
              /\ \/ sender' = [sender EXCEPT ![e] = FinishWith(@)]
                 \/ sender' = [sender EXCEPT ![e] = [@ EXCEPT !.pc = "notified"]]
          BY <3>4 DEF SenderDrained, SenderNotified
        <4>2. [sender[e] EXCEPT !.pc = "notified"].failed = sender[e].failed
          BY DEF LinkTypes, Way, SenderState
        <4> QED
          BY <3>4, <4>1, <4>2, SenderStates DEF LinkTypes
      <3>5. "server" \in Sides
        BY DEF Sides
      <3> QED
        BY <1>2, <3>2, <3>3, <3>4, <3>5 DEF SenderStep
    <2> QED
      BY <2>1, <2>2 DEF FailedIsDown
  <1>3. ASSUME NEW e \in Sides, ReceiverStep(e)
        PROVE  /\ sender'[sd].failed \/ error'[sd] \/ receiver'[sd].failed => conn' # "up"
               /\ receiver'[sd].pc = "shutdown" => receiver'[sd].failed
    <2>1. UNCHANGED <<sender, conn>>
      BY <1>3, ReceiverFrames
    <2>2. receiver[sd] \in ReceiverState(sd) /\ DOMAIN receiver = Sides
      BY DEF LinkTypes, Way
    <2>3. error[sd] \in BOOLEAN /\ (error'[sd] => error[sd])
      BY <1>3 DEF MainTypes, ReceiverStep, ReceiverRecv, ReceiverRoute, ReceiverError,
                  ReceiverShutdown, ReceiverShutdownEnd
    <2>4. CASE sd # e
      <3>1. receiver'[sd] = receiver[sd]
        BY <1>3, <2>4, ReceiverAlone
      <3> QED
        BY <2>1, <2>3, <3>1 DEF FailedIsDown
    <2>5. CASE sd = e
      <3>1. ReceiverError(e) => conn # "up"
        BY <2>5 DEF ReceiverError, FailedIsDown
      <3> QED
        BY <1>3, <2>1, <2>3, <2>5, <3>1, ReceiverStates DEF FailedIsDown, ReceiverStep
    <2> QED
      BY <2>4, <2>5
  <1>4. UNCHANGED vars => UNCHANGED <<sender, error, receiver>>
    BY DEF vars, linkVars
  <1> QED
    BY <1>1, <1>2, <1>3, <1>4, TaskFrames, WindowFrames, ServerFrames, ClientFrames
       DEF Next, Terminated

-----------------------------------------------------------------------------
(* The end of a session.                                                   *)

\* Finished is the last of the messages.
FinishedLast(q) == \A i \in 1..Len(q) : q[i] = Finished => i = Len(q)

\* The sender of a side has nothing left to send but Finished.
Drained(sd) == sender[sd].pc \in {"notified", "done"} \/ sender[sd].msg = <<Finished>>

\* The receiver of a side has had its peer's Finished.
Informed(sd) == receiver[sd].pc = "done" /\ ~receiver[sd].failed

\* Where there is no source, none sends.
NoSource == \A s \in Streams : HasSource(s) \/ SourceEnded(src[s])

\* What Finished says, wherever it is, is true: the queue behind it is closed, and
\* it is the last message.  The server only says it once its receiver is done.
FinishOrder ==
    /\ \A sd \in Sides :
         /\ Drained(sd) => TxDropped(sd) /\ queue[sd] = <<>>
         /\ ~Has(queue[sd], {Finished})
         /\ FinishedLast(net[sd])
         /\ Has(net[sd], {Finished}) => sender[sd].pc = "done"
         /\ Informed(sd) => sender[Peer(sd)].pc = "done" /\ net[Peer(sd)] = <<>>
    /\ notify \/ sender["server"].pc = "done" \/ sender["server"].msg = <<Finished>> =>
         receiver["server"].pc = "done"
    /\ Has(net["server"], {Finished}) \/ Informed("client") => Informed("server")

\* What keeps Finished the last message.
LEMMA LastFacts ==
    ASSUME NEW S, NEW q \in Seq(S)
    PROVE  /\ q # <<>> => /\ \A C : Has(Tail(q), C) => Has(q, C)
                          /\ \A C : Head(q) \in C => Has(q, C)
                          /\ FinishedLast(q) => FinishedLast(Tail(q))
                          /\ FinishedLast(q) /\ Head(q) = Finished => Tail(q) = <<>>
           /\ \A k \in 0..Len(q) : /\ \A C : Has(SubSeq(q, 1, k), C) => Has(q, C)
                                   /\ FinishedLast(q) => FinishedLast(SubSeq(q, 1, k))
           /\ \A x \in S : /\ ~Has(q, {Finished}) => FinishedLast(Append(q, x))
                           /\ \A C : Has(Append(q, x), C) <=> Has(q, C) \/ x \in C
  <1>1. ASSUME q # <<>>
        PROVE  /\ \A C : Has(Tail(q), C) => Has(q, C)
               /\ \A C : Head(q) \in C => Has(q, C)
               /\ FinishedLast(q) => FinishedLast(Tail(q))
               /\ FinishedLast(q) /\ Head(q) = Finished => Tail(q) = <<>>
    <2> DEFINE t == Tail(q)
    <2>1. /\ Head(q) = q[1] /\ Len(q) \in Nat /\ Len(t) \in Nat /\ Len(q) = Len(t) + 1
          /\ \A i \in 1..Len(t) : t[i] = q[i + 1]
          /\ t \in Seq(S)
      BY <1>1, TailFacts
    <2> HIDE DEF t
    <2>7. Len(t) = 0 => t = <<>>
      BY <2>1, EmptySeq
    <2>2. /\ \A i \in 1..Len(t) : i + 1 \in 1..Len(q) /\ (i + 1 = Len(q) => i = Len(t))
          /\ 1 \in 1..Len(q) /\ (Len(q) = 1 => Len(t) = 0)
      BY <2>1
    <2>3. \A C : Has(t, C) => Has(q, C)
      BY <2>1, <2>2 DEF Has
    <2>4. \A C : Head(q) \in C => Has(q, C)
      BY <2>1, <2>2 DEF Has
    <2>5. FinishedLast(q) => FinishedLast(t)
      BY <2>1, <2>2 DEF FinishedLast
    <2>6. FinishedLast(q) /\ Head(q) = Finished => t = <<>>
      BY <2>1, <2>2, <2>7 DEF FinishedLast
    <2> QED
      BY <2>3, <2>4, <2>5, <2>6 DEF t
  <1>2. ASSUME NEW k \in 0..Len(q)
        PROVE  /\ \A C : Has(SubSeq(q, 1, k), C) => Has(q, C)
               /\ FinishedLast(q) => FinishedLast(SubSeq(q, 1, k))
    <2> DEFINE p == SubSeq(q, 1, k)
    <2>1. /\ Len(p) = k /\ \A i \in 1..k : p[i] = q[i]
          /\ Len(q) \in Nat /\ \A i \in 1..k : i \in 1..Len(q) /\ (i = Len(q) => i = k)
      BY PrefixFacts
    <2> HIDE DEF p
    <2>2. /\ \A C : Has(p, C) => Has(q, C)
          /\ FinishedLast(q) => FinishedLast(p)
      BY <2>1 DEF Has, FinishedLast
    <2> QED
      BY <2>2 DEF p
  <1>3. ASSUME NEW x \in S
        PROVE  /\ ~Has(q, {Finished}) => FinishedLast(Append(q, x))
               /\ \A C : Has(Append(q, x), C) <=> Has(q, C) \/ x \in C
    <2> DEFINE p == Append(q, x)
    <2>1. /\ Len(q) \in Nat /\ Len(p) = Len(q) + 1
          /\ \A i \in 1..Len(q) : p[i] = q[i] /\ i \in 1..Len(p)
          /\ p[Len(q) + 1] = x /\ Len(p) \in 1..Len(p)
      BY AppendFacts
    <2>2. \A i \in 1..Len(p) : i \in 1..Len(q) \/ i = Len(p)
      BY <2>1
    <2> HIDE DEF p
    <2>3. ~Has(q, {Finished}) => FinishedLast(p)
      BY <2>1, <2>2 DEF Has, FinishedLast
    <2>4. \A C : Has(p, C) <=> Has(q, C) \/ x \in C
      BY <2>1, <2>2 DEF Has
    <2> QED
      BY <2>3, <2>4 DEF p
  <1> QED
    BY <1>1, <1>2, <1>3

\* A queue changes at its ends; where no task has a sender of it, nothing is added.
LEMMA QueueStep ==
    ASSUME LinkTypes, TaskTypes, MainTypes, StatusKnown, NoSource, [Next]_vars, NEW sd \in Sides
    PROVE  \/ queue'[sd] = queue[sd]
           \/ queue[sd] # <<>> /\ queue'[sd] = Tail(queue[sd])
           \/ /\ ~TxDropped(sd)
              /\ \E m \in Msgs(sd) \ {Finished} : queue'[sd] = Append(queue[sd], m)
  <1> DEFINE Goal == \/ queue'[sd] = queue[sd]
                     \/ queue[sd] # <<>> /\ queue'[sd] = Tail(queue[sd])
                     \/ /\ ~TxDropped(sd)
                        /\ \E m \in Msgs(sd) \ {Finished} : queue'[sd] = Append(queue[sd], m)
  <1>1. UNCHANGED queue => Goal
    OBVIOUS
  <1>2. ASSUME NEW e \in Sides, NEW m \in Msgs(e), m # Finished, Enqueue(e, m), ~TxDropped(e)
        PROVE  Goal
    BY <1>2 DEF Enqueue, LinkTypes
  <1> HIDE DEF Goal
  <1>3. ASSUME NEW s \in Streams, SourceIn(s) \/ SourceStep(s) \/ SinkStep(s) \/ SinkWrite(s)
        PROVE  Goal
    <2>1. CASE SourceSending(src[s]) /\ Enqueue(SourceSide(s), StreamMsg(s, SourceMsg(src[s])))
      <3> DEFINE m == StreamMsg(s, SourceMsg(src[s]))
      <3>1. m \in StreamMsgs(SourceSide(s))
        BY TaskMsgs DEF TaskTypes
      <3>2. m \in Msgs(SourceSide(s)) /\ m # Finished
        BY <3>1 DEF Msgs, StreamMsgs, Finished
      <3>3. ~SourceEnded(src[s])
        BY <2>1 DEF SourceSending, SourceEnded
      <3>4. ~TxDropped(SourceSide(s))
        BY <3>3 DEF TxDropped, NoSource, Sources
      <3> QED
        BY <1>2, <2>1, <3>2, <3>4, SideFacts
    <2>2. CASE SinkSending(snk[s]) /\ Enqueue(SinkSide(s), StreamMsg(s, SinkMsg(snk[s])))
      <3> DEFINE m == StreamMsg(s, SinkMsg(snk[s]))
      <3>1. m \in StreamMsgs(SinkSide(s))
        BY TaskMsgs DEF TaskTypes
      <3>2. m \in Msgs(SinkSide(s)) /\ m # Finished
        BY <3>1 DEF Msgs, StreamMsgs, Finished
      <3>3. ~SinkEnded(snk[s])
        BY <2>2 DEF SinkSending, SinkEnded
      <3>4. ~TxDropped(SinkSide(s))
        BY <3>3 DEF TxDropped, Sinks
      <3> QED
        BY <1>2, <2>2, <3>2, <3>4, SideFacts
    <2> QED
      BY <1>1, <1>3, <2>1, <2>2, TaskFrames
  <1>4. ASSUME Resize \/ WindowStep
        PROVE  Goal
    <2>1. CASE winch.pc = "send" /\ Enqueue("client", WindowSizeChange(winch.n))
      <3> DEFINE m == WindowSizeChange(winch.n)
      <3>1. m \in Msgs("client") /\ m # Finished /\ "client" \in Sides
        BY DEF MainTypes, Msgs, MainMsgs, WindowSizeChange, Finished, Sides
      <3>2. ~TxDropped("client")
        BY <2>1 DEF TxDropped
      <3> QED
        BY <1>2, <2>1, <3>1, <3>2
    <2> QED
      BY <1>1, <1>4, <2>1, WindowFrames
  <1>5. ASSUME ChildExit \/ ServeStep
        PROVE  Goal
    <2>0. "server" \in Sides
      BY DEF Sides
    <2>1. CASE serve.pc = "sinkclosed" /\ Enqueue("server", StreamMsg("Stdin", SinkClosed))
      <3> DEFINE m == StreamMsg("Stdin", SinkClosed)
      <3>1. m \in Msgs("server") /\ m # Finished
        <4>1. "Stdin" \in Streams /\ SinkSide("Stdin") = "server" /\ SinkClosed \in SinkAction
          BY DEF Streams, SinkSide, SourceSide, Peer, SinkClosed, SinkAction
        <4>2. m \in StreamMsgs("server")
          BY <4>1, TaskMsgs
        <4> QED
          BY <4>2 DEF Msgs, StreamMsg, SinkClosed, Finished
      <3>2. ~TxDropped("server")
        BY <2>1 DEF TxDropped
      <3> QED
        BY <1>2, <2>0, <2>1, <3>1, <3>2
    <2>2. CASE serve.pc = "exit" /\ Enqueue("server", Exit(serve.status))
      <3> DEFINE m == Exit(serve.status)
      <3>1. m \in Msgs("server") /\ m # Finished
        BY <2>2 DEF StatusKnown, Msgs, MainMsgs, Exit, Finished
      <3>2. ~TxDropped("server")
        BY <2>2 DEF TxDropped
      <3> QED
        BY <1>2, <2>0, <2>2, <3>1, <3>2
    <2> QED
      BY <1>1, <1>5, <2>1, <2>2, ServerFrames
  <1>6. ASSUME (\E e \in Sides : SenderStep(e)) \/ SenderNotified
        PROVE  Goal
    <2>1. \/ UNCHANGED queue
          \/ \E e \in Sides : queue[e] # <<>> /\ queue' = [queue EXCEPT ![e] = Tail(@)]
      BY <1>6 DEF SenderStep, SenderTake, SenderWrite, SenderDrained, SenderNotified
    <2> QED
      BY <1>1, <2>1 DEF LinkTypes, Goal
  <1>7. UNCHANGED vars => UNCHANGED queue
    BY DEF vars, linkVars
  <1> QED
    BY <1>1, <1>3, <1>4, <1>5, <1>6, <1>7, ReceiverFrames, ClientFrames DEF Next, Terminated, Goal

\* What is in the connection changes at its ends, and is cut when it is lost.
LEMMA NetStep ==
    ASSUME LinkTypes, TaskTypes, MainTypes, FailedIsDown, [Next]_vars, NEW sd \in Sides
    PROVE  \/ net'[sd] = net[sd]
           \/ \E k \in 0..Len(net[sd]) : net'[sd] = SubSeq(net[sd], 1, k)
           \/ net'[sd] = <<>>
           \/ ReceiverRecv(Peer(sd)) /\ net'[sd] = Tail(net[sd])
           \/ /\ SenderWrite(sd) /\ conn = "up"
              /\ net'[sd] = Append(net[sd], sender[sd].msg[1])
  <1> DEFINE Goal ==
           \/ net'[sd] = net[sd]
           \/ \E k \in 0..Len(net[sd]) : net'[sd] = SubSeq(net[sd], 1, k)
           \/ net'[sd] = <<>>
           \/ ReceiverRecv(Peer(sd)) /\ net'[sd] = Tail(net[sd])
           \/ /\ SenderWrite(sd) /\ conn = "up"
              /\ net'[sd] = Append(net[sd], sender[sd].msg[1])
  <1>1. UNCHANGED net => Goal
    OBVIOUS
  <1>2. ASSUME (\E e \in Sides : SenderStep(e)) \/ SenderNotified
        PROVE  Goal
    <2>1. ASSUME NEW e \in Sides, SenderWrite(e)
          PROVE  Goal
      BY <2>1 DEF SenderWrite, LinkTypes
    <2>2. \A e \in Sides : SenderTake(e) \/ SenderDrained(e) => UNCHANGED net
      BY DEF SenderTake, SenderDrained
    <2>3. SenderNotified => UNCHANGED net
      BY DEF SenderNotified
    <2> QED
      BY <1>1, <1>2, <2>1, <2>2, <2>3 DEF SenderStep
  <1>3. ASSUME NEW e \in Sides, ReceiverStep(e)
        PROVE  Goal
    <2>1. CASE sd # Peer(e)
      <3>1. sd = e /\ Peer(sd) # e /\ Peer(sd) \in Sides /\ Peer(Peer(sd)) = sd
        BY <2>1, SideFacts
      <3>2. net'[sd] = net[sd]
        BY <1>3, <3>1, ReceiverAlone
      <3> QED
        BY <3>2
    <2>2. CASE sd = Peer(e)
      <3>0. e = Peer(sd)
        BY <2>2, SideFacts
      <3>1. CASE ReceiverRecv(e)
        BY <2>2, <3>0, <3>1 DEF ReceiverRecv, LinkTypes
      <3>2. CASE ReceiverRoute(e) \/ ReceiverShutdown(e) \/ ReceiverShutdownEnd(e)
        BY <1>1, <3>2 DEF ReceiverRoute, ReceiverShutdown, ReceiverShutdownEnd
      <3>3. CASE ReceiverError(e)
        BY <2>2, <3>3 DEF ReceiverError, LinkTypes
      <3> QED
        BY <1>3, <3>1, <3>2, <3>3 DEF ReceiverStep
    <2> QED
      BY <2>1, <2>2
  <1>4. ASSUME ClientStep \/ ConnectionLost
        PROVE  Goal
    <2>1. Disconnect(conn') => \E k \in 0..Len(net[sd]) : net'[sd] = SubSeq(net[sd], 1, k)
      BY DEF Disconnect, Sides
    <2> QED
      BY <1>1, <1>4, <2>1, ClientFrames
  <1>5. UNCHANGED vars => UNCHANGED net
    BY DEF vars, linkVars
  <1> HIDE DEF Goal
  <1> QED
    BY <1>1, <1>2, <1>3, <1>4, <1>5, TaskFrames, WindowFrames, ServerFrames
       DEF Next, Terminated, Goal

\* A task that has dropped its sender of the queue does not get it back.
LEMMA DroppedStays ==
    ASSUME Inv, [Next]_vars, NEW sd \in Sides, TxDropped(sd)
    PROVE  TxDropped(sd)'
  <1>1. /\ \A s \in Streams : /\ SourceEnded(src[s]) => src'[s] = src[s]
                              /\ SinkEnded(snk[s]) => snk'[s] = snk[s]
        /\ winch.pc = "done" => winch' = winch
        /\ serve.pc \notin {"wait", "sinkclosed", "exit"} =>
             serve'.pc \notin {"wait", "sinkclosed", "exit"}
    BY EndsStay DEF Inv
  <1> QED
    BY <1>1 DEF TxDropped, Sources, Sinks, SourceEnded, SinkEnded

\* Where there is no source, there will be none.
LEMMA NoSourceNext == Inv /\ NoSource /\ [Next]_vars => NoSource'
  <1>1. Inv /\ [Next]_vars => \A s \in Streams : SourceEnded(src[s]) => src'[s] = src[s]
    BY EndsStay DEF Inv
  <1> QED
    BY <1>1 DEF NoSource, SourceEnded

\* How the sender of a side moves.
LEMMA SenderTurns ==
    ASSUME Inv, [Next]_vars, NEW sd \in Sides, ~Has(queue[sd], {Finished})
    PROVE  \/ sender'[sd] = sender[sd]
           \/ /\ SenderTake(sd)
              /\ sender'[sd].pc = "write" /\ sender'[sd].msg # <<Finished>>
           \/ /\ SenderWrite(sd)
              /\ sender'[sd].msg = <<>>
              /\ sender'[sd].pc = IF sender[sd].msg = <<Finished>> THEN "done" ELSE "recv"
           \/ /\ SenderDrained(sd)
              /\ sd = "server" => sender'[sd].pc = "notified" /\ sender'[sd].msg = <<>>
           \/ sd = "server" /\ SenderNotified
  <1>1. SenderStep(sd) \/ (sd = "server" /\ SenderNotified) \/ sender'[sd] = sender[sd]
    <2>1. \A e \in Sides : SenderStep(e) /\ e # sd => sender'[sd] = sender[sd]
      BY DEF SenderStep, SenderTake, SenderWrite, SenderDrained, Inv, LinkTypes
    <2>2. SenderNotified /\ sd # "server" => sender'[sd] = sender[sd]
      BY DEF SenderNotified, Inv, LinkTypes
    <2>3. UNCHANGED vars => sender' = sender
      BY DEF vars, linkVars
    <2> QED
      BY <2>1, <2>2, <2>3, TaskFrames, WindowFrames, ReceiverFrames, ServerFrames, ClientFrames
         DEF Next, Terminated
  <1>2. LinkTypes /\ sender[sd] \in SenderState(sd) /\ DOMAIN sender = Sides /\ queue[sd] \in Seq(Msgs(sd))
    BY DEF Inv, LinkTypes, Way
  <1>3. ASSUME SenderTake(sd)
        PROVE  \/ sender'[sd] = sender[sd]
               \/ sender'[sd].pc = "write" /\ sender'[sd].msg # <<Finished>>
    <2> DEFINE h == Head(queue[sd])
    <2>1. queue[sd] # <<>> /\ ~(h \in {Finished})
      <3>1. queue[sd] # <<>>
        BY <1>3 DEF SenderTake
      <3> QED
        BY <1>2, <3>1, LastFacts
    <2>2. \/ sender'[sd] = sender[sd]
          \/ sender'[sd] = [sender[sd] EXCEPT !.pc = "write", !.msg = <<h>>]
      BY <1>2, <1>3 DEF SenderTake
    <2> HIDE DEF h
    <2>3. CASE sender'[sd] = [sender[sd] EXCEPT !.pc = "write", !.msg = <<h>>]
      <3>1. sender'[sd].pc = "write" /\ sender'[sd].msg = <<h>>
        BY <1>2, <2>3 DEF SenderState
      <3>2. <<h>> # <<Finished>>
        BY <2>1
      <3> QED
        BY <3>1, <3>2
    <2> QED
      BY <2>2, <2>3
  <1>4. ASSUME SenderWrite(sd)
        PROVE  /\ sender'[sd].msg = <<>>
               /\ sender'[sd].pc = IF sender[sd].msg = <<Finished>> THEN "done" ELSE "recv"
    <2> DEFINE w == Written(sender[sd])
               x == sender[sd].msg[1]
    <2>1. sender[sd].pc = "write"
      BY <1>4 DEF SenderWrite
    <2>2. x \in Msgs(sd) /\ sender[sd].msg = <<x>>
      BY <1>2, <2>1, InHand
    <2>3. x.act = "Finished" <=> x = Finished
      BY <2>2, MainMsgFacts DEF Finished
    <2>4. <<x>> = <<Finished>> <=> x = Finished
      OBVIOUS
    <2>5. sender'[sd] = w \/ sender'[sd] = [w EXCEPT !.failed = TRUE]
      BY <1>2, <1>4 DEF SenderWrite
    <2>6. /\ w.msg = <<>> /\ w.pc = IF x.act = "Finished" THEN "done" ELSE "recv"
          /\ [w EXCEPT !.failed = TRUE].pc = w.pc /\ [w EXCEPT !.failed = TRUE].msg = <<>>
      BY <1>2, SenderStates
    <2> HIDE DEF w, x
    <2>7. sender'[sd].msg = <<>> /\ sender'[sd].pc = w.pc
      BY <2>5, <2>6
    <2> QED
      BY <2>2, <2>3, <2>4, <2>6, <2>7
  <1>5. ASSUME SenderDrained(sd), sd = "server"
        PROVE  sender'[sd].pc = "notified" /\ sender'[sd].msg = <<>>
    <2>1. sender[sd].pc = "recv" /\ sender'[sd] = [sender[sd] EXCEPT !.pc = "notified"]
      BY <1>2, <1>5 DEF SenderDrained
    <2>2. sender[sd].msg = <<>>
      BY <1>2, <2>1, InHand
    <2> QED
      BY <1>2, <2>1, <2>2 DEF SenderState
  <1> QED
    BY <1>1, <1>3, <1>4, <1>5 DEF SenderStep

\* Only its own steps move the receiver of a side.
LEMMA ReceiverTurns ==
    ASSUME Inv, [Next]_vars, NEW sd \in Sides
    PROVE  receiver'[sd] = receiver[sd] \/ ReceiverStep(sd)
  <1>1. \A e \in Sides : ReceiverStep(e) /\ e # sd => receiver'[sd] = receiver[sd]
    BY ReceiverAlone DEF Inv
  <1>2. UNCHANGED vars => receiver' = receiver
    BY DEF vars, linkVars
  <1> QED
    BY <1>1, <1>2, TaskFrames, WindowFrames, SenderFrames, ServerFrames, ClientFrames
       DEF Next, Terminated

\* A receiver that hears Finished hears it from a sender that has ended, and hears
\* nothing after it.
LEMMA HearsFinished ==
    ASSUME Inv, FailedIsDown, FinishOrder, [Next]_vars, NEW sd \in Sides,
           Informed(sd)', ~Informed(sd)
    PROVE  /\ ReceiverRecv(sd) /\ net'[Peer(sd)] = <<>>
           /\ Has(net[Peer(sd)], {Finished}) /\ sender[Peer(sd)].pc = "done"
  <1>1. receiver'[sd] # receiver[sd] /\ receiver'[sd].pc = "done" /\ ~receiver'[sd].failed
    BY DEF Informed
  <1>2. LinkTypes /\ DOMAIN receiver = Sides /\ DOMAIN net = Sides /\ Peer(sd) \in Sides
        /\ net[Peer(sd)] \in Seq(Msgs(Peer(sd)))
    BY SideFacts DEF Inv, LinkTypes, Way
  <1>3. ReceiverStep(sd)
    BY <1>1, ReceiverTurns
  <1>4. ReceiverRecv(sd)
    BY <1>1, <1>2, <1>3, ReceiverStates DEF ReceiverStep, FailedIsDown
  <1> DEFINE h == Head(net[Peer(sd)])
             t == Tail(net[Peer(sd)])
  <1>5. net[Peer(sd)] # <<>> /\ net'[Peer(sd)] = t
    BY <1>2, <1>4 DEF ReceiverRecv
  <1>6. receiver[sd].pc = "recv" /\ receiver[sd] \in ReceiverState(sd)
    BY <1>2, <1>4 DEF ReceiverRecv, LinkTypes, Way
  <1>7. h.act = "Finished"
    <2>1. \/ receiver' = [receiver EXCEPT ![sd].pc = "route", ![sd].msg = <<h>>]
          \/ receiver' = receiver
          \/ receiver' = [receiver EXCEPT ![sd].pc = "failed"]
          \/ h.act = "Finished"
      BY <1>4 DEF ReceiverRecv
    <2> HIDE DEF h
    <2> QED
      BY <1>1, <1>2, <1>6, <2>1 DEF ReceiverState
  <1>8. h = Finished
    <2>1. h \in Msgs(Peer(sd))
      BY <1>2, <1>5, TailFacts
    <2> QED
      BY <1>2, <1>7, <2>1, MainMsgFacts
  <1>9. h \in {Finished} /\ FinishedLast(net[Peer(sd)])
    BY <1>2, <1>8 DEF FinishOrder
  <1>10. Has(net[Peer(sd)], {Finished}) /\ t = <<>>
    BY <1>2, <1>5, <1>8, <1>9, LastFacts
  <1> QED
    BY <1>2, <1>4, <1>5, <1>10 DEF FinishOrder

\* What Finished says stays true.
LEMMA FinishOrderNext ==
    ASSUME Inv, FailedIsDown, NoSource, FinishOrder, [Next]_vars
    PROVE  FinishOrder'
  <1>0. LinkTypes /\ TaskTypes /\ MainTypes /\ StatusKnown
    BY DEF Inv
  <1>a. ASSUME NEW sd \in Sides
        PROVE  /\ Peer(sd) \in Sides /\ queue[sd] \in Seq(Msgs(sd)) /\ net[sd] \in Seq(Msgs(sd))
               /\ Drained(sd) => TxDropped(sd) /\ queue[sd] = <<>>
               /\ ~Has(queue[sd], {Finished})
               /\ FinishedLast(net[sd])
               /\ Has(net[sd], {Finished}) => sender[sd].pc = "done"
               /\ Informed(sd) => sender[Peer(sd)].pc = "done" /\ net[Peer(sd)] = <<>>
    BY SideFacts DEF Inv, LinkTypes, Way, FinishOrder
  <1>b. ASSUME NEW sd \in Sides, sender[sd].pc = "done"
        PROVE  sender'[sd].pc = "done"
    BY <1>b, EndsStay DEF Inv
  <1>c. ASSUME NEW sd \in Sides
        PROVE  /\ receiver[sd].pc = "done" => receiver'[sd].pc = "done"
               /\ Informed(sd) => Informed(sd)'
    <2>1. ReceiverEnded(sd) => receiver'[sd] = receiver[sd]
      BY EndsStay DEF Inv
    <2> QED
      BY <2>1 DEF ReceiverEnded, Informed
  <1>1. ASSUME NEW sd \in Sides, Drained(sd)'
        PROVE  TxDropped(sd)' /\ queue'[sd] = <<>>
    <2>1. CASE Drained(sd)
      <3>1. TxDropped(sd)' /\ queue[sd] = <<>>
        BY <1>a, <2>1, DroppedStays
      <3>2. queue'[sd] = queue[sd]
        BY <1>0, <1>a, <2>1, QueueStep
      <3> QED
        BY <3>1, <3>2
    <2>2. CASE ~Drained(sd)
      <3>1. SenderDrained(sd) \/ (sd = "server" /\ SenderNotified)
        <4>1. ~(sender'[sd] = sender[sd])
          BY <1>1, <2>2 DEF Drained
        <4>2. ~(sender'[sd].pc = "write" /\ sender'[sd].msg # <<Finished>>)
          BY <1>1 DEF Drained
        <4>3. <<>> # <<Finished>>
          OBVIOUS
        <4>4. ~(/\ sender'[sd].msg = <<>>
                /\ sender'[sd].pc = IF sender[sd].msg = <<Finished>> THEN "done" ELSE "recv")
          BY <1>1, <2>2, <4>3 DEF Drained
        <4> QED
          BY <1>a, <4>1, <4>2, <4>4, SenderTurns
      <3>2. SenderDrained(sd)
        BY <2>2, <3>1 DEF Drained, SenderNotified
      <3>3. TxDropped(sd) /\ queue'[sd] = queue[sd] /\ queue[sd] = <<>>
        BY <3>2 DEF SenderDrained
      <3> QED
        BY <3>3, DroppedStays
    <2> QED
      BY <2>1, <2>2
  <1>2. ASSUME NEW sd \in Sides
        PROVE  ~Has(queue'[sd], {Finished})
    <2>1. CASE queue'[sd] = queue[sd]
      BY <1>a, <2>1
    <2>2. CASE queue[sd] # <<>> /\ queue'[sd] = Tail(queue[sd])
      <3>1. Has(Tail(queue[sd]), {Finished}) => Has(queue[sd], {Finished})
        BY <1>a, <2>2, LastFacts
      <3> QED
        BY <1>a, <2>2, <3>1
    <2>3. ASSUME NEW m \in Msgs(sd) \ {Finished}, queue'[sd] = Append(queue[sd], m)
          PROVE  ~Has(queue'[sd], {Finished})
      <3>1. m \in Msgs(sd) /\ ~(m \in {Finished})
        OBVIOUS
      <3>2. Has(Append(queue[sd], m), {Finished}) <=> Has(queue[sd], {Finished}) \/ m \in {Finished}
        BY <1>a, <3>1, LastFacts
      <3> QED
        BY <1>a, <2>3, <3>1, <3>2
    <2> QED
      BY <1>0, <2>1, <2>2, <2>3, QueueStep
  <1>3. ASSUME NEW sd \in Sides
        PROVE  /\ FinishedLast(net'[sd])
               /\ Has(net'[sd], {Finished}) =>
                    \/ Has(net[sd], {Finished})
                    \/ /\ SenderWrite(sd) /\ conn = "up" /\ sender[sd].msg = <<Finished>>
                       /\ sender'[sd].pc = "done"
    <2> DEFINE Goal == /\ FinishedLast(net'[sd])
                       /\ Has(net'[sd], {Finished}) =>
                            \/ Has(net[sd], {Finished})
                            \/ /\ SenderWrite(sd) /\ conn = "up" /\ sender[sd].msg = <<Finished>>
                               /\ sender'[sd].pc = "done"
    <2>1. CASE net'[sd] = net[sd]
      BY <1>a, <2>1
    <2>2. ASSUME NEW k \in 0..Len(net[sd]), net'[sd] = SubSeq(net[sd], 1, k)
          PROVE  Goal
      <3>1. /\ Has(SubSeq(net[sd], 1, k), {Finished}) => Has(net[sd], {Finished})
            /\ FinishedLast(net[sd]) => FinishedLast(SubSeq(net[sd], 1, k))
        BY <1>a, LastFacts
      <3> QED
        BY <1>a, <2>2, <3>1
    <2>3. CASE net'[sd] = <<>>
      BY <2>3 DEF FinishedLast, Has
    <2>4. CASE ReceiverRecv(Peer(sd)) /\ net'[sd] = Tail(net[sd])
      <3>1. net[sd] # <<>>
        BY <2>4, SideFacts DEF ReceiverRecv
      <3> QED
        BY <1>a, <2>4, <3>1, LastFacts
    <2>5. CASE SenderWrite(sd) /\ conn = "up" /\ net'[sd] = Append(net[sd], sender[sd].msg[1])
      <3> DEFINE x == sender[sd].msg[1]
      <3>1. sender[sd].pc = "write"
        BY <2>5 DEF SenderWrite
      <3>2. x \in Msgs(sd) /\ sender[sd].msg = <<x>>
        BY <1>0, <3>1, InHand
      <3>3. net'[sd] = Append(net[sd], x) /\ ~Has(net[sd], {Finished})
        BY <1>a, <2>5, <3>1
      <3>4. x \in {Finished} => sender[sd].msg = <<Finished>>
        BY <3>2
      <3> HIDE DEF x
      <3>5. FinishedLast(net'[sd])
        <4>1. ~Has(net[sd], {Finished}) => FinishedLast(Append(net[sd], x))
          BY <1>a, <3>2, LastFacts
        <4> QED
          BY <3>3, <4>1
      <3>6. Has(net'[sd], {Finished}) => x \in {Finished}
        <4>1. Has(Append(net[sd], x), {Finished}) <=> Has(net[sd], {Finished}) \/ x \in {Finished}
          BY <1>a, <3>2, LastFacts
        <4> QED
          BY <3>3, <4>1
      <3>7. sender[sd].msg = <<Finished>> => sender'[sd].pc = "done"
        <4>1. sender'[sd].pc = Written(sender[sd]).pc
          BY <1>0, <2>5 DEF SenderWrite, LinkTypes
        <4>2. <<Finished>>[1].act = "Finished"
          BY DEF Finished
        <4>3. sender[sd].msg = <<Finished>> => sender[sd].msg[1].act = "Finished"
          BY <4>2
        <4> QED
          BY <1>0, <4>1, <4>3, SenderStates
      <3> QED
        BY <2>5, <3>4, <3>5, <3>6, <3>7
    <2> HIDE DEF Goal
    <2>6. Goal
      BY <1>0, <2>1, <2>2, <2>3, <2>4, <2>5, NetStep DEF Goal
    <2> QED
      BY <2>6 DEF Goal
  <1>4. ASSUME NEW sd \in Sides, Informed(sd)'
        PROVE  sender'[Peer(sd)].pc = "done" /\ net'[Peer(sd)] = <<>>
    <2>1. CASE ~Informed(sd)
      BY <1>4, <1>a, <1>b, <2>1, HearsFinished
    <2>2. CASE Informed(sd)
      <3> DEFINE p == Peer(sd)
      <3>1. /\ p \in Sides /\ Peer(p) = sd /\ sender[p].pc = "done" /\ net[p] = <<>>
            /\ receiver[sd].pc = "done"
        BY <1>a, <2>2, SideFacts DEF Informed
      <3> HIDE DEF p
      <3>2. ~ReceiverRecv(Peer(p)) /\ ~SenderWrite(p)
        BY <3>1 DEF ReceiverRecv, SenderWrite
      <3>3. \A k \in 0..Len(net[p]) : SubSeq(net[p], 1, k) = <<>>
        BY <3>1
      <3>4. net'[p] = <<>>
        BY <1>0, <3>1, <3>2, <3>3, NetStep
      <3> QED
        BY <1>b, <3>1, <3>4 DEF p
    <2> QED
      BY <2>1, <2>2
  <1>s. "server" \in Sides /\ "client" \in Sides
    BY DEF Sides
  <1>5. ASSUME notify' \/ sender'["server"].pc = "done" \/ sender'["server"].msg = <<Finished>>
        PROVE  receiver'["server"].pc = "done"
    <2>1. SUFFICES ASSUME ~notify, sender["server"].pc # "done", sender["server"].msg # <<Finished>>
                   PROVE  receiver'["server"].pc = "done"
      BY <1>c, <1>s DEF FinishOrder
    <2>2. sender'["server"].pc # "done" /\ sender'["server"].msg # <<Finished>>
      <3>1. ~SenderNotified
        BY <2>1 DEF SenderNotified
      <3>2. <<>> # <<Finished>>
        OBVIOUS
      <3> QED
        BY <1>a, <1>s, <2>1, <3>1, <3>2, SenderTurns
    <2>3. notify' # notify
      BY <1>5, <2>1, <2>2
    <2>4. \E sd \in Sides : ReceiverStep(sd)
      <3>1. UNCHANGED vars => notify' = notify
        BY DEF vars, serverVars
      <3>2. UNCHANGED serverVars => notify' = notify
        BY DEF serverVars
      <3>3. (\E sd \in Sides : SenderStep(sd)) => notify' = notify
        BY DEF SenderStep, SenderTake, SenderWrite, SenderDrained, serverVars
      <3>4. SenderNotified => FALSE
        BY <2>1 DEF SenderNotified
      <3> QED
        BY <2>3, <3>1, <3>2, <3>3, <3>4, TaskFrames, WindowFrames, ServerFrames, ClientFrames
           DEF Next, Terminated
    <2>5. PICK sd \in Sides : ReceiverStep(sd)
      BY <2>4
    <2>6. CASE ReceiverRecv(sd)
      <3>1. sd = "server" /\ receiver' = [receiver EXCEPT ![sd].pc = "done"]
        <4>1. notify'
          BY <1>5, <2>2
        <4>2. \/ notify' = notify
              \/ /\ receiver' = [receiver EXCEPT ![sd].pc = "done"]
                 /\ notify' = (notify \/ sd = "server")
          BY <2>6 DEF ReceiverRecv
        <4> QED
          BY <2>1, <4>1, <4>2, Zenon
      <3> QED
        BY <1>0, <1>s, <3>1 DEF LinkTypes, Way, ReceiverState
    <2>7. CASE ReceiverShutdownEnd(sd)
      <3>1. sd = "server"
        BY <1>5, <2>1, <2>2, <2>7 DEF ReceiverShutdownEnd
      <3> QED
        BY <1>0, <1>s, <2>7, <3>1, ReceiverStates
    <2>8. CASE ReceiverRoute(sd) \/ ReceiverError(sd) \/ ReceiverShutdown(sd)
      BY <2>3, <2>8 DEF ReceiverRoute, ReceiverError, ReceiverShutdown, serverVars
    <2> QED
      BY <2>5, <2>6, <2>7, <2>8 DEF ReceiverStep
  <1>6. ASSUME Has(net'["server"], {Finished}) \/ Informed("client")'
        PROVE  Informed("server")'
    <2>1. Has(net["server"], {Finished}) => Informed("server")'
      BY <1>c, <1>s DEF FinishOrder
    <2>2. Informed("client")' => Informed("client") \/ Has(net["server"], {Finished})
      <3>1. Peer("client") = "server"
        BY DEF Peer
      <3> QED
        BY <1>s, <3>1, HearsFinished
    <2>3. Informed("client") => Informed("server")'
      BY <1>c, <1>s DEF FinishOrder
    <2>4. ASSUME conn = "up", sender["server"].msg = <<Finished>>
          PROVE  Informed("server")'
      <3>1. receiver["server"].pc = "done"
        BY <2>4 DEF FinishOrder
      <3>2. ~receiver["server"].failed
        BY <1>s, <2>4 DEF FailedIsDown
      <3> QED
        BY <1>c, <1>s, <3>1, <3>2 DEF Informed
    <2> QED
      BY <1>3, <1>6, <1>s, <2>1, <2>2, <2>3, <2>4
  <1>7. ASSUME NEW sd \in Sides, Has(net'[sd], {Finished})
        PROVE  sender'[sd].pc = "done"
    BY <1>3, <1>7, <1>a, <1>b
  <1> QED
    BY <1>1, <1>2, <1>3, <1>4, <1>5, <1>6, <1>7 DEF FinishOrder, Informed, Drained

\* No failure, no Finished, and no source where none is needed: the beginning.
LEMMA FinishInit == Init => FailedIsDown /\ NoSource /\ FinishOrder
  <1> SUFFICES ASSUME Init PROVE FailedIsDown /\ NoSource /\ FinishOrder
    OBVIOUS
  <1>1. ASSUME NEW sd \in Sides
        PROVE  /\ sender[sd].pc = "recv" /\ sender[sd].msg = <<>> /\ ~sender[sd].failed
               /\ receiver[sd].pc = "recv" /\ ~receiver[sd].failed
               /\ ~error[sd] /\ net[sd] = <<>>
    BY DEF Init
  <1>2. ASSUME NEW sd \in Sides
        PROVE  ~Has(queue[sd], {Finished})
    <2>1. CASE queue[sd] = <<>>
      BY <2>1, EmptyOrder
    <2>2. CASE queue[sd] = <<StreamMsg("Stderr", SourceClosed)>>
      <3>1. StreamMsg("Stderr", SourceClosed) \notin {Finished}
        BY DEF StreamMsg, SourceClosed, Finished
      <3> QED
        BY <2>2, <3>1, OneOrder
    <2> QED
      BY <2>1, <2>2 DEF Init
  <1>3. FailedIsDown
    BY <1>1 DEF FailedIsDown
  <1>4. NoSource
    BY DEF Init, NoSource, SourceEnded
  <1>5. <<>> # <<Finished>>
    OBVIOUS
  <1>6. \A sd \in Sides : ~Drained(sd) /\ ~Informed(sd) /\ FinishedLast(net[sd])
                          /\ ~Has(net[sd], {Finished})
    BY <1>1, <1>5, EmptyOrder DEF Drained, Informed, FinishedLast
  <1>7. /\ "server" \in Sides /\ "client" \in Sides
        /\ ~notify /\ sender["server"].pc # "done" /\ sender["server"].msg # <<Finished>>
    BY <1>1, <1>5 DEF Init, Sides
  <1>8. FinishOrder
    BY <1>2, <1>6, <1>7 DEF FinishOrder
  <1> QED
    BY <1>3, <1>4, <1>8

\* How a session ends.
Ending == Inv /\ FailedIsDown /\ NoSource /\ FinishOrder

\* The order of the end is kept.
LEMMA EndingNext == Ending /\ [Next]_vars => Ending'
  <1>1. Ending /\ [Next]_vars => FailedIsDown'
    BY FailedNext DEF Ending, Inv
  <1>2. Ending /\ [Next]_vars => FinishOrder'
    BY FinishOrderNext DEF Ending
  <1> QED
    BY <1>1, <1>2, InvNext, NoSourceNext DEF Ending

-----------------------------------------------------------------------------
(* Who adds what.                                                          *)

\* The step puts m on the way from a side.
Adds(e, m) ==
    \/ m = Finished
    \/ e = "client" /\ winch.pc = "send" /\ m = WindowSizeChange(winch.n)
    \/ e = "server" /\ ServeSinkClosed /\ m = StreamMsg("Stdin", SinkClosed)
    \/ e = "server" /\ ServeExit /\ m = Exit(serve.status)
    \/ \E s \in Streams :
         e = SourceSide(s) /\ SourceSend(s) /\ m = StreamMsg(s, SourceMsg(src[s]))
    \/ \E s \in Streams :
         e = SinkSide(s) /\ SinkSend(s) /\ m = StreamMsg(s, SinkMsg(snk[s]))

\* A way holds messages of its side.
LEMMA PathTyped == LinkTypes => \A sd \in Sides : Path(sd) \in Seq(Msgs(sd))
  BY PathTypes

\* So it does after a step.
LEMMA PathTypesAfter == LinkTypes' => \A sd \in Sides : Path(sd)' \in Seq(Msgs(sd)')
  <1>1. (LinkTypes => \A sd \in Sides : Path(sd) \in Seq(Msgs(sd)))'
    BY PathTyped, PTL
  <1> QED
    BY <1>1

\* A step adds one message to a way, or none; only a receiver takes some off, or the
\* loss of the connection.
LEMMA PathStep ==
    ASSUME Ending, [Next]_vars, NEW e \in Sides
    PROVE  \/ /\ Kept(Path(e)', Path(e))
              /\ \/ Path(e)' = Path(e) \/ conn' # "up"
                 \/ \E sd \in Sides : ReceiverStep(sd)
           \/ /\ conn = "up"
              /\ \E m \in Msgs(e) : Appended(Path(e)', Path(e), m) /\ Adds(e, m)
  <1>0. Inv /\ LinkTypes /\ TaskTypes /\ MainTypes /\ StatusKnown /\ FailedIsDown
    BY DEF Ending, Inv
  <1> DEFINE Goal == \/ /\ Kept(Path(e)', Path(e))
                        /\ \/ Path(e)' = Path(e) \/ conn' # "up"
                           \/ \E sd \in Sides : ReceiverStep(sd)
                     \/ /\ conn = "up"
                        /\ \E m \in Msgs(e) : Appended(Path(e)', Path(e), m) /\ Adds(e, m)
  <1>a. Path(e)' = Path(e) => Goal
    BY DEF Kept
  <1>b. ASSUME NEW sd \in Sides, NEW m \in Msgs(sd), Enqueue(sd, m), sd = e => Adds(e, m)
        PROVE  Goal
    <2>1. CASE sd # e
      BY <1>0, <1>a, <1>b, <2>1, PathEnqueue
    <2>2. CASE conn # "up"
      BY <1>0, <1>a, <1>b, <2>2, PathEnqueue
    <2>3. CASE sd = e /\ conn = "up"
      BY <1>0, <1>b, <2>3, PathEnqueue
    <2> QED
      BY <2>1, <2>2, <2>3
  <1> HIDE DEF Goal
  <1>c. UNCHANGED <<queue, net, conn, sender, receiver>> => Goal
    BY <1>a, PathSame
  <1>1. ASSUME NEW s \in Streams, SourceIn(s) \/ SourceStep(s) \/ SinkStep(s) \/ SinkWrite(s)
        PROVE  Goal
    <2>1. CASE SourceSend(s)
      <3> DEFINE m == StreamMsg(s, SourceMsg(src[s]))
      <3>1. m \in Msgs(SourceSide(s)) /\ SourceSide(s) \in Sides
        BY <1>0, TaskMsgs, SideFacts DEF TaskTypes, Msgs
      <3>2. Enqueue(SourceSide(s), m)
        BY <2>1 DEF SourceSend
      <3>3. SourceSide(s) = e => Adds(e, m)
        BY <2>1 DEF Adds
      <3> HIDE DEF m
      <3> QED
        BY <1>b, <3>1, <3>2, <3>3
    <2>2. CASE SinkSend(s)
      <3> DEFINE m == StreamMsg(s, SinkMsg(snk[s]))
      <3>1. m \in Msgs(SinkSide(s)) /\ SinkSide(s) \in Sides
        BY <1>0, TaskMsgs, SideFacts DEF TaskTypes, Msgs
      <3>2. Enqueue(SinkSide(s), m)
        BY <2>2 DEF SinkSend
      <3>3. SinkSide(s) = e => Adds(e, m)
        BY <2>2 DEF Adds
      <3> HIDE DEF m
      <3> QED
        BY <1>b, <3>1, <3>2, <3>3
    <2>3. CASE SourceIn(s) \/ SourceTake(s)
      BY <1>c, <2>3 DEF SourceIn, SourceTake, ReadPacket, EndOfInput, linkVars
    <2>4. CASE SinkTake(s) \/ SinkFinish(s) \/ SinkWrite(s)
      BY <1>c, <2>4 DEF SinkTake, SinkFinish, SinkWrite, linkVars
    <2> QED
      BY <1>1, <2>1, <2>2, <2>3, <2>4 DEF SourceStep, SinkStep
  <1>2. ASSUME Resize \/ WindowStep
        PROVE  Goal
    <2>1. CASE winch.pc = "send" /\ Enqueue("client", WindowSizeChange(winch.n))
      <3> DEFINE m == WindowSizeChange(winch.n)
      <3>1. "client" \in Sides /\ m \in Msgs("client") /\ winch.n \in Nat
        BY <1>0 DEF MainTypes, Msgs, MainMsgs, Sides
      <3>2. "client" = e => Adds(e, m)
        BY <2>1 DEF Adds
      <3> HIDE DEF m
      <3> QED
        BY <1>b, <2>1, <3>1, <3>2 DEF m
    <2> QED
      BY <1>2, <1>c, <2>1, WindowFrames
  <1>3. ASSUME ChildExit \/ ServeStep
        PROVE  Goal
    <2>s. "server" \in Sides
      BY DEF Sides
    <2>1. CASE ServeSinkClosed
      <3> DEFINE m == StreamMsg("Stdin", SinkClosed)
      <3>1. m \in Msgs("server")
        <4>1. "Stdin" \in Streams /\ SinkSide("Stdin") = "server" /\ SinkClosed \in SinkAction
          BY DEF Streams, SinkSide, SourceSide, Peer, SinkClosed, SinkAction
        <4>2. m \in StreamMsgs("server")
          BY <4>1, TaskMsgs
        <4> QED
          BY <4>2 DEF Msgs
      <3>2. Enqueue("server", m) /\ ("server" = e => Adds(e, m))
        BY <2>1 DEF ServeSinkClosed, Adds
      <3> HIDE DEF m
      <3> QED
        BY <1>b, <2>s, <3>1, <3>2
    <2>2. CASE ServeExit
      <3> DEFINE m == Exit(serve.status)
      <3>1. m \in Msgs("server")
        BY <1>0, <2>2 DEF StatusKnown, Msgs, MainMsgs, ServeExit
      <3>2. Enqueue("server", m) /\ ("server" = e => Adds(e, m))
        BY <2>2 DEF ServeExit, Adds
      <3> HIDE DEF m
      <3> QED
        BY <1>b, <2>s, <3>1, <3>2
    <2>3. CASE ChildExit \/ ServeWait \/ ServeKill \/ ServeJoin
      BY <1>c, <2>3 DEF ChildExit, ServeWait, ServeKill, ServeJoin, linkVars
    <2> QED
      BY <1>3, <2>1, <2>2, <2>3 DEF ServeStep
  <1>4. ASSUME (\E sd \in Sides : SenderStep(sd)) \/ SenderNotified
        PROVE  Goal
    <2>1. sender["server"].pc = "notified" => queue["server"] = <<>>
      <3>1. "server" \in Sides
        BY DEF Sides
      <3> QED
        BY <3>1 DEF Ending, FinishOrder, Drained
    <2>2. Path(e)' = Path(e) \/ Appended(Path(e)', Path(e), Finished)
      BY <1>0, <1>4, <2>1, PathSender
    <2>3. Finished \in Msgs(e) /\ Adds(e, Finished)
      BY DEF Msgs, MainMsgs, Adds
    <2>4. ASSUME conn # "up" PROVE Path(e)' = Path(e)
      <3>1. net' = net /\ UNCHANGED <<receiver, conn>>
        BY <1>4, <2>4 DEF SenderStep, SenderTake, SenderWrite, SenderDrained, SenderNotified
      <3> QED
        BY <2>4, <3>1 DEF Path, Held
    <2> QED
      BY <1>a, <2>2, <2>3, <2>4 DEF Goal
  <1>5. ASSUME NEW sd \in Sides, ReceiverStep(sd)
        PROVE  Goal
    <2>1. CASE e = sd
      BY <1>0, <1>5, <1>a, <2>1, PathReceiver
    <2>2. CASE e = Peer(sd)
      <3>1. CASE Path(e)' = Path(e)
        BY <1>a, <3>1
      <3>2. CASE Path(e)' = <<>>
        <4>1. \A C, D : ~Has(Path(e)', C) /\ NoneAfter(Path(e)', C, D)
          BY <3>2, EmptyOrder
        <4> QED
          BY <1>5, <4>1 DEF Goal, Kept
      <3>3. ASSUME NEW x \in Msgs(e), Taken(Path(e), x, Path(e)')
            PROVE  Goal
        <4>1. Path(e)' \in Seq(Msgs(e)')
          <5>1. LinkTypes'
            BY <1>0, InvNext DEF Inv
          <5> QED
            BY <5>1, PathTypesAfter
        <4>2. x \in Msgs(e)'
          BY <1>0, KnownGrows
        <4>3. Kept(Path(e)', Path(e))
          <5> DEFINE p == Path(e)
                     r == Path(e)'
                     S == Msgs(e)'
          <5>1. r \in Seq(S) /\ x \in S /\ Taken(p, x, r)
            BY <3>3, <4>1, <4>2
          <5> HIDE DEF p, r, S
          <5>2. ASSUME NEW C, NEW D
                PROVE  /\ Has(r, C) => Has(p, C)
                       /\ NoneAfter(p, C, D) => NoneAfter(r, C, D)
            BY <5>1, TakenOrder
          <5>3. Kept(r, p)
            BY <5>2 DEF Kept
          <5> QED
            BY <5>3 DEF p, r
        <4> QED
          BY <1>5, <4>3 DEF Goal
      <3>4. \/ Path(e)' = Path(e)
            \/ \E x \in StreamMsgs(e) \cup MainMsgs(e) : Taken(Path(e), x, Path(e)')
            \/ Path(e)' = <<>>
        BY <1>0, <1>5, <2>2, PathReceiver
      <3> QED
        BY <3>1, <3>2, <3>3, <3>4 DEF Msgs
    <2> QED
      BY <2>1, <2>2, SideFacts
  <1>6. ASSUME ClientStep \/ ConnectionLost
        PROVE  Goal
    <2>1. Kept(Path(e)', Path(e))
      BY <1>0, <1>6, PathLost DEF Kept
    <2>2. conn' = "up" => UNCHANGED <<queue, net, conn, sender, receiver>>
      BY <1>6, ClientFrames
    <2>3. Path(e)' = Path(e) \/ conn' # "up"
      BY <2>2, PathSame
    <2> QED
      BY <2>1, <2>3 DEF Goal
  <1>7. UNCHANGED vars => UNCHANGED <<queue, net, conn, sender, receiver>>
    BY DEF vars, linkVars
  <1>8. Goal
    BY <1>1, <1>2, <1>3, <1>4, <1>5, <1>6, <1>7, <1>c DEF Next, Terminated
  <1> QED
    BY <1>8 DEF Goal

-----------------------------------------------------------------------------
(* What a stream's close and the exit status say.                          *)

ForSinkOf(s) == [id : {s}, act : {"Data", "SourceClosed"}, n : Nat]
CloseOf(s) == [id : {s}, act : {"SourceClosed"}, n : Nat]
Closes == [act : {"SourceClosed"}, n : Nat]
Exits == {Exit(st) : st \in Statuses}

\* The receiver of a side still takes messages.
Routing(sd) == receiver[sd].pc \in {"recv", "route"}

\* The sink of a stream has been told to close, or is about to be.
Closing(s) == snk[s].pc \in {"shutdown", "done"} \/ Has(snkRx[s], Closes)

\* Behind a stream's SourceClosed nothing more comes for its sink.  A sink that
\* closes while its receiver takes messages does so because of it.
CloseOrder(s) ==
    LET way == Path(SourceSide(s)) IN
    /\ NoneAfter(way, CloseOf(s), ForSinkOf(s))
    /\ Has(way, CloseOf(s)) => src[s].pc = "done"
    /\ Closing(s) /\ Routing(SinkSide(s)) => src[s].pc = "done" /\ ~Has(way, ForSinkOf(s))

\* serve() has yet to report the status.
Reporting == serve.pc \in {"wait", "sinkclosed", "exit"}

\* The status is reported once.
ExitOrder ==
    LET way == Path("server") IN
    /\ Reporting => ~Has(way, Exits)
    /\ NoneAfter(way, Exits, Exits)
    /\ Routing("client") /\ exit # NoStatus => ~Reporting /\ ~Has(way, Exits)

NoFailedSink == \A s \in Streams : snk[s].pc # "failed"

\* A receiver takes messages until it stops, and then never again.
LEMMA RoutingStays ==
    ASSUME Inv, [Next]_vars, NEW sd \in Sides, Routing(sd)'
    PROVE  Routing(sd) /\ ~ReceiverShutdown(sd) /\ ~ReceiverShutdownEnd(sd) /\ ~ReceiverError(sd)
  <1>1. LinkTypes
    BY DEF Inv
  <1>2. CASE ReceiverStep(sd)
    BY <1>1, <1>2, ReceiverStates DEF ReceiverStep, Routing
  <1>3. CASE ~ReceiverStep(sd)
    BY <1>3, ReceiverTurns DEF ReceiverStep, Routing
  <1> QED
    BY <1>2, <1>3

\* A source that puts something for a sink on the way has not ended; when it is
\* SourceClosed, it has ended thereby.
LEMMA AddsForSink ==
    ASSUME Inv, NEW s \in Streams, NEW m, Adds(SourceSide(s), m), m \in ForSinkOf(s)
    PROVE  /\ ~SourceEnded(src[s])
           /\ m \in CloseOf(s) => src'[s].pc = "done"
  <1>1. m.id = s /\ m.act \in {"Data", "SourceClosed"}
    BY DEF ForSinkOf
  <1>2. s # "main"
    BY DEF Streams
  <1>3. PICK t \in Streams : \/ SourceSend(t) /\ m = StreamMsg(t, SourceMsg(src[t]))
                             \/ SinkSend(t) /\ m = StreamMsg(t, SinkMsg(snk[t]))
                             \/ m = StreamMsg("Stdin", SinkClosed)
    BY <1>1, <1>2 DEF Adds, Finished, WindowSizeChange, Exit
  <1>4. \A u \in Streams : StreamMsg(u, SinkMsg(snk[u])).act \in {"Ack", "SinkClosed"}
    BY DEF StreamMsg, SinkMsg, Ack, SinkClosed
  <1>5. StreamMsg("Stdin", SinkClosed).act = "SinkClosed"
    BY DEF StreamMsg, SinkClosed
  <1>6. SourceSend(t) /\ m = StreamMsg(t, SourceMsg(src[t]))
    BY <1>1, <1>3, <1>4, <1>5
  <1>7. t = s
    BY <1>1, <1>6 DEF StreamMsg
  <1>8. SourceSending(src[s]) /\ src' = [src EXCEPT ![s] = SourceSent(@)]
        /\ src[s] \in SourceState /\ DOMAIN src = Streams
    BY <1>6, <1>7 DEF SourceSend, Inv, TaskTypes
  <1>9. ~SourceEnded(src[s])
    BY <1>8 DEF SourceSending, SourceEnded
  <1>10. ASSUME m \in CloseOf(s) PROVE src'[s].pc = "done"
    <2>1. m.act = "SourceClosed"
      BY <1>10 DEF CloseOf
    <2>2. m.act = SourceMsg(src[s]).act
      BY <1>6, <1>7 DEF StreamMsg
    <2>3. src[s].pc # "send"
      BY <2>1, <2>2 DEF SourceMsg, Data
    <2> QED
      BY <1>8, <2>3 DEF SourceSent, SourceState
  <1> QED
    BY <1>9, <1>10

\* A sink begins to close because SourceClosed has been routed to it, or because the
\* receiver is ending.
LEMMA ClosingBegins ==
    ASSUME Inv, [Next]_vars, NEW s \in Streams, ~Closing(s), Closing(s)'
    PROVE  \/ ReceiverEnded(SinkSide(s))
           \/ ReceiverShutdown(SinkSide(s))
           \/ /\ ReceiverRoute(SinkSide(s))
              /\ receiver[SinkSide(s)].msg[1] \in CloseOf(s)
  <1> DEFINE d == SinkSide(s)
             Goal == \/ ReceiverEnded(d) \/ ReceiverShutdown(d)
                     \/ ReceiverRoute(d) /\ receiver[d].msg[1] \in CloseOf(s)
  <1>0. /\ snk[s] \in SinkState /\ snkRx[s] \in Seq(SourceAction)
        /\ DOMAIN snk = Streams /\ DOMAIN snkRx = Streams /\ LinkTypes
    BY DEF Inv, TaskTypes
  <1>1. snk[s].pc \notin {"shutdown", "done"} /\ ~Has(snkRx[s], Closes)
    BY DEF Closing
  <1>2. \A a \in SourceAction : a.act = "SourceClosed" => a \in Closes
    BY DEF SourceAction, Closes
  <1>3. ~(snk'[s] = snk[s] /\ snkRx'[s] = snkRx[s])
    BY <1>1 DEF Closing
  <1>4. ASSUME NEW t \in Streams, SinkStep(t) \/ SinkWrite(t)
        PROVE  Goal
    <2>1. t = s
      <3>1. t # s => snk'[s] = snk[s] /\ snkRx'[s] = snkRx[s]
        BY <1>0, <1>4 DEF SinkStep, SinkTake, SinkSend, SinkFinish, SinkWrite
      <3> QED
        BY <1>3, <3>1
    <2>2. CASE SinkTake(s)
      <3>1. CASE snkRx[s] = <<>> /\ RouterDropped(d)
        BY <3>1 DEF RouterDropped
      <3>2. CASE snkRx[s] # <<>>
        <4> DEFINE h == Head(snkRx[s])
                   r == Tail(snkRx[s])
        <4>1. /\ h \in SourceAction /\ ~(h \in Closes)
              /\ ~Has(r, Closes)
          <5>1. h \in SourceAction
            BY <1>0, <3>2, TailFacts
          <5>2. (h \in Closes => Has(snkRx[s], Closes)) /\ (Has(r, Closes) => Has(snkRx[s], Closes))
            BY <1>0, <3>2, LastFacts
          <5> QED
            BY <1>1, <5>1, <5>2
        <4>2. snk'[s] = SinkRecv(snk[s], h) /\ snkRx'[s] = r
          BY <1>0, <2>2, <3>2 DEF SinkTake
        <4> HIDE DEF h, r
        <4>3. h.act # "SourceClosed"
          BY <1>2, <4>1
        <4>4. snk'[s].pc \in {"notify", "write"}
          BY <1>0, <4>2, <4>3 DEF SinkRecv, SinkState
        <4> QED
          BY <4>1, <4>2, <4>4 DEF Closing
      <3> QED
        BY <2>2, <3>1, <3>2 DEF SinkTake
    <2>3. CASE SinkSend(s)
      <3>1. snkRx' = snkRx /\ snk'[s].pc \in {"flush", "recv"}
        BY <1>0, <2>3 DEF SinkSend, SinkSent, SinkState
      <3> QED
        BY <1>1, <3>1 DEF Closing
    <2>4. CASE SinkFinish(s)
      BY <1>1, <2>4 DEF SinkFinish
    <2>5. CASE SinkWrite(s)
      <3>1. snkRx' = snkRx /\ snk'[s].pc \in {"ack", "recv", "notify", "failed"}
        BY <1>0, <2>5 DEF SinkWrite, SinkIo, SinkState
      <3> QED
        BY <1>1, <3>1 DEF Closing
    <2> QED
      BY <1>4, <2>1, <2>2, <2>3, <2>4, <2>5 DEF SinkStep
  <1>5. ASSUME NEW t \in Streams, SourceIn(t) \/ SourceStep(t)
        PROVE  Goal
    <2>1. snk' = snk /\ snkRx' = snkRx
      BY <1>5 DEF SourceIn, SourceStep, ReadPacket, EndOfInput, SourceSend, SourceTake
    <2> QED
      BY <1>3, <2>1
  <1>6. ASSUME NEW sd \in Sides, ReceiverStep(sd)
        PROVE  Goal
    <2>1. snk' = snk
      BY <1>6, ReceiverFrames
    <2>2. snkRx'[s] # snkRx[s]
      BY <1>3, <2>1
    <2>3. CASE ReceiverRoute(sd)
      <3> DEFINE m == receiver[sd].msg[1]
      <3>1. m \in StreamMsgs(Peer(sd)) /\ Peer(sd) \in Sides
        <4>1. receiver[sd].pc = "route"
          BY <2>3 DEF ReceiverRoute
        <4> QED
          BY <1>0, <4>1, InHand, SideFacts
      <3> HIDE DEF m
      <3>2. ForSink(m) /\ m.id = s /\ snkRx'[s] = Append(snkRx[s], ActionOf(m))
        BY <1>0, <2>2, <2>3 DEF ReceiverRoute, m
      <3>3. SourceSide(s) = Peer(sd) /\ ActionOf(m) \in SourceAction
        BY <3>1, <3>2, RoutedMsgs
      <3>4. d = sd
        BY <3>3, SideFacts
      <3>5. ActionOf(m) \in Closes
        <4>1. Has(snkRx'[s], Closes)
          BY <1>1, <2>1 DEF Closing
        <4>2. Has(Append(snkRx[s], ActionOf(m)), Closes) <=>
                Has(snkRx[s], Closes) \/ ActionOf(m) \in Closes
          BY <1>0, <3>3, LastFacts
        <4> QED
          BY <1>1, <3>2, <4>1, <4>2
      <3>6. m \in CloseOf(s)
        <4>1. m.act = "SourceClosed"
          BY <3>5 DEF ActionOf, Closes
        <4>2. m \in [id : {x \in Streams : SourceSide(x) = Peer(sd)},
                     act : {"Data", "SourceClosed"}, n : Nat]
          BY <3>1, <4>1 DEF StreamMsgs
        <4> QED
          BY <3>2, <4>1, <4>2 DEF CloseOf
      <3> QED
        BY <2>3, <3>4, <3>6 DEF m
    <2>4. CASE ReceiverShutdown(sd)
      <3>1. s \in Sinks(sd)
        BY <1>0, <2>2, <2>4 DEF ReceiverShutdown
      <3> QED
        BY <2>4, <3>1 DEF Sinks
    <2>5. CASE ReceiverRecv(sd) \/ ReceiverError(sd) \/ ReceiverShutdownEnd(sd)
      BY <2>2, <2>5 DEF ReceiverRecv, ReceiverError, ReceiverShutdownEnd, streamVars
    <2> QED
      BY <1>6, <2>3, <2>4, <2>5 DEF ReceiverStep
  <1>7. UNCHANGED streamVars => snk' = snk /\ snkRx' = snkRx
    BY DEF streamVars
  <1>8. UNCHANGED vars => UNCHANGED streamVars
    BY DEF vars
  <1> HIDE DEF Goal
  <1>9. Goal
    BY <1>3, <1>4, <1>5, <1>6, <1>7, <1>8, WindowFrames, SenderFrames, ServerFrames, ClientFrames
       DEF Next, Terminated
  <1> QED
    BY <1>9 DEF Goal, d

\* A message that is routed, or that is for main(), is the first on the way.
LEMMA TakesFirst ==
    ASSUME Ending, [Next]_vars, NEW sd \in Sides
    PROVE  /\ ReceiverRoute(sd) =>
                FirstOf(receiver[sd].msg[1], Path(Peer(sd)), Path(Peer(sd))')
           /\ ReceiverRecv(sd) /\ Head(net[Peer(sd)]).id \notin Streams =>
                FirstOf(Head(net[Peer(sd)]), Path(Peer(sd)), Path(Peer(sd))')
  <1>0. LinkTypes /\ FailedIsDown /\ Inv /\ Peer(sd) \in Sides
    BY SideFacts DEF Ending, Inv
  <1>1. LinkTypes' /\ Msgs(Peer(sd)) \subseteq Msgs(Peer(sd))'
    BY <1>0, InvNext, KnownGrows DEF Inv
  <1>2. ASSUME NEW x \in Msgs(Peer(sd)), Taken(Path(Peer(sd)), x, Path(Peer(sd))')
        PROVE  FirstOf(x, Path(Peer(sd)), Path(Peer(sd))')
    <2> DEFINE p == Path(Peer(sd))
               r == Path(Peer(sd))'
               S == Msgs(Peer(sd))'
    <2>1. r \in Seq(S) /\ x \in S /\ Taken(p, x, r)
      BY <1>0, <1>1, <1>2, PathTypesAfter
    <2> HIDE DEF p, r, S
    <2>2. ASSUME NEW C, NEW D
          PROVE  /\ x \in C => Has(p, C)
                 /\ Has(p, C) => x \in C \/ Has(r, C)
                 /\ NoneAfter(p, C, D) /\ x \in C => ~Has(r, D)
      BY <2>1, TakenOrder
    <2>3. FirstOf(x, p, r)
      BY <2>2 DEF FirstOf
    <2> QED
      BY <2>3 DEF p, r
  <1>3. ASSUME ReceiverRoute(sd)
        PROVE  FirstOf(receiver[sd].msg[1], Path(Peer(sd)), Path(Peer(sd))')
    <2>1. receiver[sd].pc = "route"
      BY <1>3 DEF ReceiverRoute
    <2>2. ~ReceiverRecv(sd) /\ ~ReceiverError(sd) /\ ReceiverStep(sd)
      BY <1>3, <2>1 DEF ReceiverRecv, ReceiverError, ReceiverStep
    <2>3. /\ receiver[sd].msg[1] \in StreamMsgs(Peer(sd))
          /\ Taken(Path(Peer(sd)), receiver[sd].msg[1], Path(Peer(sd))')
      BY <1>0, <1>3, <2>2, PathReceiver
    <2> QED
      BY <1>2, <2>3 DEF Msgs
  <1>4. ASSUME ReceiverRecv(sd), Head(net[Peer(sd)]).id \notin Streams
        PROVE  FirstOf(Head(net[Peer(sd)]), Path(Peer(sd)), Path(Peer(sd))')
    <2> DEFINE p == Peer(sd)
               n == net[p]
               h == Head(n)
               t == Tail(n)
               m == sender[p].msg
               q == queue[p]
               S == Msgs(p)
    <2>1. /\ m \in Seq(S) /\ q \in Seq(S) /\ n \in Seq(S)
          /\ Path(p) = PathOf(receiver[sd].msg, n, conn, m, q)
          /\ Path(p)' = PathOf(receiver'[sd].msg, net'[p], conn, m, q)
      <3>1. Peer(p) = sd
        BY SideFacts
      <3>2. UNCHANGED <<queue, conn, sender>>
        BY <1>4, ReceiverFrames DEF ReceiverStep
      <3>3. Path(p)' = PathOf(receiver'[sd].msg, net'[p], conn, m, q)
        BY <3>1, <3>2 DEF Path, Held, PathOf
      <3> QED
        BY <1>0, <3>1, <3>3, PathTypes
    <2>2. /\ n # <<>> /\ net'[p] = t /\ receiver[sd].pc = "recv"
          /\ DOMAIN receiver = Sides /\ receiver[sd] \in ReceiverState(sd)
      BY <1>0, <1>4 DEF ReceiverRecv, LinkTypes, Way
    <2>3. receiver[sd].msg = <<>> /\ receiver'[sd].msg = <<>>
      <3>1. receiver[sd].msg = <<>>
        BY <1>0, <2>2, InHand
      <3>2. \/ receiver' = receiver
            \/ \E pc \in {"failed", "done"} : receiver' = [receiver EXCEPT ![sd].pc = pc]
        BY <1>4 DEF ReceiverRecv
      <3> QED
        BY <2>2, <3>1, <3>2 DEF ReceiverState
    <2>4. h \in S /\ Taken(n, h, t)
      BY <2>1, <2>2, TailFacts, HeadFirst
    <2> HIDE DEF m, q, S, n, h, t
    <2>5. /\ PathOf(<<h>>, t, conn, m, q) = PathOf(<<>>, n, conn, m, q)
          /\ Taken(PathOf(<<h>>, t, conn, m, q), h, PathOf(<<>>, t, conn, m, q))
      <3>1. t \in Seq(S)
        BY <2>1, <2>2, TailFacts DEF t
      <3>2. PathOf(<<h>>, t, conn, m, q) = PathOf(<<>>, n, conn, m, q)
        <4>1. PathOf(<<h>>, t, conn, m, q) = (<<h>> \o t) \o (IF conn = "up" THEN m \o q ELSE <<>>)
          BY DEF PathOf
        <4>2. <<>> \o n = n
          BY <2>1, ConcatEmptySeq
        <4> QED
          BY <2>4, <4>1, <4>2 DEF Taken, PathOf
      <3> QED
        BY <2>1, <2>4, <3>1, <3>2, PathArrives
    <2>6. Taken(Path(p), h, Path(p)')
      BY <2>1, <2>2, <2>3, <2>5
    <2> QED
      BY <1>2, <2>4, <2>6 DEF S, h, n
  <1> QED
    BY <1>3, <1>4

\* The close of a stream stays in order.
LEMMA CloseOrderNext ==
    ASSUME Ending, [Next]_vars, NEW s \in Streams, CloseOrder(s)
    PROVE  CloseOrder(s)'
  <1> DEFINE e == SourceSide(s)
             d == SinkSide(s)
             p == Path(e)
             r == Path(e)'
             F == ForSinkOf(s)
             C == CloseOf(s)
  <1>0. Inv /\ e \in Sides /\ d \in Sides /\ e = Peer(d)
    BY SideFacts DEF Ending
  <1>1. /\ NoneAfter(p, C, F)
        /\ Has(p, C) => src[s].pc = "done"
        /\ Closing(s) /\ Routing(d) => src[s].pc = "done" /\ ~Has(p, F)
    BY DEF CloseOrder
  <1>2. src[s].pc = "done" => SourceEnded(src[s]) /\ src'[s].pc = "done"
    BY <1>0, EndsStay DEF Inv, SourceEnded
  <1>3. \/ Kept(r, p)
        \/ \E m \in Msgs(e) : Appended(r, p, m) /\ Adds(e, m)
    BY <1>0, PathStep
  <1>4. p \in Seq(Msgs(e))
    BY <1>0, PathTypes DEF Inv
  <1>5. \A m : Adds(e, m) /\ m \in F => ~SourceEnded(src[s]) /\ (m \in C => src'[s].pc = "done")
    BY <1>0, AddsForSink
  <1>6. \A m \in C : m \in F
    BY DEF ForSinkOf, CloseOf
  <1>7. Routing(d)' => Routing(d) /\ ~ReceiverShutdown(d) /\ ~ReceiverEnded(d)
    BY <1>0, RoutingStays DEF Routing, ReceiverEnded
  <1>8. ~Closing(s) /\ Closing(s)' /\ Routing(d)' => ReceiverRoute(d) /\ receiver[d].msg[1] \in C
    BY <1>0, <1>7, ClosingBegins
  <1>9. ReceiverRoute(d) => FirstOf(receiver[d].msg[1], p, r)
    BY <1>0, TakesFirst
  <1>10. CloseOrder(s)' = (/\ NoneAfter(r, C, F)
                           /\ Has(r, C) => src'[s].pc = "done"
                           /\ Closing(s)' /\ Routing(d)' => src'[s].pc = "done" /\ ~Has(r, F))
    BY DEF CloseOrder
  <1> HIDE DEF p, r, F, C, e, d
  <1>11. ASSUME NEW m \in Msgs(e), Appended(r, p, m), Adds(e, m)
         PROVE  /\ Has(r, C) <=> Has(p, C) \/ m \in C
                /\ Has(r, F) <=> Has(p, F) \/ m \in F
                /\ NoneAfter(r, C, F) <=> NoneAfter(p, C, F) /\ (Has(p, C) => m \notin F)
    <2> DEFINE S == Msgs(e)
    <2>1. p \in Seq(S) /\ m \in S /\ Appended(r, p, m)
      BY <1>4, <1>11
    <2> HIDE DEF S
    <2>2. \A A, B : /\ Has(r, A) <=> Has(p, A) \/ m \in A
                    /\ NoneAfter(r, A, B) <=> NoneAfter(p, A, B) /\ (Has(p, A) => m \notin B)
      BY <2>1, AppendOrder
    <2> QED
      BY <2>2
  <1>12. NoneAfter(r, C, F) /\ (Has(r, C) => src'[s].pc = "done")
    <2>1. CASE Kept(r, p)
      <3>1. (Has(r, C) => Has(p, C)) /\ (NoneAfter(p, C, F) => NoneAfter(r, C, F))
        BY <2>1 DEF Kept
      <3> QED
        BY <1>1, <1>2, <3>1
    <2>2. ASSUME NEW m \in Msgs(e), Appended(r, p, m), Adds(e, m)
          PROVE  NoneAfter(r, C, F) /\ (Has(r, C) => src'[s].pc = "done")
      BY <1>1, <1>2, <1>5, <1>6, <1>11, <2>2
    <2> QED
      BY <1>3, <2>1, <2>2
  <1>13. ASSUME Closing(s)', Routing(d)'
         PROVE  src'[s].pc = "done" /\ ~Has(r, F)
    <2>1. CASE Closing(s)
      <3>1. src[s].pc = "done" /\ ~Has(p, F)
        BY <1>1, <1>7, <1>13, <2>1
      <3>2. CASE Kept(r, p)
        <4>1. Has(r, F) => Has(p, F)
          BY <3>2 DEF Kept
        <4> QED
          BY <1>2, <3>1, <4>1
      <3>3. ASSUME NEW m \in Msgs(e), Appended(r, p, m), Adds(e, m)
            PROVE  ~Has(r, F)
        BY <1>2, <1>5, <1>11, <3>1, <3>3
      <3> QED
        BY <1>2, <1>3, <3>1, <3>2, <3>3
    <2>2. CASE ~Closing(s)
      <3>1. receiver[d].msg[1] \in C /\ FirstOf(receiver[d].msg[1], p, r)
        BY <1>8, <1>9, <1>13, <2>2
      <3>2. Has(p, C) /\ (NoneAfter(p, C, F) => ~Has(r, F))
        BY <3>1 DEF FirstOf
      <3> QED
        BY <1>1, <1>2, <3>2
    <2> QED
      BY <2>1, <2>2
  <1> QED
    BY <1>10, <1>12, <1>13

\* The status is put on the way once, by serve(), that is done with it thereby.
LEMMA AddsExit ==
    ASSUME Inv, NEW m, Adds("server", m), m \in Exits
    PROVE  Reporting /\ ~Reporting'
  <1>1. m.id = "main" /\ m.act = "Exit"
    BY DEF Exits, Exit
  <1>2. \A s \in Streams : \A a : StreamMsg(s, a).id # "main"
    BY DEF Streams, StreamMsg
  <1>3. "Stdin" \in Streams
    BY DEF Streams
  <1>4. ServeExit
    BY <1>1, <1>2, <1>3 DEF Adds, Finished
  <1>5. serve.pc = "exit" /\ serve'.pc = "join"
    BY <1>4 DEF ServeExit, Inv, MainTypes
  <1> QED
    BY <1>5 DEF Reporting

\* The exit status stays the last of its kind.
LEMMA ExitOrderNext ==
    ASSUME Ending, [Next]_vars, ExitOrder
    PROVE  ExitOrder'
  <1> DEFINE p == Path("server")
             r == Path("server")'
  <1>0. Inv /\ "server" \in Sides /\ "client" \in Sides /\ Peer("client") = "server"
    BY DEF Ending, Sides, Peer
  <1>1. /\ Reporting => ~Has(p, Exits)
        /\ NoneAfter(p, Exits, Exits)
        /\ Routing("client") /\ exit # NoStatus => ~Reporting /\ ~Has(p, Exits)
    BY DEF ExitOrder
  <1>2. Reporting' => Reporting
    BY <1>0, EndsStay DEF Inv, Reporting
  <1>3. \/ Kept(r, p)
        \/ \E m \in Msgs("server") : Appended(r, p, m) /\ Adds("server", m)
    BY <1>0, PathStep
  <1>4. p \in Seq(Msgs("server"))
    BY <1>0, PathTypes DEF Inv
  <1>5. \A m : Adds("server", m) /\ m \in Exits => Reporting /\ ~Reporting'
    BY <1>0, AddsExit
  <1>6. Routing("client")' => Routing("client") /\ ~ReceiverShutdownEnd("client")
    BY <1>0, RoutingStays
  <1>7. ReceiverRecv("client") /\ Head(net["server"]).id \notin Streams =>
          FirstOf(Head(net["server"]), p, r)
    BY <1>0, TakesFirst
  <1>8. ExitOrder' = (/\ Reporting' => ~Has(r, Exits)
                      /\ NoneAfter(r, Exits, Exits)
                      /\ Routing("client")' /\ exit' # NoStatus => ~Reporting' /\ ~Has(r, Exits))
    BY DEF ExitOrder, Exits, Exit, NoStatus
  <1>9. exit = NoStatus /\ exit' # NoStatus /\ Routing("client")' =>
          /\ ReceiverRecv("client") /\ Head(net["server"]).id \notin Streams
          /\ Head(net["server"]) \in Exits
    <2> SUFFICES ASSUME exit = NoStatus, exit' # NoStatus, Routing("client")'
                 PROVE  /\ ReceiverRecv("client") /\ Head(net["server"]).id \notin Streams
                        /\ Head(net["server"]) \in Exits
      OBVIOUS
    <2>1. exit' # exit
      OBVIOUS
    <2>2. \E sd \in Sides : ReceiverStep(sd)
      <3>1. UNCHANGED clientVars => exit' = exit
        BY DEF clientVars
      <3>2. UNCHANGED vars => exit' = exit
        BY DEF vars, clientVars
      <3> QED
        BY <2>1, <3>1, <3>2, TaskFrames, WindowFrames, SenderFrames, ServerFrames, ClientFrames
           DEF Next, Terminated
    <2>3. PICK sd \in Sides : ReceiverStep(sd)
      BY <2>2
    <2>4. CASE ReceiverRecv(sd)
      <3> DEFINE h == Head(net[Peer(sd)])
      <3>1. h.act = "Exit"
        BY <2>1, <2>4 DEF ReceiverRecv
      <3>2. h \in Msgs(Peer(sd)) /\ Peer(sd) \in Sides
        <4>1. net[Peer(sd)] # <<>> /\ net[Peer(sd)] \in Seq(Msgs(Peer(sd))) /\ Peer(sd) \in Sides
          BY <1>0, <2>4, SideFacts DEF ReceiverRecv, Inv, LinkTypes, Way
        <4> QED
          BY <4>1, TailFacts
      <3> HIDE DEF h
      <3>3. /\ Peer(sd) = "server" /\ h.n \in Reported /\ h = Exit(h.n)
            /\ h.id \notin Streams
        BY <3>1, <3>2, MainMsgFacts
      <3>4. sd = "client"
        BY <3>3 DEF Peer
      <3>5. h \in Exits
        BY <3>3 DEF Exits, Reported
      <3> QED
        BY <2>4, <3>3, <3>4, <3>5 DEF h
    <2>5. CASE ReceiverRoute(sd)
      <3>1. sd = "client" /\ receiver'[sd].pc = "failed"
        <4>1. /\ sd = "client"
              /\ receiver' = [[receiver EXCEPT ![sd].pc = "recv", ![sd].msg = <<>>]
                                EXCEPT ![sd].pc = "failed"]
          BY <2>1, <2>5 DEF ReceiverRoute
        <4>2. DOMAIN receiver = Sides /\ receiver[sd] \in ReceiverState(sd)
          BY <1>0 DEF Inv, LinkTypes, Way
        <4> QED
          BY <4>1, <4>2 DEF ReceiverState
      <3> QED
        BY <3>1 DEF Routing
    <2>6. CASE ReceiverShutdownEnd(sd)
      <3>1. sd = "client"
        BY <2>1, <2>6 DEF ReceiverShutdownEnd
      <3> QED
        BY <1>6, <2>6, <3>1
    <2>7. CASE ReceiverError(sd) \/ ReceiverShutdown(sd)
      BY <2>1, <2>7 DEF ReceiverError, ReceiverShutdown, clientVars
    <2> QED
      BY <2>3, <2>4, <2>5, <2>6, <2>7 DEF ReceiverStep
  <1> HIDE DEF p, r
  <1>10. ASSUME NEW m \in Msgs("server"), Appended(r, p, m), Adds("server", m)
         PROVE  /\ Has(r, Exits) <=> Has(p, Exits) \/ m \in Exits
                /\ NoneAfter(r, Exits, Exits) <=>
                     NoneAfter(p, Exits, Exits) /\ (Has(p, Exits) => m \notin Exits)
    BY <1>4, <1>10, AppendOrder
  <1>11. Kept(r, p) => /\ Has(r, Exits) => Has(p, Exits)
                       /\ NoneAfter(p, Exits, Exits) => NoneAfter(r, Exits, Exits)
    BY DEF Kept
  <1>12. (Reporting' => ~Has(r, Exits)) /\ NoneAfter(r, Exits, Exits)
    BY <1>1, <1>2, <1>3, <1>5, <1>10, <1>11
  <1>13. ASSUME Routing("client")', exit' # NoStatus
         PROVE  ~Reporting' /\ ~Has(r, Exits)
    <2>1. CASE exit # NoStatus
      <3>1. ~Reporting /\ ~Has(p, Exits)
        BY <1>1, <1>6, <1>13, <2>1
      <3> QED
        BY <1>2, <1>3, <1>5, <1>10, <1>11, <3>1
    <2>2. CASE exit = NoStatus
      <3> DEFINE h == Head(net["server"])
      <3>1. h \in Exits /\ FirstOf(h, p, r)
        BY <1>7, <1>9, <1>13, <2>2
      <3> HIDE DEF h
      <3>2. Has(p, Exits) /\ (NoneAfter(p, Exits, Exits) => ~Has(r, Exits))
        BY <3>1 DEF FirstOf
      <3> QED
        BY <1>1, <1>2, <3>2
    <2> QED
      BY <2>1, <2>2
  <1> QED
    BY <1>8, <1>12, <1>13

\* The order in which the streams close and the status is reported.
Order == Ending /\ ExitOrder /\ \A s \in Streams : CloseOrder(s)

\* At first nothing is on the way, but the close of a terminal's stream of errors.
LEMMA InitPath ==
    ASSUME Init, NEW sd \in Sides
    PROVE  \/ Path(sd) = <<>>
           \/ sd = "server" /\ Pty /\ Path(sd) = <<StreamMsg("Stderr", SourceClosed)>>
  <1>1. receiver[Peer(sd)].msg = <<>> /\ sender[sd].msg = <<>> /\ net[sd] = <<>> /\ conn = "up"
    BY SideFacts DEF Init
  <1>2. queue[sd] \in Seq(Msgs(sd))
    BY InvInit DEF Inv, LinkTypes, Way
  <1>3. Path(sd) = <<>> \o <<>> \o (<<>> \o queue[sd])
    BY <1>1 DEF Path, Held
  <1>4. <<>> \o queue[sd] = queue[sd]
    BY <1>2, ConcatEmptySeq
  <1>5. <<>> \in Seq(Msgs(sd)) /\ <<>> \o <<>> = <<>>
    OBVIOUS
  <1>6. Path(sd) = queue[sd]
    BY <1>3, <1>4, <1>5
  <1> QED
    BY <1>6 DEF Init

\* At first only a terminal's stream of errors is closed.
LEMMA OrderInit == Init => Order
  <1> SUFFICES ASSUME Init PROVE Order
    OBVIOUS
  <1>1. Inv /\ FailedIsDown /\ NoSource /\ FinishOrder
    BY InvInit, FinishInit
  <1> DEFINE x == StreamMsg("Stderr", SourceClosed)
  <1>3. ASSUME NEW sd \in Sides
        PROVE  Path(sd) = <<>> \/ (sd = "server" /\ Pty /\ Path(sd) = <<x>>)
    BY InitPath
  <1>4. \A C, D : /\ ~Has(<<>>, C) /\ NoneAfter(<<>>, C, D)
                  /\ (Has(<<x>>, C) <=> x \in C) /\ NoneAfter(<<x>>, C, D)
    BY EmptyOrder, OneOrder
  <1>5. /\ x \notin Exits
        /\ \A s \in Streams : x \in CloseOf(s) => s = "Stderr"
    BY DEF StreamMsg, Exits, Exit, CloseOf
  <1> HIDE DEF x
  <1>6. "server" \in Sides /\ exit = NoStatus
    BY DEF Sides, Init
  <1>7. ~Has(Path("server"), Exits) /\ NoneAfter(Path("server"), Exits, Exits)
    BY <1>3, <1>4, <1>5, <1>6
  <1>8. ExitOrder
    BY <1>6, <1>7 DEF ExitOrder
  <1>9. ASSUME NEW s \in Streams
        PROVE  CloseOrder(s)
    <2>1. ~Closing(s)
      <3>1. snk[s] = SinkNew /\ snkRx[s] = <<>>
        BY DEF Init
      <3>2. ~Has(snkRx[s], Closes)
        BY <1>4, <3>1
      <3> QED
        BY <3>1, <3>2 DEF Closing, SinkNew
    <2>2. NoneAfter(Path(SourceSide(s)), CloseOf(s), ForSinkOf(s))
      BY <1>3, <1>4, SideFacts
    <2>3. Has(Path(SourceSide(s)), CloseOf(s)) => src[s].pc = "done"
      <3>1. Has(Path(SourceSide(s)), CloseOf(s)) => s = "Stderr" /\ Pty
        BY <1>3, <1>4, <1>5, SideFacts
      <3>2. s = "Stderr" /\ Pty => src[s].pc = "done"
        BY DEF Init, HasSource
      <3> QED
        BY <3>1, <3>2
    <2> QED
      BY <2>1, <2>2, <2>3 DEF CloseOrder
  <1> QED
    BY <1>1, <1>8, <1>9 DEF Order, Ending

\* Every step keeps the order.
LEMMA OrderNext == Order /\ [Next]_vars => Order'
  <1>1. Order /\ [Next]_vars => ExitOrder'
    BY ExitOrderNext DEF Order
  <1>2. Order /\ [Next]_vars => \A s \in Streams : CloseOrder(s)'
    BY CloseOrderNext DEF Order
  <1> QED
    BY <1>1, <1>2, EndingNext DEF Order

\* In every reachable state the messages are in order: what Finished, the exit
\* status and the close of a stream say is true and comes last.
THEOREM OrderInvariance == Spec => []Order
  BY OrderInit, OrderNext, PTL DEF Spec

-----------------------------------------------------------------------------
(* Receivers.                                                              *)

\* A sink fails by a write or a flush with an error that is not BrokenPipe, and by
\* nothing else.
LEMMA NoFailedSinkNext ==
    ASSUME \A s \in Streams : "other" \notin WriteResults[s], Inv, NoFailedSink, [Next]_vars
    PROVE  NoFailedSink'
  <1> SUFFICES ASSUME NEW s \in Streams PROVE snk'[s].pc # "failed"
    BY DEF NoFailedSink
  <1>1. snk[s] \in SinkState /\ DOMAIN snk = Streams /\ snk[s].pc # "failed"
    BY DEF Inv, TaskTypes, NoFailedSink
  <1>2. ASSUME NEW t \in Streams, SinkStep(t)
        PROVE  snk'[s].pc # "failed"
    <2>1. CASE SinkTake(t)
      <3>1. \/ snk' = [snk EXCEPT ![t] = SinkRecv(@, Head(snkRx[t]))]
            \/ snk' = [snk EXCEPT ![t] = SinkRecvNone(@)]
        BY <2>1 DEF SinkTake
      <3>2. ASSUME NEW a
            PROVE  SinkRecv(snk[s], a).pc # "failed"
        BY <1>1 DEF SinkRecv, SinkState
      <3>3. SinkRecvNone(snk[s]).pc # "failed"
        BY <1>1 DEF SinkRecvNone, SinkState
      <3>4. \/ snk'[s] = snk[s]
            \/ snk'[s] = SinkRecv(snk[s], Head(snkRx[t]))
            \/ snk'[s] = SinkRecvNone(snk[s])
        BY <1>1, <3>1
      <3> QED
        BY <1>1, <3>2, <3>3, <3>4
    <2>2. CASE SinkSend(t)
      BY <1>1, <2>2 DEF SinkSend, SinkSent, SinkState
    <2>3. CASE SinkFinish(t)
      BY <1>1, <2>3 DEF SinkFinish, SinkShutdown, SinkState
    <2> QED
      BY <1>2, <2>1, <2>2, <2>3 DEF SinkStep
  <1>3. ASSUME NEW t \in Streams, SinkWrite(t)
        PROVE  snk'[s].pc # "failed"
    <2>1. PICK res \in WriteResults[t] : snk' = [snk EXCEPT ![t] = SinkIo(@, res)]
      BY <1>3 DEF SinkWrite
    <2>2. res \in {"ok", "broken"}
      BY SessionAssumption DEF IoResult
    <2> QED
      BY <1>1, <2>1, <2>2 DEF SinkIo, SinkState
  <1>4. ASSUME NEW t \in Streams, SourceIn(t) \/ SourceStep(t)
        PROVE  snk' = snk
    BY <1>4 DEF SourceIn, SourceStep, ReadPacket, EndOfInput, SourceSend, SourceTake
  <1>5. UNCHANGED vars \/ UNCHANGED streamVars => snk' = snk
    BY DEF vars, streamVars
  <1>6. (\E sd \in Sides : ReceiverStep(sd)) => snk' = snk
    BY ReceiverFrames
  <1> QED
    BY <1>1, <1>2, <1>3, <1>4, <1>5, <1>6, WindowFrames, SenderFrames, ServerFrames, ClientFrames
       DEF Next, Terminated

\* No receiver is ended by a message: none comes for a sink that has ended, and no
\* second exit status.
LEMMA ReceiversSurviveNext ==
    ASSUME Order, NoFailedSink, ReceiversSurvive, [Next]_vars
    PROVE  ReceiversSurvive'
  <1> SUFFICES ASSUME NEW sd \in Sides, receiver'[sd].pc = "failed" PROVE FALSE
    BY DEF ReceiversSurvive
  <1>0. Ending /\ Inv /\ LinkTypes /\ receiver[sd].pc # "failed"
    BY DEF Order, Ending, Inv, ReceiversSurvive
  <1>1. ReceiverStep(sd)
    BY <1>0, ReceiverTurns
  <1>2. CASE ReceiverRoute(sd)
    <2> DEFINE x == receiver[sd].msg[1]
    <2>1. receiver[sd].pc = "route" /\ DOMAIN receiver = Sides
          /\ receiver[sd] \in ReceiverState(sd)
      BY <1>0, <1>2 DEF ReceiverRoute, LinkTypes, Way
    <2>2. x \in StreamMsgs(Peer(sd)) /\ Peer(sd) \in Sides
      BY <1>0, <2>1, InHand, SideFacts
    <2>3. FirstOf(x, Path(Peer(sd)), Path(Peer(sd))')
      BY <1>0, <1>2, TakesFirst
    <2>4. \/ ForSink(x) /\ SinkEnded(snk[x.id])
          \/ receiver' = [receiver EXCEPT ![sd].pc = "recv", ![sd].msg = <<>>]
      BY <1>2 DEF ReceiverRoute
    <2> HIDE DEF x
    <2>5. ForSink(x) /\ SinkEnded(snk[x.id])
      BY <2>1, <2>4 DEF ReceiverState
    <2>6. x.id \in Streams /\ SourceSide(x.id) = Peer(sd) /\ SinkSide(x.id) = sd
      <3>1. x.id \in Streams /\ SourceSide(x.id) = Peer(sd)
        BY <2>2, <2>5, RoutedMsgs
      <3> QED
        BY <3>1, SideFacts
    <2>7. Closing(x.id) /\ Routing(sd)
      BY <2>1, <2>5, <2>6 DEF SinkEnded, Closing, Routing, NoFailedSink
    <2>8. ~Has(Path(Peer(sd)), ForSinkOf(x.id))
      BY <2>6, <2>7 DEF Order, CloseOrder
    <2>9. x \in ForSinkOf(x.id)
      <3>1. x \in [id : {s \in Streams : SourceSide(s) = Peer(sd)},
                   act : {"Data", "SourceClosed"}, n : Nat]
        BY <2>2, <2>5 DEF StreamMsgs, ForSink
      <3> QED
        BY <2>5, <3>1 DEF ForSinkOf
    <2> QED
      BY <2>3, <2>8, <2>9 DEF FirstOf
  <1>3. CASE ReceiverRecv(sd)
    <2> DEFINE h == Head(net[Peer(sd)])
    <2>1. receiver[sd].pc = "recv" /\ DOMAIN receiver = Sides
          /\ receiver[sd] \in ReceiverState(sd)
      BY <1>0, <1>3 DEF ReceiverRecv, LinkTypes, Way
    <2>2. h \in Msgs(Peer(sd)) /\ Peer(sd) \in Sides
      <3>1. net[Peer(sd)] # <<>> /\ net[Peer(sd)] \in Seq(Msgs(Peer(sd))) /\ Peer(sd) \in Sides
        BY <1>0, <1>3, SideFacts DEF ReceiverRecv, LinkTypes, Way
      <3> QED
        BY <3>1, TailFacts
    <2>3. h.act = "Exit" /\ exit # NoStatus
      <3>1. \/ h.act = "Exit" /\ exit # NoStatus
            \/ receiver' = receiver
            \/ receiver' = [receiver EXCEPT ![sd].pc = "route", ![sd].msg = <<h>>]
            \/ receiver' = [receiver EXCEPT ![sd].pc = "done"]
        BY <1>3 DEF ReceiverRecv
      <3> HIDE DEF h
      <3> QED
        BY <1>0, <2>1, <3>1 DEF ReceiverState
    <2>4. h.id \notin Streams => FirstOf(h, Path(Peer(sd)), Path(Peer(sd))')
      BY <1>0, <1>3, TakesFirst
    <2> HIDE DEF h
    <2>5. /\ Peer(sd) = "server" /\ h.n \in Reported /\ h = Exit(h.n)
          /\ h.id \notin Streams
      BY <2>2, <2>3, MainMsgFacts
    <2>6. sd = "client" /\ h \in Exits
      BY <2>5 DEF Peer, Exits, Reported
    <2>7. ~Has(Path("server"), Exits)
      BY <2>1, <2>3, <2>6 DEF Order, ExitOrder, Routing
    <2> QED
      BY <2>4, <2>5, <2>6, <2>7 DEF FirstOf
  <1>4. CASE ReceiverError(sd) \/ ReceiverShutdown(sd) \/ ReceiverShutdownEnd(sd)
    BY <1>0, <1>4, ReceiverStates
  <1> QED
    BY <1>1, <1>2, <1>3, <1>4 DEF ReceiverStep

\* As long as writes fail with BrokenPipe only, no receiver is ended by a message it
\* cannot deliver, nor by a second exit status (Session.tla): what is sent to a sink is
\* there before the sink closes, however the tasks and the connection interleave.
THEOREM ReceiversSurviveCorrect ==
    ASSUME \A s \in Streams : "other" \notin WriteResults[s]
    PROVE  Spec => []ReceiversSurvive
  <1>1. Init => NoFailedSink /\ ReceiversSurvive
    BY DEF Init, NoFailedSink, ReceiversSurvive, SinkNew
  <1>2. Order /\ NoFailedSink /\ ReceiversSurvive /\ [Next]_vars
          => NoFailedSink' /\ ReceiversSurvive'
    BY NoFailedSinkNext, ReceiversSurviveNext DEF Order, Ending
  <1> QED
    BY <1>1, <1>2, OrderInvariance, PTL DEF Spec

-----------------------------------------------------------------------------
(* The window sizes.                                                       *)

SizeOf(n) == {WindowSizeChange(n)}
Smaller(n) == {WindowSizeChange(k) : k \in {j \in Nat : j < n}}
Bigger(n) == {WindowSizeChange(k) : k \in {j \in Nat : j > n}}

\* The sizes on the way grow towards the one that the window_change task has read
\* last, and none is smaller than the one applied last.
SizeOrder ==
    LET way == Path("client") IN
    /\ pty <= winch.n
    /\ ~Has(way, Bigger(winch.n))
    /\ ~Has(way, Smaller(pty))
    /\ \A n \in Nat : NoneAfter(way, SizeOf(n), Smaller(n))

\* Sets of sizes.
LEMMA SizeSets ==
    /\ \A n \in Nat, k \in Nat :
         /\ WindowSizeChange(k) \in SizeOf(n) <=> k = n
         /\ WindowSizeChange(k) \in Smaller(n) <=> k < n
         /\ WindowSizeChange(k) \in Bigger(n) <=> k > n
    /\ \A n \in Nat, k \in Nat : \A q :
         /\ Has(q, SizeOf(n)) /\ n > k => Has(q, Bigger(k))
         /\ Has(q, SizeOf(n)) /\ n < k => Has(q, Smaller(k))
    /\ \A n \in Nat : \A x : x \in Smaller(n) \/ x \in Bigger(n) =>
         \E k \in Nat : x = WindowSizeChange(k)
    /\ \A n \in Nat, k \in Nat : \A q : Has(q, Bigger(k)) /\ n <= k => Has(q, Bigger(n))
  <1>1. \A n, k : WindowSizeChange(k) = WindowSizeChange(n) <=> k = n
    BY DEF WindowSizeChange
  <1>2. \A n \in Nat, k \in Nat :
          /\ WindowSizeChange(k) \in SizeOf(n) <=> k = n
          /\ WindowSizeChange(k) \in Smaller(n) <=> k < n
          /\ WindowSizeChange(k) \in Bigger(n) <=> k > n
    BY <1>1 DEF SizeOf, Smaller, Bigger
  <1>3. \A n \in Nat : \A x : x \in Smaller(n) \/ x \in Bigger(n) =>
          \E k \in Nat : x = WindowSizeChange(k)
    BY DEF Smaller, Bigger
  <1>4. \A n \in Nat, k \in Nat : n <= k => Bigger(k) \subseteq Bigger(n)
    BY DEF Bigger
  <1>5. \A n \in Nat : \A x \in SizeOf(n) : x = WindowSizeChange(n)
    BY DEF SizeOf
  <1>6. \A n \in Nat, k \in Nat : /\ n > k => SizeOf(n) \subseteq Bigger(k)
                                  /\ n < k => SizeOf(n) \subseteq Smaller(k)
    BY <1>2, <1>5
  <1>7. \A q, C, D : C \subseteq D /\ Has(q, C) => Has(q, D)
    BY DEF Has
  <1> QED
    BY <1>2, <1>3, <1>4, <1>6, <1>7

\* The window_change task reads the size anew for each message.
LEMMA SizeGrows ==
    ASSUME Inv, [Next]_vars
    PROVE  /\ winch.n \in Nat /\ winch'.n \in Nat /\ pty \in Nat
           /\ winch.n <= winch'.n
  <1>1. MainTypes
    BY DEF Inv
  <1>2. winch.n \in 0..term /\ term \in Nat /\ winch = [pc |-> winch.pc, n |-> winch.n]
        /\ pty \in 0..term
    BY <1>1 DEF MainTypes
  <1>3. CASE Resize \/ WindowStep
    <2>1. winch' = winch \/ winch'.n = term \/ winch'.n = winch.n
      BY <1>2, <1>3 DEF Resize, WindowStep, WindowSignal, WindowSend, WindowEnd
    <2> QED
      BY <1>2, <2>1
  <1>4. CASE winch' = winch
    BY <1>2, <1>4
  <1>5. ASSUME NEW s \in Streams, SourceIn(s) \/ SourceStep(s) \/ SinkStep(s) \/ SinkWrite(s)
        PROVE  winch' = winch
    BY <1>5, TaskFrames DEF windowVars
  <1>6. ASSUME NEW sd \in Sides, ReceiverStep(sd)
        PROVE  winch' = winch
    BY <1>6, ReceiverFrames
  <1>7. (\E sd \in Sides : SenderStep(sd)) \/ SenderNotified => winch' = winch
    BY SenderFrames DEF windowVars
  <1>8. UNCHANGED vars \/ UNCHANGED windowVars => winch' = winch
    BY DEF vars, windowVars
  <1> QED
    BY <1>3, <1>4, <1>5, <1>6, <1>7, <1>8, ServerFrames, ClientFrames
       DEF Next, Terminated, windowVars

\* The server applies a size when it takes it off the way, and at no other time.
LEMMA AppliesFirst ==
    ASSUME Ending, [Next]_vars, pty' # pty
    PROVE  \E n \in Nat : /\ pty' = n
                          /\ FirstOf(WindowSizeChange(n), Path("client"), Path("client")')
  <1>0. Inv /\ LinkTypes /\ MainTypes
    BY DEF Ending, Inv
  <1>1. \E sd \in Sides : ReceiverStep(sd)
    <2>1. UNCHANGED vars \/ UNCHANGED windowVars => pty' = pty
      BY DEF vars, windowVars
    <2> QED
      BY <2>1, TaskFrames, WindowFrames, SenderFrames, ServerFrames, ClientFrames
         DEF Next, Terminated
  <1>2. PICK sd \in Sides : ReceiverStep(sd)
    BY <1>1
  <1>3. ReceiverRecv(sd)
    BY <1>2 DEF ReceiverStep, ReceiverRoute, ReceiverError, ReceiverShutdown,
                ReceiverShutdownEnd, windowVars
  <1> DEFINE h == Head(net[Peer(sd)])
  <1>4. h.act = "WindowSizeChange" /\ pty' = h.n
    BY <1>3 DEF ReceiverRecv
  <1>5. h \in Msgs(Peer(sd)) /\ Peer(sd) \in Sides
    <2>1. net[Peer(sd)] # <<>> /\ net[Peer(sd)] \in Seq(Msgs(Peer(sd))) /\ Peer(sd) \in Sides
      BY <1>0, <1>3, SideFacts DEF ReceiverRecv, LinkTypes, Way
    <2> QED
      BY <2>1, TailFacts
  <1>6. h.id \notin Streams => FirstOf(h, Path(Peer(sd)), Path(Peer(sd))')
    BY <1>3, TakesFirst
  <1> HIDE DEF h
  <1>7. Peer(sd) = "client" /\ h.n \in 0..term /\ term \in Nat
    BY <1>0, <1>4, <1>5, MainMsgFacts DEF MainTypes
  <1>8. h \in {WindowSizeChange(n) : n \in 0..term}
    <2>1. h \notin StreamMsgs("client") /\ h # Finished
      BY <1>4, <1>5, <1>7, MainMsgFacts DEF Finished
    <2> QED
      BY <1>5, <1>7, <2>1 DEF Msgs, MainMsgs
  <1>9. h = WindowSizeChange(h.n) /\ h.id \notin Streams /\ h.n \in Nat
    BY <1>7, <1>8 DEF WindowSizeChange, Streams
  <1> QED
    BY <1>4, <1>6, <1>7, <1>9

\* What is put on the way is the size read last, or no size.
LEMMA AddsSize ==
    ASSUME Inv, NEW m, Adds("client", m), NEW n \in Nat, m = WindowSizeChange(n)
    PROVE  n = winch.n
  <1>1. m.id = "main" /\ m.act = "WindowSizeChange"
    BY DEF WindowSizeChange
  <1>2. \A s \in Streams : \A a : StreamMsg(s, a).id # "main"
    BY DEF Streams, StreamMsg
  <1>3. m = WindowSizeChange(winch.n)
    BY <1>1, <1>2 DEF Adds, Finished
  <1> QED
    BY <1>3 DEF WindowSizeChange

\* The sizes stay in order, and the server's grows.
LEMMA SizeOrderNext ==
    ASSUME Ending, [Next]_vars, SizeOrder
    PROVE  SizeOrder' /\ pty' >= pty
  <1> DEFINE p == Path("client")
             r == Path("client")'
             w == winch.n
             v == winch'.n
  <1>0. Inv /\ "client" \in Sides
    BY DEF Ending, Sides
  <1>1. /\ pty <= w
        /\ ~Has(p, Bigger(w))
        /\ ~Has(p, Smaller(pty))
        /\ \A n \in Nat : NoneAfter(p, SizeOf(n), Smaller(n))
    BY DEF SizeOrder
  <1>2. w \in Nat /\ v \in Nat /\ w <= v /\ pty \in Nat
    BY <1>0, SizeGrows
  <1>3. \/ Kept(r, p)
        \/ \E m \in Msgs("client") : Appended(r, p, m) /\ Adds("client", m)
    BY <1>0, PathStep
  <1>4. p \in Seq(Msgs("client"))
    BY <1>0, PathTypes DEF Inv
  <1>5. \A m : \A n \in Nat : Adds("client", m) /\ m = WindowSizeChange(n) => n = w
    BY <1>0, AddsSize
  <1>6. pty' # pty =>
          \E n \in Nat : pty' = n /\ FirstOf(WindowSizeChange(n), p, r)
    BY AppliesFirst
  <1>7. SizeOrder' = (/\ pty' <= v
                      /\ ~Has(r, Bigger(v))
                      /\ ~Has(r, Smaller(pty'))
                      /\ \A n \in Nat : NoneAfter(r, SizeOf(n), Smaller(n)))
    BY DEF SizeOrder, SizeOf, Smaller, Bigger, WindowSizeChange
  <1> HIDE DEF p, r, w, v
  <1>8. ASSUME NEW m \in Msgs("client"), Appended(r, p, m)
        PROVE  \A C, D : /\ Has(r, C) <=> Has(p, C) \/ m \in C
                         /\ NoneAfter(r, C, D) <=> NoneAfter(p, C, D) /\ (Has(p, C) => m \notin D)
    BY <1>4, <1>8, AppendOrder
  <1>9. \A n \in Nat : Has(r, Smaller(n)) => Has(p, Smaller(n)) \/ w < n
    BY <1>2, <1>3, <1>5, <1>8, SizeSets DEF Kept
  <1>10. \A n \in Nat : Has(r, Bigger(n)) => Has(p, Bigger(n)) \/ w > n
    BY <1>2, <1>3, <1>5, <1>8, SizeSets DEF Kept
  <1>11. ~Has(r, Bigger(v))
    BY <1>1, <1>2, <1>10, SizeSets
  <1>12. ASSUME NEW n \in Nat
         PROVE  NoneAfter(r, SizeOf(n), Smaller(n))
    <2>1. CASE Kept(r, p)
      BY <1>1, <2>1 DEF Kept
    <2>2. ASSUME NEW m \in Msgs("client"), Appended(r, p, m), Adds("client", m)
          PROVE  NoneAfter(r, SizeOf(n), Smaller(n))
      <3>1. NoneAfter(p, SizeOf(n), Smaller(n))
        BY <1>1
      <3>2. ~(Has(p, SizeOf(n)) /\ m \in Smaller(n))
        <4> SUFFICES ASSUME Has(p, SizeOf(n)), m \in Smaller(n) PROVE FALSE
          OBVIOUS
        <4>1. w < n
          BY <1>2, <1>5, <2>2, SizeSets
        <4>2. Has(p, Bigger(w))
          BY <1>2, <4>1, SizeSets
        <4> QED
          BY <1>1, <4>2
      <3> QED
        BY <1>8, <2>2, <3>1, <3>2
    <2> QED
      BY <1>3, <2>1, <2>2
  <1>13. CASE pty' = pty
    <2>1. ~Has(r, Smaller(pty))
      BY <1>1, <1>2, <1>9
    <2>2. pty <= v /\ pty >= pty
      BY <1>1, <1>2
    <2> QED
      BY <1>7, <1>11, <1>12, <1>13, <2>1, <2>2
  <1>14. CASE pty' # pty
    <2>1. PICK n \in Nat : pty' = n /\ FirstOf(WindowSizeChange(n), p, r)
      BY <1>6, <1>14
    <2>2. WindowSizeChange(n) \in SizeOf(n)
      BY SizeSets
    <2>3. Has(p, SizeOf(n)) /\ ~Has(r, Smaller(n))
      BY <1>1, <2>1, <2>2 DEF FirstOf
    <2>4. n <= w /\ n >= pty
      BY <1>1, <1>2, <2>3, SizeSets
    <2>5. n <= v
      BY <1>2, <2>4
    <2> QED
      BY <1>7, <1>11, <1>12, <2>1, <2>3, <2>4, <2>5
  <1> QED
    BY <1>13, <1>14

\* At first no size is on the way.
LEMMA SizeOrderInit == Init => SizeOrder
  <1> SUFFICES ASSUME Init PROVE SizeOrder
    OBVIOUS
  <1>1. pty = 0 /\ winch.n = 0
    BY DEF Init
  <1>2. \/ Path("client") = <<>>
        \/ "client" = "server"
    BY InitPath DEF Sides
  <1>3. \A C, D : ~Has(Path("client"), C) /\ NoneAfter(Path("client"), C, D)
    BY <1>2, EmptyOrder
  <1> QED
    BY <1>1, <1>3 DEF SizeOrder

\* The terminal of the child gets the sizes of the client's terminal in the order of
\* the changes (Session.tla), whichever of them it cannot apply and whatever shares the
\* queue and the connection with them.
THEOREM SizesInOrderCorrect == Spec => SizesInOrder
  <1>1. Order /\ SizeOrder /\ [Next]_vars => SizeOrder' /\ [pty' >= pty]_vars
    BY SizeOrderNext DEF Order
  <1> QED
    BY <1>1, SizeOrderInit, OrderInvariance, PTL DEF Spec, SizesInOrder

=============================================================================
