--------------------------- MODULE BytePathProofs ---------------------------
(***************************************************************************)
(* Proofs about the byte path, for every size of the packets and of the     *)
(* buffers: the readiness of the descriptors at its two ends, where bytes    *)
(* are only counted, and then what the bytes on the way are.                 *)
(***************************************************************************)
EXTENDS BytePath, SequenceTheorems, WellFoundedInduction, TLAPS

-----------------------------------------------------------------------------
(* The inductive invariant.                                                *)

\* What a descriptor knows of itself: a parked task is registered, and a descriptor
\* that can be used has told so, unless its task is about to try it.
FdInv(fd, usable) ==
    /\ fd.pc = "parked" => fd.waker
    /\ fd.pc = "io" => fd.ready
    /\ usable => fd.event \/ fd.ready
    /\ usable /\ fd.pc \in {"clear", "parked"} => fd.event

\* A sequence, of whatever.
Listed(s) == \E S : s \in Seq(S)

\* The buffers are sequences; a message of the reader has a first byte, its tag.
PathTypes ==
    /\ stdin \in FdState /\ master \in FdState
    /\ closed \in BOOLEAN
    /\ Listed(input) /\ Listed(tx) /\ Listed(net)
    /\ Listed(pty) /\ Len(pty) <= PtyCap
    /\ reader = [pc |-> reader.pc, need |-> reader.need, got |-> reader.got]
    /\ Listed(reader.got)
    /\ reader.need \in Nat /\ (reader.pc = "body" => reader.need > 0)
    /\ sink = [pc |-> sink.pc, left |-> sink.left]
    /\ Listed(sink.left)

Inv ==
    /\ PathTypes
    /\ FdInv(stdin, input # <<>> \/ closed)
    /\ FdInv(master, Len(pty) < PtyCap)

-----------------------------------------------------------------------------
(* Sequences.                                                              *)

\* Lists stay lists when something is added or taken.
LEMMA ListedFacts ==
    /\ Listed(<<>>)
    /\ \A s : Listed(s) =>
         /\ Len(s) \in Nat
         /\ s # <<>> => Listed(Tail(s))
         /\ Len(s) # 0 => s # <<>>
         /\ \A x : Listed(Append(s, x)) /\ Append(s, x) # <<>>
         /\ \A j \in 1..Len(s) + 1, k \in 0..Len(s) :
              Listed(SubSeq(s, j, k)) /\ (j <= k + 1 => Len(SubSeq(s, j, k)) = k - j + 1)
    /\ \A s, t : Listed(s) /\ Listed(t) => Listed(s \o t) /\ Len(s \o t) = Len(s) + Len(t)
  <1>1. Listed(<<>>)
    <2>1. <<>> \in Seq({})
      OBVIOUS
    <2> QED
      BY <2>1 DEF Listed
  <1>2. ASSUME NEW s, Listed(s)
        PROVE  /\ Len(s) \in Nat
               /\ s # <<>> => Listed(Tail(s))
               /\ Len(s) # 0 => s # <<>>
               /\ \A x : Listed(Append(s, x)) /\ Append(s, x) # <<>>
               /\ \A j \in 1..Len(s) + 1, k \in 0..Len(s) :
                    Listed(SubSeq(s, j, k)) /\ (j <= k + 1 => Len(SubSeq(s, j, k)) = k - j + 1)
    <2>1. PICK S : s \in Seq(S)
      BY <1>2 DEF Listed
    <2>2. Len(s) \in Nat /\ (Len(s) # 0 => s # <<>>)
      BY <2>1
    <2>3. ASSUME s # <<>> PROVE Listed(Tail(s))
      <3>1. Tail(s) \in Seq(S)
        BY <2>1, <2>3
      <3> QED
        BY <3>1 DEF Listed
    <2>4. ASSUME NEW x PROVE Listed(Append(s, x)) /\ Append(s, x) # <<>>
      <3>1. s \in Seq(S \cup {x}) /\ x \in S \cup {x}
        BY <2>1
      <3>2. Append(s, x) \in Seq(S \cup {x}) /\ Len(Append(s, x)) = Len(s) + 1
        BY <3>1
      <3>3. Append(s, x) # <<>>
        BY <2>2, <3>2
      <3> QED
        BY <3>2, <3>3 DEF Listed
    <2>5. ASSUME NEW j \in 1..Len(s) + 1, NEW k \in 0..Len(s)
          PROVE  Listed(SubSeq(s, j, k)) /\ (j <= k + 1 => Len(SubSeq(s, j, k)) = k - j + 1)
      <3>1. SubSeq(s, j, k) \in Seq(S)
        BY <2>1
      <3>2. j <= k + 1 => Len(SubSeq(s, j, k)) = k - j + 1
        BY <2>1
      <3> QED
        BY <3>1, <3>2 DEF Listed
    <2> QED
      BY <2>2, <2>3, <2>4, <2>5
  <1>3. ASSUME NEW s, NEW t, Listed(s), Listed(t)
        PROVE  Listed(s \o t) /\ Len(s \o t) = Len(s) + Len(t)
    <2>1. PICK S : s \in Seq(S)
      BY <1>3 DEF Listed
    <2>2. PICK T : t \in Seq(T)
      BY <1>3 DEF Listed
    <2>3. s \in Seq(S \cup T) /\ t \in Seq(S \cup T)
      BY <2>1, <2>2
    <2>4. s \o t \in Seq(S \cup T) /\ Len(s \o t) = Len(s) + Len(t)
      BY <2>3
    <2> QED
      BY <2>4 DEF Listed
  <1> QED
    BY <1>1, <1>2, <1>3

\* A part is not more than there is, nor than there is room for.
LEMMA UpToFacts ==
    ASSUME NEW n \in Int, NEW m \in Int, NEW k \in UpTo(n, m)
    PROVE  k \in Nat /\ 1 <= k /\ k <= n /\ k <= m
  <1>1. \E x \in {n, m} : \A y \in {n, m} : x <= y
    <2>1. CASE n <= m
      BY <2>1
    <2>2. CASE m <= n
      BY <2>2
    <2> QED
      BY <2>1, <2>2
  <1>2. Min({n, m}) \in {n, m} /\ Min({n, m}) <= n /\ Min({n, m}) <= m
    BY <1>1 DEF Min
  <1> QED
    BY <1>2 DEF UpTo

\* The two parts of a buffer.
LEMMA CutFacts ==
    ASSUME NEW s, Listed(s), NEW n \in 0..Len(s)
    PROVE  /\ Listed(FirstOf(s, n)) /\ Len(FirstOf(s, n)) = n
           /\ Listed(Without(s, n)) /\ Len(Without(s, n)) = Len(s) - n
  <1>1. Len(s) \in Nat
    BY ListedFacts
  <1>2. 1 \in 1..Len(s) + 1 /\ n + 1 \in 1..Len(s) + 1 /\ Len(s) \in 0..Len(s)
    BY <1>1
  <1> QED
    BY <1>2, ListedFacts DEF FirstOf, Without

\* A message has its size in front.
LEMMA FrameFacts == ASSUME NEW s, Listed(s) PROVE Listed(Frame(s))
  <1>1. Listed(SizeField(Len(s)))
    <2>1. SizeBytes \in Nat
      BY FramingAssumption
    <2>2. PICK f : f = SizeField(Len(s))
      OBVIOUS
    <2>3. PICK S : f \in [1..SizeBytes -> S]
      <3>1. f \in [1..SizeBytes -> {f[i] : i \in 1..SizeBytes}]
        BY <2>2 DEF SizeField
      <3> QED
        BY <3>1
    <2>4. f \in Seq(S)
      BY <2>1, <2>3
    <2> QED
      BY <2>2, <2>4 DEF Listed
  <1> QED
    BY <1>1, ListedFacts DEF Frame

-----------------------------------------------------------------------------
(* The descriptors.                                                        *)

\* Each transition of a descriptor keeps what it knows of itself; a call that
\* would block is made of a descriptor that cannot be used, and a call that did
\* something leaves the readiness as it was.
LEMMA FdFacts ==
    ASSUME NEW fd \in FdState, NEW u \in BOOLEAN, FdInv(fd, u)
    PROVE  /\ Polled(fd) \in FdState /\ FdInv(Polled(fd), u)
           /\ DriverRuns(fd) => Driven(fd) \in FdState /\ FdInv(Driven(fd), u)
           /\ fd.pc = "poll" => PollReady(fd) \in FdState /\ FdInv(PollReady(fd), u)
           /\ fd.pc = "io" /\ ~u => WouldBlock(fd) \in FdState /\ FdInv(WouldBlock(fd), u)
           /\ fd.pc = "clear" => Cleared(fd) \in FdState /\ FdInv(Cleared(fd), u)
           /\ \A v \in BOOLEAN :
                /\ BecomesUsable(fd) \in FdState /\ FdInv(BecomesUsable(fd), v)
                /\ fd.pc = "io" =>
                     /\ Completed(fd) \in FdState /\ FdInv(Completed(fd), v)
                     /\ FdInv(Polled(fd), v)
  <1> USE DEF FdState, FdInv
  <1>1. Polled(fd) \in FdState /\ FdInv(Polled(fd), u)
    BY DEF Polled
  <1>2. DriverRuns(fd) => Driven(fd) \in FdState /\ FdInv(Driven(fd), u)
    BY DEF DriverRuns, Driven
  <1>3. fd.pc = "poll" => PollReady(fd) \in FdState /\ FdInv(PollReady(fd), u)
    BY DEF PollReady
  <1>4. fd.pc = "io" /\ ~u => WouldBlock(fd) \in FdState /\ FdInv(WouldBlock(fd), u)
    BY DEF WouldBlock
  <1>5. fd.pc = "clear" => Cleared(fd) \in FdState /\ FdInv(Cleared(fd), u)
    BY DEF Cleared
  <1>6. ASSUME NEW v \in BOOLEAN
        PROVE  /\ BecomesUsable(fd) \in FdState /\ FdInv(BecomesUsable(fd), v)
               /\ fd.pc = "io" =>
                    /\ Completed(fd) \in FdState /\ FdInv(Completed(fd), v)
                    /\ FdInv(Polled(fd), v)
    BY DEF BecomesUsable, Completed, Polled
  <1> QED
    BY <1>1, <1>2, <1>3, <1>4, <1>5, <1>6, Zenon

\* When each end can be used.
InUsable == input # <<>> \/ closed
PtyUsable == Len(pty) < PtyCap

-----------------------------------------------------------------------------
(* The steps.                                                              *)

\* At the start the two descriptors are registered and nothing is under way.
LEMMA InvInit == Init => Inv
  <1> SUFFICES ASSUME Init PROVE Inv
    OBVIOUS
  <1>1. Len(<<>>) = 0 /\ PtyCap \in Nat /\ PtyCap > 0 /\ SizeBytes \in Nat
    BY BytePathAssumption, FramingAssumption
  <1>2. PathTypes
    <2>1. stdin \in FdState /\ master \in FdState /\ closed \in BOOLEAN
      BY DEF Init, FdState, Polled, Registered
    <2>2. /\ Listed(input) /\ Listed(tx) /\ Listed(net)
          /\ Listed(pty) /\ Len(pty) <= PtyCap
      BY <1>1, ListedFacts DEF Init
    <2>3. /\ reader = [pc |-> "size", need |-> SizeBytes, got |-> <<>>]
          /\ sink = [pc |-> "recv", left |-> <<>>]
      BY DEF Init, NewReader
    <2>4. Listed(reader.got) /\ Listed(sink.left) /\ reader.need = SizeBytes /\ reader.pc = "size"
      BY <2>3, ListedFacts
    <2>5. reader = [pc |-> reader.pc, need |-> reader.need, got |-> reader.got]
      BY <2>3
    <2>6. sink = [pc |-> sink.pc, left |-> sink.left]
      BY <2>3
    <2> QED
      BY <1>1, <2>1, <2>2, <2>4, <2>5, <2>6 DEF PathTypes
  <1>3. FdInv(stdin, input # <<>> \/ closed) /\ FdInv(master, Len(pty) < PtyCap)
    BY <1>1 DEF Init, FdInv, Polled, Registered
  <1> QED
    BY <1>2, <1>3 DEF Inv

\* The user, the standard input and the source task.
LEMMA InputSteps ==
    ASSUME Inv, Type \/ EndOfInput \/ StdinPoll \/ StdinRead
    PROVE  Inv'
  <1>0. /\ PathTypes /\ FdInv(stdin, InUsable) /\ FdInv(master, PtyUsable)
        /\ stdin \in FdState /\ Listed(input) /\ closed \in BOOLEAN /\ InUsable \in BOOLEAN
    BY DEF Inv, PathTypes, InUsable, PtyUsable
  <1>a. SUFFICES /\ stdin' \in FdState /\ closed' \in BOOLEAN /\ Listed(input') /\ Listed(tx')
                 /\ FdInv(stdin', InUsable')
                 /\ UNCHANGED <<net, reader, sink, pty, master>>
    BY <1>0 DEF Inv, PathTypes, InUsable, PtyUsable
  <1>1. CASE Type
    <2>1. Listed(input') /\ InUsable' = TRUE
      BY <1>0, <1>1, ListedFacts DEF Type, InUsable
    <2>2. FdInv(stdin', TRUE) /\ stdin' \in FdState
      <3>1. CASE input = <<>>
        BY <1>0, <1>1, <3>1, FdFacts DEF Type
      <3>2. CASE input # <<>>
        BY <1>0, <1>1, <3>2 DEF Type, InUsable
      <3> QED
        BY <3>1, <3>2
    <2> QED
      BY <1>0, <1>1, <2>1, <2>2 DEF Type, PathTypes, netVars, outVars
  <1>2. CASE EndOfInput
    <2>1. InUsable' \in BOOLEAN /\ FdInv(stdin', InUsable') /\ stdin' \in FdState
      <3>1. InUsable' \in BOOLEAN
        BY DEF InUsable
      <3> QED
        BY <1>0, <1>2, <3>1, FdFacts DEF EndOfInput
    <2> QED
      BY <1>0, <1>2, <2>1 DEF EndOfInput, PathTypes, netVars, outVars
  <1>3. CASE StdinPoll
    <2>1. /\ UNCHANGED <<closed, input, tx, net, reader, sink, pty, master>>
          /\ InUsable' = InUsable
      BY <1>3 DEF StdinPoll, netVars, outVars, InUsable
    <2>2. FdInv(stdin', InUsable) /\ stdin' \in FdState
      BY <1>0, <1>3, FdFacts DEF StdinPoll, InUsable
    <2> QED
      BY <1>0, <2>1, <2>2 DEF PathTypes
  <1>4. CASE StdinRead
    <2>1. /\ stdin.pc = "io" /\ stdin' = Completed(stdin)
          /\ UNCHANGED <<closed, net, reader, sink, pty, master>>
      BY <1>4 DEF StdinRead, outVars
    <2>2. Listed(tx') /\ Listed(input')
      <3>0. Listed(<<DataTag>>) /\ Listed(<<ClosedTag>>)
        <4>1. <<DataTag>> \in Seq({DataTag}) /\ <<ClosedTag>> \in Seq({ClosedTag})
          OBVIOUS
        <4> QED
          BY <4>1 DEF Listed
      <3>1. ASSUME NEW n \in UpTo(Len(input), MaxPacket),
                   tx' = Frame(<<DataTag>> \o FirstOf(input, n)), input' = Without(input, n)
            PROVE  Listed(tx') /\ Listed(input')
        <4>1. n \in 0..Len(input)
          BY <1>0, UpToFacts, ListedFacts, BytePathAssumption
        <4> QED
          BY <1>0, <3>0, <3>1, <4>1, CutFacts, ListedFacts, FrameFacts
      <3>2. ASSUME tx' = Frame(<<ClosedTag>>), input' = input
            PROVE  Listed(tx') /\ Listed(input')
        BY <1>0, <3>0, <3>2, FrameFacts
      <3> QED
        BY <1>4, <3>1, <3>2 DEF StdinRead
    <2>3. InUsable' \in BOOLEAN
      BY DEF InUsable
    <2> QED
      BY <1>0, <2>1, <2>2, <2>3, FdFacts
  <1> QED
    BY <1>1, <1>2, <1>3, <1>4

\* The connection and the receiver.
LEMMA NetSteps ==
    ASSUME Inv, SendSome \/ ReceiveSome \/ Deliver \/ LinkLost \/ ReceiveFails
    PROVE  Inv'
  <1>0. /\ PathTypes /\ FdInv(stdin, InUsable) /\ FdInv(master, PtyUsable)
        /\ master \in FdState /\ PtyUsable \in BOOLEAN
        /\ Listed(tx) /\ Listed(net) /\ Listed(reader.got) /\ reader.need \in Nat
        /\ Len(tx) \in Nat /\ Len(net) \in Nat /\ Len(reader.got) \in Nat
        /\ NetCap \in Nat
    BY ListedFacts, BytePathAssumption DEF Inv, PathTypes, InUsable, PtyUsable
  <1>a. SUFFICES /\ PathTypes' /\ FdInv(master', PtyUsable')
                 /\ UNCHANGED <<stdin, input, closed>>
    BY <1>0 DEF Inv, InUsable, PtyUsable
  <1>1. CASE SendSome
    <2>1. PICK n \in UpTo(Len(tx), NetCap - Len(net)) :
            net' = net \o FirstOf(tx, n) /\ tx' = Without(tx, n)
      BY <1>1 DEF SendSome
    <2>2. n \in 0..Len(tx)
      BY <1>0, UpToFacts
    <2>3. Listed(net') /\ Listed(tx')
      BY <1>0, <2>1, <2>2, CutFacts, ListedFacts
    <2>4. UNCHANGED <<stdin, input, closed, reader, sink, pty, master>>
      BY <1>1 DEF SendSome, inVars, outVars
    <2> QED
      BY <1>0, <2>3, <2>4 DEF PathTypes, PtyUsable
  <1>2. CASE ReceiveSome
    <2>1. PICK n \in UpTo(Len(net), reader.need - Len(reader.got)) :
            reader' = ReadSome(reader, FirstOf(net, n)) /\ net' = Without(net, n)
      BY <1>2 DEF ReceiveSome
    <2>2. n \in 0..Len(net)
      BY <1>0, UpToFacts
    <2>3. Listed(net') /\ Listed(reader.got \o FirstOf(net, n))
      BY <1>0, <2>1, <2>2, CutFacts, ListedFacts
    <2>4. /\ reader' = [pc |-> reader'.pc, need |-> reader'.need, got |-> reader'.got]
          /\ Listed(reader'.got)
          /\ reader'.need \in Nat /\ (reader'.pc = "body" => reader'.need > 0)
      <3>1. CASE reader' = SizeRead(SizeOf(reader.got \o FirstOf(net, n)))
        BY <3>1, ListedFacts, FramingAssumption DEF SizeRead
      <3>2. CASE reader' = [reader EXCEPT !.got = reader.got \o FirstOf(net, n)]
        <4>1. reader' = [pc |-> reader.pc, need |-> reader.need,
                         got |-> reader.got \o FirstOf(net, n)]
          BY <1>0, <3>2 DEF PathTypes
        <4> QED
          BY <1>0, <2>3, <4>1 DEF PathTypes
      <3> QED
        BY <2>1, <3>1, <3>2, Zenon DEF ReadSome
    <2>5. UNCHANGED <<stdin, input, closed, tx, sink, pty, master>>
      BY <1>2 DEF ReceiveSome, inVars, outVars
    <2> QED
      BY <1>0, <2>3, <2>4, <2>5 DEF PathTypes, PtyUsable
  <1>3. CASE Deliver
    <2>1. /\ reader.pc = "body" /\ Len(reader.got) = reader.need /\ reader' = NewReader
          /\ UNCHANGED <<stdin, input, closed, tx, net, pty>>
          /\ \/ /\ sink' = [pc |-> "write", left |-> Tail(reader.got)]
                /\ master' = Polled(master)
             \/ /\ sink' = [sink EXCEPT !.pc = "closed"]
                /\ master' = master
      BY <1>3 DEF Deliver, HasMessage, inVars
    <2>2. Listed(Tail(reader.got))
      <3>1. reader.got # <<>>
        BY <1>0, <2>1, ListedFacts DEF PathTypes
      <3> QED
        BY <1>0, <3>1, ListedFacts
    <2>3. sink' = [pc |-> sink'.pc, left |-> sink'.left] /\ Listed(sink'.left)
      <3>1. CASE sink' = [pc |-> "write", left |-> Tail(reader.got)]
        BY <2>2, <3>1
      <3>2. CASE sink' = [sink EXCEPT !.pc = "closed"]
        <4>1. sink = [pc |-> sink.pc, left |-> sink.left] /\ Listed(sink.left)
          BY <1>0 DEF PathTypes
        <4>2. sink' = [pc |-> "closed", left |-> sink.left]
          BY <3>2, <4>1
        <4> QED
          BY <4>1, <4>2
      <3> QED
        BY <2>1, <3>1, <3>2
    <2>4. /\ reader' = [pc |-> reader'.pc, need |-> reader'.need, got |-> reader'.got]
          /\ Listed(reader'.got) /\ reader'.need \in Nat /\ reader'.pc # "body"
      BY <2>1, ListedFacts, FramingAssumption DEF NewReader
    <2>5. master' \in FdState /\ FdInv(master', PtyUsable)
      BY <1>0, <2>1, FdFacts
    <2> QED
      BY <1>0, <2>1, <2>3, <2>4, <2>5 DEF PathTypes, PtyUsable
  <1>4. CASE LinkLost
    <2>1. PICK i \in 0..Len(net) : net' = FirstOf(net, i)
      BY <1>4 DEF LinkLost
    <2>2. Listed(net') /\ Listed(tx')
      BY <1>0, <1>4, <2>1, CutFacts, ListedFacts DEF LinkLost
    <2>3. UNCHANGED <<stdin, input, closed, reader, sink, pty, master>>
      BY <1>4 DEF LinkLost, inVars, outVars
    <2> QED
      BY <1>0, <2>2, <2>3 DEF PathTypes, PtyUsable
  <1>5. CASE ReceiveFails
    <2>1. reader' = [pc |-> "failed", need |-> reader.need, got |-> reader.got]
      BY <1>0, <1>5 DEF ReceiveFails, PathTypes
    <2>2. UNCHANGED <<stdin, input, closed, tx, net, sink, pty, master>>
      BY <1>5 DEF ReceiveFails, inVars, outVars
    <2> QED
      BY <1>0, <2>1, <2>2 DEF PathTypes, PtyUsable
  <1> QED
    BY <1>1, <1>2, <1>3, <1>4, <1>5

\* The pseudo-terminal and the child; the sink's acknowledgement polls the standard
\* input again.
LEMMA OutputSteps ==
    ASSUME Inv, PtyPoll \/ PtyWrite \/ ChildReads
    PROVE  Inv'
  <1>0. /\ PathTypes /\ FdInv(stdin, InUsable) /\ FdInv(master, PtyUsable)
        /\ stdin \in FdState /\ InUsable \in BOOLEAN
        /\ master \in FdState /\ PtyUsable \in BOOLEAN
        /\ Listed(pty) /\ Len(pty) \in Nat /\ Len(pty) <= PtyCap /\ PtyCap \in Nat
        /\ Listed(sink.left) /\ Len(sink.left) \in Nat
    BY ListedFacts, BytePathAssumption DEF Inv, PathTypes, InUsable, PtyUsable
  <1>a. SUFFICES /\ stdin' \in FdState /\ FdInv(stdin', InUsable)
                 /\ master' \in FdState /\ FdInv(master', PtyUsable')
                 /\ Listed(pty') /\ Len(pty') <= PtyCap
                 /\ sink' = [pc |-> sink'.pc, left |-> sink'.left] /\ Listed(sink'.left)
                 /\ UNCHANGED <<input, closed, tx, net, reader>>
    BY <1>0 DEF Inv, PathTypes, InUsable, PtyUsable
  <1>1. CASE PtyPoll
    <2>1. UNCHANGED <<stdin, input, closed, tx, net, reader, sink, pty>> /\ PtyUsable' = PtyUsable
      BY <1>1 DEF PtyPoll, inVars, netVars, PtyUsable
    <2>2. FdInv(master', PtyUsable) /\ master' \in FdState
      <3>1. CASE DriverRuns(master) /\ master' = Driven(master)
        BY <1>0, <3>1, FdFacts
      <3>2. CASE master.pc = "poll" /\ master' = PollReady(master)
        BY <1>0, <3>2, FdFacts
      <3>3. CASE master.pc = "io" /\ Len(pty) = PtyCap /\ master' = WouldBlock(master)
        <4>1. ~PtyUsable
          BY <1>0, <3>3 DEF PtyUsable
        <4> QED
          BY <1>0, <3>3, <4>1, FdFacts
      <3>4. CASE master.pc = "clear" /\ master' = Cleared(master)
        BY <1>0, <3>4, FdFacts
      <3> QED
        BY <1>1, <3>1, <3>2, <3>3, <3>4 DEF PtyPoll
    <2> QED
      BY <1>0, <2>1, <2>2 DEF PathTypes
  <1>2. CASE PtyWrite
    <2>1. PICK n \in UpTo(Len(sink.left), PtyCap - Len(pty)) :
            /\ pty' = pty \o FirstOf(sink.left, n)
            /\ sink' = [sink EXCEPT !.left = LeftByWriteAll(n),
                                    !.pc = IF LeftByWriteAll(n) = <<>> THEN "recv" ELSE "write"]
      BY <1>2 DEF PtyWrite
    <2>2. n \in 0..Len(sink.left) /\ n <= PtyCap - Len(pty)
      BY <1>0, UpToFacts
    <2>3. Listed(pty') /\ Len(pty') <= PtyCap
      BY <1>0, <2>1, <2>2, CutFacts, ListedFacts
    <2>4. sink' = [pc |-> sink'.pc, left |-> sink'.left] /\ Listed(sink'.left)
      <3>1. Listed(LeftByWriteAll(n))
        BY <1>0, <2>2, CutFacts DEF LeftByWriteAll
      <3>2. sink = [pc |-> sink.pc, left |-> sink.left]
        BY <1>0 DEF PathTypes
      <3> QED
        BY <2>1, <3>1, <3>2
    <2>5. /\ master.pc = "io" /\ master' \in {Polled(master), Completed(master)}
          /\ stdin' \in {stdin, Polled(stdin)}
          /\ UNCHANGED <<input, closed, tx, net, reader>>
      BY <1>2 DEF PtyWrite, netVars
    <2>6. stdin' \in FdState /\ FdInv(stdin', InUsable)
      BY <1>0, <2>5, FdFacts
    <2>7. master' \in FdState /\ FdInv(master', PtyUsable')
      <3>1. PtyUsable' \in BOOLEAN
        BY DEF PtyUsable
      <3> QED
        BY <1>0, <2>5, <3>1, FdFacts
    <2> QED
      BY <2>3, <2>4, <2>5, <2>6, <2>7
  <1>3. CASE ChildReads
    <2>1. PICK n \in UpTo(Len(pty), PtyCap) : pty' = Without(pty, n)
      BY <1>3 DEF ChildReads
    <2>2. n \in 0..Len(pty) /\ n >= 1
      BY <1>0, UpToFacts
    <2>3. Listed(pty') /\ Len(pty') <= PtyCap
      BY <1>0, <2>1, <2>2, CutFacts
    <2>4. master' \in FdState /\ FdInv(master', PtyUsable')
      <3>1. PtyUsable' \in BOOLEAN
        BY DEF PtyUsable
      <3>2. CASE Len(pty) = PtyCap
        BY <1>0, <1>3, <3>1, <3>2, FdFacts DEF ChildReads
      <3>3. CASE Len(pty) # PtyCap
        <4>1. PtyUsable /\ master' = master
          BY <1>0, <1>3, <3>3 DEF ChildReads, PtyUsable
        <4> QED
          BY <1>0, <4>1 DEF FdInv
      <3> QED
        BY <3>2, <3>3
    <2>5. UNCHANGED <<stdin, input, closed, tx, net, reader, sink>>
      BY <1>3 DEF ChildReads, inVars, netVars
    <2> QED
      BY <1>0, <2>3, <2>4, <2>5 DEF PathTypes
  <1> QED
    BY <1>1, <1>2, <1>3

\* The invariant is inductive.
LEMMA InvNext == Inv /\ [Next]_vars => Inv'
  <1>1. Inv /\ UNCHANGED vars => Inv'
    BY DEF Inv, PathTypes, vars, inVars, netVars, outVars
  <1> QED
    BY <1>1, InputSteps, NetSteps, OutputSteps DEF Next, Terminated

\* The two descriptors know of themselves in every reachable state.
THEOREM Invariance == Spec => []Inv
  BY InvInit, InvNext, PTL DEF Spec

\* A task that waits for a descriptor is woken (BytePath.tla), for every size of
\* the packets and of the buffers.
THEOREM NoLostWakeupCorrect == Spec => []NoLostWakeup
  <1>1. Inv => NoLostWakeup
    BY DEF Inv, FdInv, NoLostWakeup, WillWake
  <1> QED
    BY <1>1, Invariance, PTL

-----------------------------------------------------------------------------
(* The size of a message.                                                  *)

\* Some number is the least of its kind: what is proved by induction is proved of the
\* least counterexample.
LEMMA LeastNumber ==
    ASSUME NEW T \in SUBSET Nat, T # {}
    PROVE  \E m \in T : \A k \in T : m <= k
  <1>1. PICK R : R = OpToRel(<, Nat)
    BY Zenon
  <1>2. \A x, y \in Nat : <<y, x>> \in R <=> y < x
    BY <1>1 DEF OpToRel
  <1>3. IsWellFoundedOn(R, Nat)
    BY <1>1, NatLessThanWellFounded, Zenon
  <1>4. \E x \in T : \A y \in T : ~(<<y, x>> \in R)
    BY <1>3, WFMin
  <1>5. PICK m \in T : \A y \in T : ~(<<y, m>> \in R)
    BY <1>4, Zenon
  <1>6. ASSUME NEW k \in T PROVE m <= k
    <2>1. m \in Nat /\ k \in Nat
      OBVIOUS
    <2>2. ~(k < m)
      BY <1>2, <1>5, <2>1, Zenon
    <2> QED
      BY <2>1, <2>2
  <1> QED
    BY <1>6

\* Powers of the base up to the n-th.
Powers(f, n) ==
    /\ f \in [0..n -> Nat \ {0}]
    /\ f[0] = 1
    /\ \A k \in 1..n : f[k] = Base * f[k - 1]

LEMMA PowersExist == \A n \in Nat : \E f : Powers(f, n)
  <1> DEFINE T == {n \in Nat : ~ \E f : Powers(f, n)}
  <1>0. Base \in Nat \ {0}
    BY FramingAssumption
  <1>1. ASSUME T # {} PROVE FALSE
    <2>1. PICK m \in T : \A k \in T : m <= k
      BY <1>1, LeastNumber
    <2>2. m \in Nat /\ ~ \E f : Powers(f, m)
      OBVIOUS
    <2>3. CASE m = 0
      <3>1. Powers([k \in 0..0 |-> 1], 0)
        BY DEF Powers
      <3> QED
        BY <2>2, <2>3, <3>1
    <2>4. CASE m # 0
      <3>1. m - 1 \in Nat /\ ~(m <= m - 1)
        BY <2>2, <2>4
      <3>2. PICK g : Powers(g, m - 1)
        BY <2>1, <3>1
      <3> DEFINE f == [k \in 0..m |-> IF k = m THEN Base * g[m - 1] ELSE g[k]]
      <3> HIDE DEF T
      <3>3. f \in [0..m -> Nat \ {0}]
        <4>1. ASSUME NEW k \in 0..m PROVE f[k] \in Nat \ {0}
          <5>1. CASE k = m
            <6>1. g[m - 1] \in Nat \ {0}
              BY <3>1, <3>2 DEF Powers
            <6>2. Base * g[m - 1] \in Nat \ {0}
              BY <1>0, <6>1
            <6> QED
              BY <5>1, <6>2
          <5>2. CASE k # m
            <6>1. k \in 0..m - 1
              BY <2>2, <5>2
            <6> QED
              BY <3>2, <5>2, <6>1 DEF Powers
          <5> QED
            BY <5>1, <5>2
        <4> QED
          BY <4>1
      <3>4. f[0] = 1
        BY <2>2, <2>4, <3>1, <3>2 DEF Powers
      <3>5. ASSUME NEW k \in 1..m PROVE f[k] = Base * f[k - 1]
        <4>1. k - 1 \in 0..m /\ k - 1 # m /\ f[k - 1] = g[k - 1]
          BY <2>2
        <4>2. CASE k = m
          BY <2>2, <4>1, <4>2
        <4>3. CASE k # m
          <5>1. k \in 1..m - 1
            BY <2>2, <4>3
          <5>2. g[k] = Base * g[k - 1] /\ f[k] = g[k]
            BY <3>2, <4>3, <5>1 DEF Powers
          <5> QED
            BY <4>1, <5>2
        <4> QED
          BY <4>2, <4>3
      <3> HIDE DEF f
      <3>6. Powers(f, m)
        BY <3>3, <3>4, <3>5 DEF Powers
      <3> QED
        BY <2>2, <3>6
    <2> QED
      BY <2>3, <2>4
  <1>2. T = {}
    BY <1>1
  <1> QED
    BY <1>2

\* The weights are powers of the base.
LEMMA WeightFacts == Powers(Weight, SizeBytes - 1)
  <1> DEFINE N == SizeBytes - 1
             W(f) == [k \in 0..N |-> IF k = 0 THEN 1 ELSE Base * f[k - 1]]
  <1>0. N \in Nat /\ Base \in Nat \ {0}
    BY FramingAssumption
  <1>1. PICK g : Powers(g, N)
    BY <1>0, PowersExist
  <1>2. g = W(g)
    <2>1. ASSUME NEW k \in 0..N PROVE g[k] = W(g)[k]
      <3>1. CASE k = 0
        BY <1>1, <3>1 DEF Powers
      <3>2. CASE k # 0
        <4>1. k \in 1..N
          BY <1>0, <3>2
        <4> QED
          BY <1>1, <3>2, <4>1 DEF Powers
      <3> QED
        BY <3>1, <3>2
    <2>2. g = [k \in 0..N |-> g[k]]
      BY <1>1 DEF Powers
    <2> QED
      BY <2>1, <2>2
  <1>3. Weight = CHOOSE f : f = W(f)
    BY DEF Weight
  <1>4. Weight = W(Weight)
    <2> HIDE DEF W
    <2> QED
      BY <1>2, <1>3
  <1>5. \A k \in 0..N : Weight[k] = IF k = 0 THEN 1 ELSE Base * Weight[k - 1]
    BY <1>4
  <1>6. DOMAIN Weight = 0..N /\ Weight = [k \in DOMAIN Weight |-> Weight[k]]
    BY <1>4
  <1> DEFINE T == {k \in 0..N : Weight[k] \notin Nat \ {0}}
  <1>7. ASSUME T # {} PROVE FALSE
    <2>0. T \in SUBSET Nat
      BY <1>0
    <2>1. PICK m \in T : \A k \in T : m <= k
      BY <1>7, <2>0, LeastNumber
    <2>2. m \in 0..N /\ m # 0
      BY <1>0, <1>5
    <2>3. m - 1 \in 0..N /\ ~(m <= m - 1)
      BY <1>0, <2>2
    <2>4. Weight[m - 1] \in Nat \ {0}
      BY <2>1, <2>3
    <2>5. Base * Weight[m - 1] \in Nat \ {0}
      BY <1>0, <2>4
    <2> QED
      BY <1>5, <2>1, <2>2, <2>5
  <1>8. \A k \in 0..N : Weight[k] \in Nat \ {0}
    BY <1>7
  <1>9. Weight \in [0..N -> Nat \ {0}]
    BY <1>6, <1>8
  <1>10. Weight[0] = 1 /\ \A k \in 1..N : Weight[k] = Base * Weight[k - 1]
    BY <1>0, <1>5
  <1> QED
    BY <1>9, <1>10 DEF Powers

\* Division with a remainder.
LEMMA Remainder ==
    ASSUME NEW b \in Nat, b > 0, NEW n \in Nat
    PROVE  (n \div b) * b + (n % b) = n /\ n % b < b
  OBVIOUS

\* Division by a multiple, and what is left.
LEMMA DivisionFacts ==
    ASSUME NEW n \in Nat, NEW b \in Nat \ {0}, NEW w \in Nat \ {0}
    PROVE  /\ n \div w \in Nat /\ n % b \in Nat /\ n \div 1 = n
           /\ (n \div (b * w)) * b + ((n \div w) % b) = n \div w
           /\ n < b * w => (n \div w) % b = n \div w
  <1>1. n \div w \in Nat /\ n % b \in Nat /\ n \div 1 = n
    OBVIOUS
  <1>2. n \div (b * w) = (n \div w) \div b
    OBVIOUS
  <1>3. ASSUME NEW q \in Nat PROVE (q \div b) * b + (q % b) = q /\ (q < b => q % b = q)
    <2>0. b \in Nat /\ b > 0
      OBVIOUS
    <2>1. (q \div b) * b + (q % b) = q
      BY <2>0, Remainder
    <2>2. ASSUME q < b PROVE q % b = q
      <3>1. q \div b = 0
        BY <2>2
      <3> QED
        BY <2>1, <3>1
    <2> QED
      BY <2>1, <2>2
  <1>4. n < b * w => n \div w < b
    OBVIOUS
  <1> QED
    BY <1>1, <1>2, <1>3, <1>4

\* The size that has been read after i bytes of it.
SizeSoFar(n, i) == IF i = 0 THEN 0 ELSE n \div Weight[SizeBytes - i]

\* read_u32 finds what write_u32 has written.
LEMMA SizeIsRead == ASSUME NEW n \in 0..SizeLimit PROVE SizeOf(SizeField(n)) = n
  <1> DEFINE field == SizeField(n)
             S == SizeBytes
             W(f) == [i \in 0..Len(field) |-> IF i = 0 THEN 0 ELSE f[i - 1] * Base + field[i]]
             g == [i \in 0..S |-> SizeSoFar(n, i)]
  <1>0. /\ S \in Nat \ {0} /\ Base \in Nat \ {0} /\ n \in Nat
        /\ n < Base * Weight[S - 1]
    <2>1. Weight[S - 1] \in Nat
      BY FramingAssumption, WeightFacts DEF Powers
    <2> QED
      BY <2>1, FramingAssumption
  <1>1. /\ field \in [1..S -> Nat] /\ Len(field) = S
        /\ \A i \in 1..S : field[i] = (n \div Weight[S - i]) % Base
    <2>1. ASSUME NEW i \in 1..S PROVE (n \div Weight[S - i]) % Base \in Nat
      <3>1. Weight[S - i] \in Nat \ {0}
        BY <1>0, WeightFacts DEF Powers
      <3> QED
        BY <1>0, <3>1, DivisionFacts
    <2>2. field \in [1..S -> Nat]
      BY <2>1 DEF SizeField
    <2>3. Len(field) = S
      BY <1>0, <2>2
    <2> QED
      BY <2>2, <2>3 DEF SizeField
  <1> HIDE DEF field
  <1>2. ASSUME NEW i \in 1..S
        PROVE  SizeSoFar(n, i) = SizeSoFar(n, i - 1) * Base + field[i]
    <2>1. PICK w \in Nat \ {0} : w = Weight[S - i]
      BY <1>0, WeightFacts DEF Powers
    <2>2. field[i] = (n \div w) % Base
      BY <1>1, <2>1
    <2>3. CASE i = 1
      <3>1. SizeSoFar(n, i) = n \div w /\ SizeSoFar(n, i - 1) = 0
        BY <2>1, <2>3 DEF SizeSoFar
      <3>2. (n \div w) % Base = n \div w /\ n \div w \in Nat
        <4>1. Weight[S - 1] = w
          BY <2>1, <2>3
        <4>2. n < Base * w
          BY <1>0, <4>1
        <4> QED
          BY <1>0, <4>2, DivisionFacts
      <3> QED
        BY <1>0, <2>2, <3>1, <3>2
    <2>4. CASE i # 1
      <3>1. S - i + 1 \in 1..S - 1 /\ i - 1 # 0 /\ i # 0 /\ S - (i - 1) = S - i + 1
        BY <1>0, <2>4
      <3>2. Weight[S - i + 1] = Base * w
        <4>1. PICK j \in 1..S - 1 : j = S - i + 1
          BY <3>1
        <4>2. Weight[j] = Base * Weight[j - 1]
          BY WeightFacts DEF Powers
        <4>3. j - 1 = S - i
          BY <1>0, <4>1
        <4> QED
          BY <2>1, <4>1, <4>2, <4>3
      <3>3. SizeSoFar(n, i) = n \div w /\ SizeSoFar(n, i - 1) = n \div (Base * w)
        BY <2>1, <3>1, <3>2 DEF SizeSoFar
      <3>4. (n \div (Base * w)) * Base + ((n \div w) % Base) = n \div w
        BY <1>0, DivisionFacts
      <3>5. PICK p, q, r : p = n \div (Base * w) /\ q = n \div w /\ r = (n \div w) % Base
        OBVIOUS
      <3>6. p * Base + r = q
        BY <3>4, <3>5
      <3>7. SizeSoFar(n, i) = q /\ SizeSoFar(n, i - 1) = p /\ field[i] = r
        BY <2>2, <3>3, <3>5, Zenon
      <3> QED
        BY <3>6, <3>7, Zenon
    <2> QED
      BY <2>3, <2>4
  <1>3. g = W(g)
    <2>1. ASSUME NEW i \in 0..S PROVE g[i] = IF i = 0 THEN 0 ELSE g[i - 1] * Base + field[i]
      <3>1. CASE i = 0
        BY <3>1 DEF SizeSoFar
      <3>2. CASE i # 0
        <4>1. i \in 1..S /\ i - 1 \in 0..S
          BY <1>0, <3>2
        <4> QED
          BY <1>2, <3>2, <4>1
      <3> QED
        BY <3>1, <3>2
    <2> QED
      BY <1>1, <2>1
  <1> DEFINE value == CHOOSE f : f = W(f)
  <1>4. value = W(value)
    <2> HIDE DEF W, g
    <2> QED
      BY <1>3
  <1>5. SizeOf(field) = value[S]
    BY <1>1 DEF SizeOf
  <1> HIDE DEF value
  <1>6. \A i \in 0..S : value[i] = IF i = 0 THEN 0 ELSE value[i - 1] * Base + field[i]
    BY <1>1, <1>4
  <1> DEFINE T == {i \in 0..S : value[i] # SizeSoFar(n, i)}
  <1>7. ASSUME T # {} PROVE FALSE
    <2>0. T \in SUBSET Nat
      BY <1>0
    <2>1. PICK m \in T : \A k \in T : m <= k
      BY <1>7, <2>0, LeastNumber
    <2>2. m \in 0..S /\ m # 0
      BY <1>0, <1>6 DEF SizeSoFar
    <2>3. m \in 1..S /\ m - 1 \in 0..S /\ ~(m <= m - 1)
      BY <1>0, <2>2
    <2>4. value[m - 1] = SizeSoFar(n, m - 1)
      BY <2>1, <2>3
    <2> QED
      BY <1>2, <1>6, <2>1, <2>2, <2>3, <2>4
  <1>8. value[S] = SizeSoFar(n, S)
    BY <1>0, <1>7
  <1>9. SizeSoFar(n, S) = n
    <2>1. Weight[S - S] = 1
      BY <1>0, WeightFacts DEF Powers
    <2> QED
      BY <1>0, <2>1, DivisionFacts DEF SizeSoFar
  <1> QED
    BY <1>5, <1>8, <1>9 DEF field

-----------------------------------------------------------------------------
(* Buffers of bytes.                                                       *)

Bytes == Seq(Nat)

\* A buffer, an empty one, and a byte.
LEMMA BufferFacts ==
    /\ <<>> \in Bytes /\ \A x \in Nat : <<x>> \in Bytes /\ Len(<<x>>) = 1
    /\ \A a \in Bytes :
         /\ a \o <<>> = a /\ <<>> \o a = a
         /\ Len(a) \in Nat /\ (Len(a) = 0 <=> a = <<>>)
  <1>1. /\ <<>> \in Bytes /\ \A x \in Nat : <<x>> \in Bytes /\ Len(<<x>>) = 1
    BY DEF Bytes
  <1>2. ASSUME NEW a \in Bytes
        PROVE  /\ a \o <<>> = a /\ <<>> \o a = a
               /\ Len(a) \in Nat /\ (Len(a) = 0 <=> a = <<>>)
    BY ConcatEmptySeq, EmptySeq DEF Bytes
  <1> QED
    BY <1>1, <1>2

\* Two buffers in a row are one.
LEMMA ConcatFacts ==
    \A a, b \in Bytes : a \o b \in Bytes /\ Len(a \o b) = Len(a) + Len(b)
  BY ConcatProperties DEF Bytes

\* Buffers in a row can be taken in any grouping.
Regrouped(a, b, c) == (a \o b) \o c = a \o (b \o c)

LEMMA Regroup == \A a, b, c \in Bytes : Regrouped(a, b, c)
  <1>1. ASSUME NEW a \in Seq(Nat), NEW b \in Seq(Nat), NEW c \in Seq(Nat)
        PROVE  (a \o b) \o c = a \o (b \o c)
    OBVIOUS
  <1> QED
    BY <1>1 DEF Regrouped, Bytes

\* The two parts of a buffer are the buffer.
LEMMA PartFacts ==
    ASSUME NEW s \in Bytes, NEW n \in 0..Len(s)
    PROVE  /\ FirstOf(s, n) \in Bytes /\ Len(FirstOf(s, n)) = n
           /\ Without(s, n) \in Bytes /\ Len(Without(s, n)) = Len(s) - n
           /\ FirstOf(s, n) \o Without(s, n) = s
  <1>1. Len(s) \in Nat /\ s \in Seq(Nat)
    BY BufferFacts, ConcatFacts DEF Bytes
  <1>2. FirstOf(s, n) \in Bytes /\ Len(FirstOf(s, n)) = n
    BY <1>1, SubSeqProperties DEF FirstOf, Bytes
  <1>3. Without(s, n) \in Bytes /\ Len(Without(s, n)) = Len(s) - n
    BY <1>1, SubSeqProperties DEF Without, Bytes
  <1>4. SubSeq(s, 1, n) \o SubSeq(s, n + 1, Len(s)) = SubSeq(s, 1, Len(s))
    <2>1. 1 \in 1..Len(s) + 1 /\ n \in 1 - 1..Len(s) /\ Len(s) \in n..Len(s)
      BY <1>1
    <2> QED
      BY <1>1, <2>1, ConcatAdjacentSubSeq
  <1>5. SubSeq(s, 1, Len(s)) = s
    BY <1>1, SubSeqFull
  <1> QED
    BY <1>2, <1>3, <1>4, <1>5 DEF FirstOf, Without

\* Where one part ends the other begins.
LEMMA SplitFacts ==
    ASSUME NEW a \in Bytes, NEW b \in Bytes, NEW c \in Bytes, NEW e \in Bytes,
           a \o b = c \o e, Len(a) = Len(c)
    PROVE  a = c /\ b = e
  <1>1. Len(a) \in Nat /\ Len(b) \in Nat /\ Len(e) \in Nat /\ Len(c) = Len(a)
    BY BufferFacts, ConcatFacts
  <1>2. Len(b) = Len(e)
    <2>1. Len(a \o b) = Len(a) + Len(b) /\ Len(c \o e) = Len(c) + Len(e)
      BY BufferFacts, ConcatFacts
    <2> QED
      BY <1>1, <2>1
  <1>3. /\ \A i \in 1..Len(a) + Len(b) :
             (a \o b)[i] = IF i <= Len(a) THEN a[i] ELSE b[i - Len(a)]
        /\ \A i \in 1..Len(c) + Len(e) :
             (c \o e)[i] = IF i <= Len(c) THEN c[i] ELSE e[i - Len(c)]
    BY ConcatProperties DEF Bytes
  <1>4. ASSUME NEW i \in 1..Len(a) PROVE a[i] = c[i]
    <2>1. i \in 1..Len(a) + Len(b) /\ i \in 1..Len(c) + Len(e) /\ i <= Len(a) /\ i <= Len(c)
      BY <1>1
    <2> QED
      BY <1>3, <2>1
  <1>5. ASSUME NEW i \in 1..Len(b) PROVE b[i] = e[i]
    <2> DEFINE j == i + Len(a)
    <2>1. /\ j \in 1..Len(a) + Len(b) /\ j \in 1..Len(c) + Len(e)
          /\ ~(j <= Len(a)) /\ ~(j <= Len(c)) /\ j - Len(a) = i /\ j - Len(c) = i
      BY <1>1, <1>2
    <2> HIDE DEF j
    <2> QED
      BY <1>3, <2>1
  <1> QED
    BY <1>2, <1>4, <1>5, SeqEqual DEF Bytes

\* The bytes as they are typed.
Counted(s) == s = Numbered(Len(s))

LEMMA NumberFacts ==
    ASSUME NEW n \in Nat
    PROVE  Numbered(n) \in Bytes /\ Len(Numbered(n)) = n /\ Counted(Numbered(n))
  <1>1. Numbered(n) \in [1..n -> Nat]
    BY DEF Numbered
  <1>2. Numbered(n) \in Bytes
    BY <1>1 DEF Bytes
  <1>3. Len(Numbered(n)) = n
    BY <1>1, <1>2 DEF Bytes
  <1> QED
    BY <1>2, <1>3 DEF Counted

\* What is counted begins with what is counted, and goes on with the next number.
LEMMA CountedFacts ==
    ASSUME NEW a \in Bytes
    PROVE  /\ \A b \in Bytes : Counted(a \o b) => Counted(a)
           /\ \A n \in Nat : a = Numbered(n) => Append(a, n + 1) = Numbered(n + 1)
  <1>0. Len(a) \in Nat
    BY BufferFacts, ConcatFacts
  <1>1. ASSUME NEW b \in Bytes, Counted(a \o b) PROVE Counted(a)
    <2>0. Len(b) \in Nat /\ Len(a \o b) = Len(a) + Len(b)
      BY BufferFacts, ConcatFacts
    <2>1. ASSUME NEW i \in 1..Len(a) PROVE a[i] = Numbered(Len(a))[i]
      <3>1. i \in 1..Len(a) + Len(b) /\ i <= Len(a)
        BY <1>0, <2>0
      <3>2. (a \o b)[i] = a[i]
        BY <3>1, ConcatProperties DEF Bytes
      <3>3. (a \o b)[i] = i
        BY <1>1, <2>0, <3>1 DEF Counted, Numbered
      <3> QED
        BY <3>2, <3>3 DEF Numbered
    <2> QED
      BY <1>0, <2>1, NumberFacts, SeqEqual DEF Counted, Bytes
  <1>2. ASSUME NEW n \in Nat, a = Numbered(n) PROVE Append(a, n + 1) = Numbered(n + 1)
    <2>1. Len(a) = n /\ n + 1 \in Nat
      BY <1>2, NumberFacts
    <2>2. /\ Append(a, n + 1) \in Bytes /\ Len(Append(a, n + 1)) = n + 1
          /\ \A i \in 1..n : Append(a, n + 1)[i] = a[i]
          /\ Append(a, n + 1)[n + 1] = n + 1
      BY <2>1, AppendProperties DEF Bytes
    <2>3. ASSUME NEW i \in 1..n + 1 PROVE Append(a, n + 1)[i] = Numbered(n + 1)[i]
      <3>1. Numbered(n + 1)[i] = i
        BY DEF Numbered
      <3>2. CASE i \in 1..n
        BY <1>2, <2>2, <3>1, <3>2 DEF Numbered
      <3>3. CASE i = n + 1
        BY <2>2, <3>1, <3>3
      <3>4. i \in 1..n \/ i = n + 1
        BY <1>2
      <3> QED
        BY <3>2, <3>3, <3>4
    <2> QED
      BY <2>1, <2>2, <2>3, NumberFacts, SeqEqual DEF Bytes
  <1> QED
    BY <1>1, <1>2

\* A message has its size in front, and is not empty.
LEMMA MessageFacts ==
    /\ \A n \in Nat : SizeField(n) \in Bytes /\ Len(SizeField(n)) = SizeBytes
    /\ \A s \in Bytes : Frame(s) \in Bytes /\ Frame(s) # <<>>
                        /\ Len(Frame(s)) = SizeBytes + Len(s)
  <1>0. SizeBytes \in Nat /\ SizeBytes > 0 /\ Base \in Nat /\ Base > 0
    BY FramingAssumption
  <1>1. ASSUME NEW n \in Nat PROVE SizeField(n) \in Bytes /\ Len(SizeField(n)) = SizeBytes
    <2>1. ASSUME NEW i \in 1..SizeBytes PROVE (n \div Weight[SizeBytes - i]) % Base \in Nat
      <3>1. PICK w \in Nat \ {0} : w = Weight[SizeBytes - i]
        BY <1>0, WeightFacts DEF Powers
      <3>2. n \div w \in Nat /\ Base \in Nat \ {0}
        BY <1>0, DivisionFacts
      <3> QED
        BY <3>1, <3>2, DivisionFacts
    <2>2. SizeField(n) \in [1..SizeBytes -> Nat]
      BY <2>1 DEF SizeField
    <2>3. SizeField(n) \in Bytes
      BY <1>0, <2>2 DEF Bytes
    <2> QED
      BY <1>0, <2>2, <2>3 DEF Bytes
  <1>2. ASSUME NEW s \in Bytes
        PROVE  Frame(s) \in Bytes /\ Frame(s) # <<>> /\ Len(Frame(s)) = SizeBytes + Len(s)
    <2>1. Len(s) \in Nat
      BY BufferFacts, ConcatFacts
    <2>2. SizeField(Len(s)) \in Bytes /\ Len(SizeField(Len(s))) = SizeBytes
      BY <1>1, <2>1
    <2>3. Frame(s) \in Bytes /\ Len(Frame(s)) = SizeBytes + Len(s)
      BY <2>2, BufferFacts, ConcatFacts DEF Frame
    <2> QED
      BY <1>0, <2>1, <2>3, BufferFacts, ConcatFacts
  <1> QED
    BY <1>1, <1>2

-----------------------------------------------------------------------------
(* What is on the way.                                                     *)

\* What the pseudo-terminal has taken, or write_all is about to give it.
Arrived == got \o (pty \o sink.left)

ByteTypes ==
    /\ typed \in Nat /\ input \in Bytes
    /\ tx \in Bytes /\ net \in Bytes /\ link \in {"up", "down"}
    /\ reader.pc \in {"size", "body", "failed"} /\ reader.got \in Bytes
    /\ sink.pc \in {"recv", "write", "closed"} /\ sink.left \in Bytes
    /\ pty \in Bytes /\ got \in Bytes

\* Nothing is on the way between the two tasks.
Nothing == reader.pc = "size" /\ reader.got = <<>> /\ net = <<>> /\ tx = <<>>

\* A task that is registered is parked.
Asleep(fd) == fd.waker => fd.pc = "parked"

\* One of the source, the connection and the sink has a packet, as long as the
\* connection lasts; the receiver fails only without one.
Turn ==
    /\ Asleep(stdin)
    /\ sink.pc # "write" => sink.left = <<>>
    /\ reader.pc = "size" => reader.need = SizeBytes /\ Len(reader.got) < SizeBytes
    /\ reader.pc = "failed" => link = "down"
    /\ link = "up" /\ stdin.pc # "idle" => sink.pc # "write" /\ Nothing
    /\ link = "up" /\ sink.pc = "write" => Nothing

\* The message of which a reader has the first bytes, and of which "all" is what it
\* has not taken off: with its size, or without; d is the packet in it.
Message(r, all, tag, d) ==
    /\ tag = ClosedTag => d = <<>>
    /\ Len(d) <= MaxPacket
    /\ \/ r.pc = "size" /\ all = Frame(<<tag>> \o d)
       \/ r.pc = "body" /\ r.need = Len(d) + 1 /\ all = <<tag>> \o d

Holds(r, all, d) ==
    \/ r.pc = "size" /\ all = <<>> /\ d = <<>>
    \/ r.pc = "failed" /\ d = <<>>
    \/ \E tag \in {DataTag, ClosedTag} : Message(r, all, tag, d)

\* The packet under way is d; rest is the end of its message, which a connection that
\* is lost has taken with it.
Carries(rest, d) ==
    /\ link = "up" => rest = tx
    /\ Holds(reader, reader.got \o (net \o rest), d)
    /\ Counted(Arrived \o d)
    /\ link = "up" => Arrived \o (d \o input) = Numbered(typed)

PathInv == ByteTypes /\ Turn /\ \E rest, d \in Bytes : Carries(rest, d)

\* At the start nothing is under way.
LEMMA PathInit == Init => PathInv
  <1> SUFFICES ASSUME Init PROVE PathInv
    OBVIOUS
  <1>1. /\ typed = 0 /\ input = <<>> /\ tx = <<>> /\ net = <<>> /\ link = "up"
        /\ reader.pc = "size" /\ reader.got = <<>> /\ reader.need = SizeBytes
        /\ sink.pc = "recv" /\ sink.left = <<>> /\ pty = <<>> /\ got = <<>>
        /\ ~stdin.waker
    BY DEF Init, NewReader, Polled, Registered
  <1>2. ByteTypes
    BY <1>1, BufferFacts DEF ByteTypes
  <1>3. Turn
    BY <1>1, FramingAssumption DEF Turn, Nothing, Asleep
  <1>4. <<>> \in Bytes /\ <<>> \o <<>> = <<>> /\ Numbered(0) = <<>>
    <2>1. Numbered(0) \in Bytes /\ Len(Numbered(0)) = 0
      BY NumberFacts
    <2> QED
      BY <2>1, BufferFacts
  <1>5. Carries(<<>>, <<>>)
    BY <1>1, <1>4 DEF Carries, Holds, Arrived, Counted
  <1> QED
    BY <1>2, <1>3, <1>4, <1>5 DEF PathInv

-----------------------------------------------------------------------------
(* The steps of the input.                                                 *)

\* How a descriptor wakes up, and falls asleep.
LEMMA AsleepFacts ==
    ASSUME NEW fd \in FdState, Asleep(fd)
    PROVE  /\ Asleep(BecomesUsable(fd)) /\ BecomesUsable(fd).pc = fd.pc
           /\ DriverRuns(fd) => Asleep(Driven(fd)) /\ (Driven(fd).pc # "idle" => fd.pc # "idle")
           /\ fd.pc = "poll" => Asleep(PollReady(fd))
           /\ fd.pc = "io" => Asleep(WouldBlock(fd))
           /\ fd.pc = "clear" => Asleep(Cleared(fd))
           /\ fd.pc = "io" => Asleep(Completed(fd)) /\ Completed(fd).pc = "idle"
           /\ fd.pc = "idle" => Asleep(Polled(fd))
  <1> USE DEF FdState, Asleep
  <1>1. Asleep(BecomesUsable(fd)) /\ BecomesUsable(fd).pc = fd.pc
    BY DEF BecomesUsable
  <1>2. DriverRuns(fd) => Asleep(Driven(fd)) /\ (Driven(fd).pc # "idle" => fd.pc # "idle")
    BY DEF DriverRuns, Driven
  <1>3. fd.pc = "poll" => Asleep(PollReady(fd))
    BY DEF PollReady
  <1>4. fd.pc = "io" => Asleep(WouldBlock(fd))
    BY DEF WouldBlock
  <1>5. fd.pc = "clear" => Asleep(Cleared(fd))
    BY DEF Cleared
  <1>6. fd.pc = "io" => Asleep(Completed(fd)) /\ Completed(fd).pc = "idle"
    BY DEF Completed
  <1>7. fd.pc = "idle" => Asleep(Polled(fd))
    BY DEF Polled
  <1> QED
    BY <1>1, <1>2, <1>3, <1>4, <1>5, <1>6, <1>7, Zenon

\* A step of a descriptor moves no byte.
LEMMA FdStep ==
    ASSUME PathInv, UNCHANGED <<typed, input, tx, net, link, reader, sink, pty, got>>,
           Asleep(stdin'), stdin'.pc # "idle" => stdin.pc # "idle"
    PROVE  PathInv'
  <1>1. PICK rest \in Bytes, d \in Bytes : Carries(rest, d)
    BY DEF PathInv
  <1>2. Carries(rest, d)'
    BY <1>1 DEF Carries, Arrived
  <1>3. ByteTypes' /\ Turn'
    BY DEF PathInv, ByteTypes, Turn, Nothing, Asleep
  <1> QED
    BY <1>2, <1>3 DEF PathInv

LEMMA FdSteps ==
    ASSUME Inv, PathInv, EndOfInput \/ StdinPoll \/ PtyPoll
    PROVE  PathInv'
  <1>0. stdin \in FdState /\ Asleep(stdin)
    BY DEF Inv, PathTypes, PathInv, Turn
  <1>1. UNCHANGED <<typed, input, tx, net, link, reader, sink, pty, got>>
    BY DEF EndOfInput, StdinPoll, PtyPoll, inVars, netVars, outVars
  <1>2. Asleep(stdin') /\ (stdin'.pc # "idle" => stdin.pc # "idle")
    <2>1. CASE EndOfInput
      BY <1>0, <2>1, AsleepFacts DEF EndOfInput
    <2>2. CASE StdinPoll
      BY <1>0, <2>2, AsleepFacts DEF StdinPoll
    <2>3. CASE PtyPoll
      BY <1>0, <2>3 DEF PtyPoll, inVars
    <2> QED
      BY <2>1, <2>2, <2>3
  <1> QED
    BY <1>1, <1>2, FdStep

\* What is typed comes last.
LEMMA TypeStep == ASSUME Inv, PathInv, Type PROVE PathInv'
  <1>0. /\ ByteTypes /\ Turn /\ stdin \in FdState /\ Asleep(stdin)
        /\ typed' = typed + 1 /\ input' = Append(input, typed + 1)
        /\ stdin' \in {stdin, BecomesUsable(stdin)}
        /\ UNCHANGED <<tx, net, link, reader, sink, pty, got>>
    BY DEF Inv, PathTypes, PathInv, Turn, Type, netVars, outVars
  <1>1. PICK rest \in Bytes, d \in Bytes : Carries(rest, d)
    BY DEF PathInv
  <1>2. input' = input \o <<typed + 1>> /\ input' \in Bytes /\ typed' \in Nat
    <2>1. input \in Seq(Nat) /\ typed + 1 \in Nat
      BY <1>0 DEF ByteTypes, Bytes
    <2>2. Append(input, typed + 1) = input \o <<typed + 1>>
      BY <2>1, AppendIsConcat
    <2>3. Append(input, typed + 1) \in Seq(Nat)
      BY <2>1, AppendProperties
    <2> QED
      BY <1>0, <2>1, <2>2, <2>3 DEF Bytes
  <1>3. ByteTypes'
    BY <1>0, <1>2 DEF ByteTypes
  <1>4. Turn'
    <2>1. Asleep(stdin') /\ stdin'.pc = stdin.pc
      BY <1>0, AsleepFacts
    <2> QED
      BY <1>0, <2>1 DEF Turn, Nothing
  <1>5. link = "up" => Arrived \o (d \o input') = Numbered(typed + 1)
    <2>1. /\ Arrived \in Bytes /\ input \in Bytes /\ d \o input \in Bytes
          /\ <<typed + 1>> \in Bytes /\ typed + 1 \in Nat
          /\ Arrived \o (d \o input) \in Bytes
      <3>1. Arrived \in Bytes
        BY <1>0, ConcatFacts DEF ByteTypes, Arrived
      <3>2. input \in Bytes /\ typed + 1 \in Nat
        BY <1>0 DEF ByteTypes
      <3> QED
        BY <3>1, <3>2, BufferFacts, ConcatFacts
    <2>2. Regrouped(d, input, <<typed + 1>>)
      BY <2>1, Regroup
    <2>3. Regrouped(Arrived, d \o input, <<typed + 1>>)
      BY <2>1, Regroup
    <2>4. link = "up" => Append(Arrived \o (d \o input), typed + 1) = Numbered(typed + 1)
      BY <1>0, <1>1, <2>1, CountedFacts DEF Carries, ByteTypes
    <2>5. Append(Arrived \o (d \o input), typed + 1) = (Arrived \o (d \o input)) \o <<typed + 1>>
      BY <1>0, <2>1, AppendIsConcat DEF ByteTypes, Bytes
    <2> QED
      BY <1>2, <2>2, <2>3, <2>4, <2>5 DEF Regrouped
  <1>6. Carries(rest, d)'
    BY <1>0, <1>1, <1>5 DEF Carries, Arrived
  <1> QED
    BY <1>3, <1>4, <1>6 DEF PathInv

\* If nothing is on the way there is no packet.
LEMMA NoPacket ==
    ASSUME ByteTypes, Nothing, link = "up",
           NEW rest \in Bytes, NEW d \in Bytes, Carries(rest, d)
    PROVE  d = <<>>
  <1> DEFINE all == reader.got \o (net \o rest)
  <1>1. all = <<>> /\ reader.pc = "size"
    BY BufferFacts DEF Nothing, Carries
  <1>2. Holds(reader, all, d)
    BY DEF Carries
  <1>3. ASSUME NEW tag \in {DataTag, ClosedTag} PROVE Frame(<<tag>> \o d) # <<>>
    <2>1. <<tag>> \in Bytes
      BY BufferFacts DEF DataTag, ClosedTag
    <2> QED
      BY <2>1, ConcatFacts, MessageFacts
  <1> HIDE DEF all
  <1> QED
    BY <1>1, <1>2, <1>3 DEF Holds, Message

\* The packet e is read and sent, i is what remains of the input.
Hands(tag, e, i) ==
    /\ tx' = Frame(<<tag>> \o e) /\ input' = i /\ e \o i = input
    /\ (tag = ClosedTag => e = <<>>) /\ Len(e) <= MaxPacket

\* What is read becomes the packet, while nothing else is on the way.
LEMMA ReadStep == ASSUME Inv, PathInv, StdinRead PROVE PathInv'
  <1>0. /\ ByteTypes /\ Turn /\ stdin \in FdState /\ Asleep(stdin) /\ stdin.pc = "io"
        /\ stdin' = Completed(stdin)
        /\ UNCHANGED <<typed, net, link, reader, sink, pty, got>>
        /\ MaxPacket \in Nat
    BY BytePathAssumption
    DEF Inv, PathTypes, PathInv, Turn, StdinRead, outVars
  <1>1. PICK rest \in Bytes, d \in Bytes : Carries(rest, d)
    BY DEF PathInv
  <1>2. Turn'
    <2>1. Asleep(stdin') /\ stdin'.pc = "idle"
      BY <1>0, AsleepFacts
    <2> QED
      BY <1>0, <2>1 DEF Turn
  <1>3. \E tag \in {DataTag, ClosedTag}, e \in Bytes, i \in Bytes : Hands(tag, e, i)
    <2>1. ASSUME NEW n \in UpTo(Len(input), MaxPacket),
                 tx' = Frame(<<DataTag>> \o FirstOf(input, n)), input' = Without(input, n)
          PROVE  \E e \in Bytes, i \in Bytes : Hands(DataTag, e, i)
      <3>1. input \in Bytes /\ Len(input) \in Nat
        BY <1>0, BufferFacts DEF ByteTypes
      <3>2. n \in 0..Len(input) /\ n <= MaxPacket
        BY <1>0, <3>1, UpToFacts
      <3>3. /\ FirstOf(input, n) \in Bytes /\ Len(FirstOf(input, n)) = n
            /\ Without(input, n) \in Bytes
            /\ FirstOf(input, n) \o Without(input, n) = input
        BY <3>1, <3>2, PartFacts
      <3>4. DataTag # ClosedTag
        BY DEF DataTag, ClosedTag
      <3>5. Hands(DataTag, FirstOf(input, n), Without(input, n))
        BY <2>1, <3>2, <3>3, <3>4 DEF Hands
      <3> QED
        BY <3>3, <3>5
    <2>2. ASSUME tx' = Frame(<<ClosedTag>>), input' = input
          PROVE  \E e \in Bytes, i \in Bytes : Hands(ClosedTag, e, i)
      <3>1. <<ClosedTag>> \o <<>> = <<ClosedTag>> /\ <<>> \o input = input
            /\ <<>> \in Bytes /\ input \in Bytes /\ Len(<<>>) = 0
        BY <1>0, BufferFacts DEF ByteTypes, ClosedTag
      <3>2. Hands(ClosedTag, <<>>, input)
        BY <1>0, <2>2, <3>1 DEF Hands
      <3> QED
        BY <3>1, <3>2
    <2> QED
      BY <2>1, <2>2 DEF StdinRead
  <1>a. PICK tag \in {DataTag, ClosedTag}, e \in Bytes, i \in Bytes : Hands(tag, e, i)
    BY <1>3
  <1>4. /\ tx' = Frame(<<tag>> \o e) /\ input' = i /\ e \o i = input
        /\ (tag = ClosedTag => e = <<>>) /\ Len(e) <= MaxPacket
    BY <1>a DEF Hands
  <1>5. <<tag>> \o e \in Bytes /\ Frame(<<tag>> \o e) \in Bytes
    BY BufferFacts, ConcatFacts, MessageFacts DEF DataTag, ClosedTag
  <1>6. ByteTypes'
    BY <1>0, <1>4, <1>5 DEF ByteTypes
  <1>7. CASE link = "up"
    <2>1. Nothing /\ d = <<>> /\ reader.pc = "size" /\ reader.got = <<>> /\ net = <<>>
      BY <1>0, <1>1, <1>7, NoPacket DEF Turn, Nothing
    <2>2. PICK t \in Bytes : t = Frame(<<tag>> \o e)
      BY <1>5
    <2>3. Arrived \in Bytes
      BY <1>0, ConcatFacts DEF ByteTypes, Arrived
    <2>4. Arrived \o (e \o i) = Numbered(typed)
      BY <1>0, <1>1, <1>4, <1>7, <2>1, BufferFacts DEF Carries, ByteTypes
    <2>5. Counted(Arrived \o e)
      <3>1. Regrouped(Arrived, e, i)
        BY <2>3, Regroup
      <3>2. Counted((Arrived \o e) \o i)
        BY <1>0, <2>4, <3>1, NumberFacts DEF ByteTypes, Regrouped
      <3>3. Arrived \o e \in Bytes
        BY <2>3, ConcatFacts
      <3> QED
        BY <3>2, <3>3, CountedFacts
    <2>6. Holds(reader, reader.got \o (net \o t), e)
      <3>1. reader.got \o (net \o t) = t
        BY <2>1, <2>2, BufferFacts
      <3> QED
        BY <1>4, <2>1, <2>2, <3>1 DEF Holds, Message
    <2>7. Carries(t, e)'
      BY <1>0, <1>4, <2>2, <2>4, <2>5, <2>6 DEF Carries, Arrived
    <2> QED
      BY <1>2, <1>6, <2>2, <2>7 DEF PathInv
  <1>8. CASE link # "up"
    <2>1. Carries(rest, d)'
      BY <1>0, <1>1, <1>8 DEF Carries, Arrived
    <2> QED
      BY <1>2, <1>6, <2>1 DEF PathInv
  <1> QED
    BY <1>7, <1>8

-----------------------------------------------------------------------------
(* The steps of the connection.                                            *)

\* A part of the message goes from one buffer to the next.
LEMMA SendStep == ASSUME PathInv, SendSome PROVE PathInv'
  <1>0. /\ ByteTypes /\ Turn /\ link = "up" /\ NetCap \in Nat
        /\ UNCHANGED <<typed, input, stdin, link, reader, sink, pty, got>>
    BY BytePathAssumption DEF PathInv, SendSome, inVars, outVars
  <1>1. PICK rest \in Bytes, d \in Bytes : Carries(rest, d)
    BY DEF PathInv
  <1>2. PICK n \in UpTo(Len(tx), NetCap - Len(net)) :
          net' = net \o FirstOf(tx, n) /\ tx' = Without(tx, n)
    BY DEF SendSome
  <1>3. tx \in Bytes /\ net \in Bytes /\ Len(tx) \in Nat /\ Len(net) \in Nat
    BY <1>0, BufferFacts DEF ByteTypes
  <1>4. n \in 0..Len(tx) /\ tx # <<>>
    <2>1. n \in Nat /\ 1 <= n /\ n <= Len(tx)
      BY <1>0, <1>3, UpToFacts
    <2> QED
      BY <1>3, <2>1, BufferFacts
  <1>5. PICK f \in Bytes, w \in Bytes :
          f = FirstOf(tx, n) /\ w = Without(tx, n) /\ f \o w = tx
    <2>1. /\ FirstOf(tx, n) \in Bytes /\ Without(tx, n) \in Bytes
          /\ FirstOf(tx, n) \o Without(tx, n) = tx
      BY <1>3, <1>4, PartFacts
    <2> QED
      BY <2>1
  <1>6. net' = net \o f /\ tx' = w /\ net \o f \in Bytes
    BY <1>2, <1>3, <1>5, ConcatFacts
  <1>7. ByteTypes'
    BY <1>0, <1>6 DEF ByteTypes
  <1>8. Turn'
    BY <1>0, <1>4 DEF Turn, Nothing
  <1>9. Carries(w, d)'
    <2>1. Regrouped(net, f, w)
      BY <1>3, Regroup
    <2>2. f \o w = rest
      BY <1>0, <1>1, <1>5 DEF Carries
    <2> QED
      BY <1>0, <1>1, <1>6, <2>1, <2>2 DEF Carries, Arrived, Regrouped
  <1> QED
    BY <1>7, <1>8, <1>9 DEF PathInv

\* A reader that has read a part of the message holds the rest of it.
LEMMA ReadHolds ==
    ASSUME ByteTypes, Turn,
           NEW f \in Bytes, f # <<>>, NEW b \in Bytes, NEW d \in Bytes, NEW r,
           reader = [pc |-> reader.pc, need |-> reader.need, got |-> reader.got],
           reader.pc \in {"size", "body"}, Len(reader.got) + Len(f) <= reader.need,
           Holds(reader, reader.got \o (f \o b), d),
           r = ReadSome(reader, f)
    PROVE  /\ r.pc \in {"size", "body"} /\ r.got \in Bytes
           /\ r.pc = "size" => r.need = SizeBytes /\ Len(r.got) < SizeBytes
           /\ Holds(r, r.got \o b, d)
  <1> DEFINE g == reader.got \o f
             all == reader.got \o (f \o b)
  <1>0. /\ reader.got \in Bytes /\ g \in Bytes /\ Len(g) = Len(reader.got) + Len(f)
        /\ Len(g) \in Nat /\ g # <<>> /\ all = g \o b
        /\ SizeBytes \in Nat /\ MaxPacket \in Nat /\ MaxPacket < SizeLimit
    <2>1. reader.got \in Bytes
      BY DEF ByteTypes
    <2>2. /\ Len(reader.got) \in Nat /\ Len(f) \in Nat /\ Len(f) # 0
          /\ g \in Bytes /\ Len(g) = Len(reader.got) + Len(f) /\ (Len(g) = 0 <=> g = <<>>)
      BY <2>1, BufferFacts, ConcatFacts
    <2>3. Regrouped(reader.got, f, b)
      BY <2>1, Regroup
    <2>4. all = g \o b
      BY <2>3 DEF Regrouped
    <2> HIDE DEF g, all
    <2> QED
      BY <2>1, <2>2, <2>4, FramingAssumption, BytePathAssumption
  <1>1. CASE reader.pc = "size" /\ Len(g) = SizeBytes
    <2>1. all # <<>>
      <3>1. Len(b) \in Nat /\ Len(g \o b) = Len(g) + Len(b) /\ Len(g) # 0
        BY <1>0, BufferFacts, ConcatFacts
      <3>2. Len(g) + Len(b) # 0 /\ Len(<<>>) = 0
        BY <1>0, <3>1
      <3> HIDE DEF g, all
      <3> QED
        BY <1>0, <3>1, <3>2
    <2>2. PICK tag \in {DataTag, ClosedTag} : Message(reader, all, tag, d)
      <3> HIDE DEF g, all
      <3>1. Holds(reader, all, d)
        BY DEF all
      <3> QED
        BY <1>1, <2>1, <3>1 DEF Holds
    <2>3. /\ (tag = ClosedTag => d = <<>>) /\ Len(d) <= MaxPacket
          /\ all = SizeField(Len(<<tag>> \o d)) \o (<<tag>> \o d)
      <3> HIDE DEF g, all
      <3> QED
        BY <1>1, <2>2 DEF Message, Frame
    <2>4. /\ <<tag>> \o d \in Bytes /\ Len(<<tag>> \o d) = Len(d) + 1 /\ Len(d) \in Nat
      <3>1. <<tag>> \in Bytes /\ Len(<<tag>>) = 1 /\ Len(d) \in Nat
        BY BufferFacts DEF DataTag, ClosedTag
      <3>2. <<tag>> \o d \in Bytes /\ Len(<<tag>> \o d) = 1 + Len(d)
        BY <3>1, ConcatFacts
      <3> QED
        BY <3>1, <3>2
    <2>5. PICK m \in Bytes : m = <<tag>> \o d
      BY <2>4
    <2>6. PICK k \in Nat : k = Len(d) + 1
      BY <2>4
    <2>7. PICK z \in Bytes : z = SizeField(k) /\ Len(z) = SizeBytes
      BY MessageFacts
    <2>8. g = z /\ b = m
      <3> HIDE DEF g, all
      <3>1. g \o b = z \o m
        BY <1>0, <2>3, <2>4, <2>5, <2>6, <2>7
      <3> QED
        BY <1>0, <1>1, <2>7, <3>1, SplitFacts
    <2>9. SizeOf(g) = k /\ k \in 1..SizeLimit
      <3> HIDE DEF g, all
      <3>1. k \in 1..MaxPacket + 1
        BY <1>0, <2>3, <2>4, <2>6
      <3>2. k \in 1..SizeLimit
        BY <1>0, <3>1, FramingAssumption
      <3>3. SizeOf(SizeField(k)) = k
        BY <3>2, SizeIsRead
      <3> QED
        BY <2>7, <2>8, <3>2, <3>3
    <2>10. r = [pc |-> "body", need |-> k, got |-> <<>>]
      <3>1. r = SizeRead(SizeOf(g))
        BY <1>1 DEF ReadSome
      <3> HIDE DEF g, all
      <3> QED
        BY <2>9, <3>1 DEF SizeRead
    <2>11. Message(r, b, tag, d)
      BY <2>3, <2>5, <2>6, <2>8, <2>10 DEF Message
    <2> QED
      BY <2>10, <2>11, BufferFacts DEF Holds
  <1>2. CASE ~(reader.pc = "size" /\ Len(g) = SizeBytes)
    <2>1. r = [reader EXCEPT !.got = g]
      BY <1>2 DEF ReadSome
    <2> HIDE DEF g
    <2>2. r = [pc |-> reader.pc, need |-> reader.need, got |-> g]
      BY <2>1
    <2>3. reader.pc = "size" => reader.need = SizeBytes /\ Len(g) < SizeBytes
      <3>1. reader.pc = "size" => reader.need = SizeBytes /\ Len(g) # SizeBytes
        BY <1>2 DEF Turn
      <3>2. PICK n, k : n = Len(g) /\ k = reader.need
        OBVIOUS
      <3>3. n \in Nat /\ n <= k
        BY <1>0, <3>2
      <3>4. ASSUME reader.pc = "size" PROVE n < SizeBytes
        <4>1. k = SizeBytes /\ n # SizeBytes
          BY <3>1, <3>2, <3>4
        <4> QED
          BY <1>0, <3>3, <4>1
      <3> QED
        BY <3>1, <3>2, <3>4
    <2>4. PICK a : a = g \o b
      OBVIOUS
    <2>5. Holds(reader, a, d) /\ r.pc = reader.pc /\ r.need = reader.need
      BY <1>0, <2>2, <2>4
    <2>6. Holds(r, a, d)
      BY <2>5 DEF Holds, Message
    <2> QED
      BY <1>0, <2>2, <2>3, <2>4, <2>6
  <1> QED
    BY <1>1, <1>2

\* Some more of the message arrives.
LEMMA ReceiveStep ==
    ASSUME Inv, PathInv, ReceiveSome
    PROVE  PathInv'
  <1>0. /\ ByteTypes /\ Turn /\ reader.pc \in {"size", "body"}
        /\ reader = [pc |-> reader.pc, need |-> reader.need, got |-> reader.got]
        /\ reader.need \in Nat
        /\ UNCHANGED <<typed, input, stdin, tx, link, sink, pty, got>>
    BY DEF Inv, PathTypes, PathInv, ReceiveSome, inVars, outVars
  <1>1. PICK rest \in Bytes, d \in Bytes : Carries(rest, d)
    BY DEF PathInv
  <1>2. PICK n \in UpTo(Len(net), reader.need - Len(reader.got)) :
          reader' = ReadSome(reader, FirstOf(net, n)) /\ net' = Without(net, n)
    BY DEF ReceiveSome
  <1>3. /\ net \in Bytes /\ Len(net) \in Nat
        /\ reader.got \in Bytes /\ Len(reader.got) \in Nat
    BY <1>0, BufferFacts DEF ByteTypes
  <1>4. /\ n \in 0..Len(net) /\ n >= 1 /\ n + Len(reader.got) <= reader.need /\ n \in Nat
    <2>1. PICK m \in Int : m = reader.need - Len(reader.got)
      BY <1>0, <1>3
    <2>2. n \in UpTo(Len(net), m)
      BY <2>1
    <2>3. n \in Nat /\ 1 <= n /\ n <= Len(net) /\ n <= m
      BY <1>3, <2>2, UpToFacts
    <2> QED
      BY <1>0, <1>3, <2>1, <2>3
  <1>5. PICK f \in Bytes, w \in Bytes :
          f = FirstOf(net, n) /\ w = Without(net, n) /\ f \o w = net /\ Len(f) = n
    <2>1. /\ FirstOf(net, n) \in Bytes /\ Len(FirstOf(net, n)) = n
          /\ Without(net, n) \in Bytes /\ FirstOf(net, n) \o Without(net, n) = net
      BY <1>3, <1>4, PartFacts
    <2> QED
      BY <2>1
  <1>6. f # <<>> /\ net # <<>>
    BY <1>3, <1>4, <1>5, BufferFacts
  <1>7. PICK b \in Bytes : b = w \o rest
    BY ConcatFacts
  <1>8. net \o rest = f \o b
    <2>1. Regrouped(f, w, rest)
      BY Regroup
    <2> QED
      BY <1>5, <1>7, <2>1 DEF Regrouped
  <1>9. PICK r : r = ReadSome(reader, f)
    OBVIOUS
  <1>10. /\ r.pc \in {"size", "body"} /\ r.got \in Bytes
         /\ r.pc = "size" => r.need = SizeBytes /\ Len(r.got) < SizeBytes
         /\ Holds(r, r.got \o b, d)
    <2>1. Len(reader.got) + Len(f) <= reader.need
      BY <1>0, <1>3, <1>4, <1>5
    <2>2. Holds(reader, reader.got \o (f \o b), d)
      BY <1>1, <1>8 DEF Carries
    <2> QED
      BY <1>0, <1>6, <1>9, <2>1, <2>2, ReadHolds
  <1>11. reader' = r /\ net' = w
    BY <1>2, <1>5, <1>9
  <1>12. ByteTypes'
    BY <1>0, <1>10, <1>11 DEF ByteTypes
  <1>13. Turn'
    BY <1>0, <1>6, <1>10, <1>11 DEF Turn, Nothing
  <1>14. Carries(rest, d)'
    BY <1>0, <1>1, <1>7, <1>10, <1>11 DEF Carries, Arrived
  <1> QED
    BY <1>12, <1>13, <1>14 DEF PathInv

\* What a message that is complete holds is its packet, and nothing follows it.
LEMMA WholeMessage ==
    ASSUME ByteTypes, HasMessage(reader), NEW rest \in Bytes, NEW d \in Bytes,
           Holds(reader, reader.got \o (net \o rest), d)
    PROVE  /\ net = <<>> /\ rest = <<>>
           /\ \E tag \in {DataTag, ClosedTag} :
                reader.got = <<tag>> \o d /\ (tag = ClosedTag => d = <<>>)
  <1> DEFINE all == reader.got \o (net \o rest)
  <1>0. reader.got \in Bytes /\ net \in Bytes /\ net \o rest \in Bytes
    BY ConcatFacts DEF ByteTypes
  <1>1. reader.pc = "body" /\ Len(reader.got) = reader.need
    BY DEF HasMessage
  <1>2. PICK tag \in {DataTag, ClosedTag} : Message(reader, all, tag, d)
    <2>1. Holds(reader, all, d)
      OBVIOUS
    <2> HIDE DEF all
    <2> QED
      BY <1>1, <2>1 DEF Holds
  <1>3. /\ reader.need = Len(d) + 1 /\ all = <<tag>> \o d
        /\ (tag = ClosedTag => d = <<>>)
    <2> HIDE DEF all
    <2> QED
      BY <1>1, <1>2 DEF Message
  <1>4. PICK m \in Bytes : m = <<tag>> \o d /\ Len(m) = Len(d) + 1
    <2>1. <<tag>> \in Bytes /\ Len(<<tag>>) = 1 /\ Len(d) \in Nat
      BY BufferFacts DEF DataTag, ClosedTag
    <2>2. <<tag>> \o d \in Bytes /\ Len(<<tag>> \o d) = 1 + Len(d)
      BY <2>1, ConcatFacts
    <2>3. Len(<<tag>> \o d) = Len(d) + 1
      BY <2>1, <2>2
    <2> QED
      BY <2>2, <2>3
  <1>5. reader.got = m /\ net \o rest = <<>>
    <2>1. reader.got \o (net \o rest) = m \o <<>> /\ <<>> \in Bytes
      BY <1>3, <1>4, BufferFacts
    <2>2. PICK a \in Bytes, b \in Bytes : a = reader.got /\ b = net \o rest
      BY <1>0
    <2>3. a \o b = m \o <<>> /\ Len(a) = Len(m)
      BY <1>1, <1>3, <1>4, <2>1, <2>2
    <2>4. a = m /\ b = <<>>
      BY <2>1, <2>3, SplitFacts
    <2> QED
      BY <2>2, <2>4
  <1>6. net = <<>> /\ rest = <<>>
    <2>1. /\ Len(net \o rest) = Len(net) + Len(rest) /\ Len(<<>>) = 0
          /\ Len(net) \in Nat /\ Len(rest) \in Nat
      BY <1>0, BufferFacts, ConcatFacts
    <2>2. Len(net) = 0 /\ Len(rest) = 0
      BY <1>5, <2>1
    <2> QED
      BY <1>0, <2>2, BufferFacts
  <1> QED
    BY <1>3, <1>4, <1>5, <1>6

\* The packet is taken off its message.
LEMMA DeliverStep == ASSUME Inv, PathInv, Deliver PROVE PathInv'
  <1>0. /\ ByteTypes /\ Turn /\ HasMessage(reader) /\ reader.pc = "body"
        /\ sink = [pc |-> "recv", left |-> <<>>]
        /\ reader' = [pc |-> "size", need |-> SizeBytes, got |-> <<>>]
        /\ UNCHANGED <<typed, input, stdin, tx, net, link, pty, got>>
    BY DEF Inv, PathTypes, PathInv, Turn, Deliver, HasMessage, NewReader, inVars
  <1>1. PICK rest \in Bytes, d \in Bytes : Carries(rest, d)
    BY DEF PathInv
  <1>2. Holds(reader, reader.got \o (net \o rest), d)
    BY <1>1 DEF Carries
  <1>3. PICK tag \in {DataTag, ClosedTag} :
          reader.got = <<tag>> \o d /\ (tag = ClosedTag => d = <<>>)
    BY <1>0, <1>2, WholeMessage
  <1>4. net = <<>> /\ rest = <<>> /\ (link = "up" => tx = <<>>)
    BY <1>0, <1>1, <1>2, WholeMessage DEF Carries
  <1>5. Head(reader.got) = tag /\ Tail(reader.got) = d
    <2>1. <<tag>> \in Bytes /\ tag \in Nat
      BY BufferFacts DEF DataTag, ClosedTag
    <2> QED
      BY <1>3, <2>1 DEF Bytes
  <1>6. sink' \in {[pc |-> "write", left |-> d], [pc |-> "closed", left |-> d]}
    <2>1. CASE Head(reader.got) = DataTag /\ sink' = [pc |-> "write", left |-> Tail(reader.got)]
      BY <1>5, <2>1
    <2>2. CASE Head(reader.got) = ClosedTag /\ sink' = [sink EXCEPT !.pc = "closed"]
      BY <1>0, <1>3, <1>5, <2>2
    <2> QED
      BY <2>1, <2>2 DEF Deliver
  <1>7. sink'.left = d /\ sink'.pc \in {"write", "closed"} /\ (sink'.pc = "closed" => d = <<>>)
    <2>1. sink'.pc = "closed" => d = <<>>
      <3>1. CASE Head(reader.got) = DataTag /\ sink' = [pc |-> "write", left |-> Tail(reader.got)]
        BY <3>1
      <3>2. CASE Head(reader.got) = ClosedTag
        BY <1>3, <1>5, <3>2
      <3> QED
        BY <3>1, <3>2 DEF Deliver
    <2> QED
      BY <1>6, <2>1
  <1>8. ByteTypes'
    BY <1>0, <1>7, BufferFacts DEF ByteTypes
  <1>9. Turn'
    <2>1. SizeBytes \in Nat /\ SizeBytes > 0 /\ Len(<<>>) = 0
      BY FramingAssumption
    <2>2. link = "up" => stdin.pc = "idle"
      BY <1>0 DEF Turn, Nothing
    <2> QED
      BY <1>0, <1>4, <1>7, <2>1, <2>2 DEF Turn, Nothing
  <1>10. Carries(<<>>, <<>>)'
    <2>1. d \in Bytes /\ <<>> \in Bytes /\ input \in Bytes /\ pty \in Bytes /\ got \in Bytes
      BY <1>0, BufferFacts DEF ByteTypes
    <2>2. Arrived' = got \o (pty \o d) /\ Arrived = got \o pty
      BY <1>0, <1>7, <2>1, BufferFacts DEF Arrived
    <2>3. PICK a \in Bytes : a = got \o (pty \o d)
      BY <2>1, ConcatFacts
    <2>4. a = Arrived \o d
      <3>1. got \in Bytes /\ pty \in Bytes /\ d \in Bytes
        BY <2>1
      <3>2. Regrouped(got, pty, d)
        BY <3>1, Regroup
      <3> QED
        BY <2>2, <2>3, <3>2 DEF Regrouped
    <2>5. Counted(a \o <<>>) /\ a \o <<>> = a
      BY <1>1, <2>4, BufferFacts DEF Carries
    <2>6. link = "up" => a \o (<<>> \o input) = Numbered(typed)
      <3>1. Arrived \in Bytes
        BY <2>1, <2>2, ConcatFacts
      <3>2. Regrouped(Arrived, d, input)
        BY <2>1, <3>1, Regroup
      <3>3. <<>> \o input = input
        BY <2>1, BufferFacts
      <3> QED
        BY <1>1, <2>4, <3>2, <3>3 DEF Carries, Regrouped
    <2>7. <<>> \o (<<>> \o <<>>) = <<>>
      BY <2>1, BufferFacts
    <2> QED
      BY <1>0, <1>4, <2>2, <2>3, <2>5, <2>6, <2>7 DEF Carries, Holds
  <1> QED
    BY <1>8, <1>9, <1>10, BufferFacts DEF PathInv

\* The end of the message is lost with the connection, and the input behind it.
LEMMA LostStep == ASSUME PathInv, LinkLost PROVE PathInv'
  <1>0. /\ ByteTypes /\ Turn /\ link' = "down" /\ tx' = <<>>
        /\ UNCHANGED <<typed, input, stdin, reader, sink, pty, got>>
    BY DEF PathInv, LinkLost, inVars, outVars
  <1>1. PICK rest \in Bytes, d \in Bytes : Carries(rest, d)
    BY DEF PathInv
  <1>2. PICK i \in 0..Len(net) : net' = FirstOf(net, i)
    BY DEF LinkLost
  <1>3. net \in Bytes
    BY <1>0 DEF ByteTypes
  <1>4. PICK f \in Bytes, w \in Bytes : f = FirstOf(net, i) /\ f \o w = net
    <2>1. /\ FirstOf(net, i) \in Bytes /\ Without(net, i) \in Bytes
          /\ FirstOf(net, i) \o Without(net, i) = net
      BY <1>3, PartFacts
    <2> QED
      BY <2>1
  <1>5. PICK b \in Bytes : b = w \o rest
    BY ConcatFacts
  <1>6. f \o b = net \o rest
    <2>1. Regrouped(f, w, rest)
      BY Regroup
    <2> QED
      BY <1>4, <1>5, <2>1 DEF Regrouped
  <1>7. ByteTypes'
    BY <1>0, <1>2, <1>4, BufferFacts DEF ByteTypes
  <1>8. Turn'
    BY <1>0 DEF Turn
  <1>9. Carries(b, d)'
    BY <1>0, <1>1, <1>2, <1>4, <1>6 DEF Carries, Arrived
  <1> QED
    BY <1>7, <1>8, <1>9 DEF PathInv

\* A reader that fails has lost the packet.
LEMMA FailStep == ASSUME Inv, PathInv, ReceiveFails PROVE PathInv'
  <1>0. /\ ByteTypes /\ Turn /\ link = "down"
        /\ reader' = [pc |-> "failed", need |-> reader.need, got |-> reader.got]
        /\ UNCHANGED <<typed, input, stdin, tx, net, link, sink, pty, got>>
    BY DEF Inv, PathTypes, PathInv, ReceiveFails, inVars, outVars
  <1>1. PICK rest \in Bytes, d \in Bytes : Carries(rest, d)
    BY DEF PathInv
  <1>2. ByteTypes'
    BY <1>0 DEF ByteTypes
  <1>3. Turn'
    BY <1>0 DEF Turn
  <1>4. Counted(Arrived \o <<>>)
    <2>1. Arrived \in Bytes
      BY <1>0, ConcatFacts DEF ByteTypes, Arrived
    <2>2. Counted(Arrived) /\ Arrived \o <<>> = Arrived
      BY <1>1, <2>1, CountedFacts, BufferFacts DEF Carries
    <2> QED
      BY <2>2
  <1>5. Carries(rest, <<>>)'
    BY <1>0, <1>4 DEF Carries, Holds, Arrived
  <1> QED
    BY <1>2, <1>3, <1>5, BufferFacts DEF PathInv

-----------------------------------------------------------------------------
(* The steps of the output.                                                *)

\* What write_all has written is in the pseudo-terminal, and the rest is not lost.
LEMMA WriteStep == ASSUME Inv, PathInv, PtyWrite PROVE PathInv'
  <1>0. /\ ByteTypes /\ Turn /\ stdin \in FdState /\ PtyCap \in Nat
        /\ sink = [pc |-> sink.pc, left |-> sink.left]
        /\ UNCHANGED <<typed, input, tx, net, link, reader, got>>
    BY BytePathAssumption
    DEF Inv, PathTypes, PathInv, PtyWrite, netVars
  <1>1. PICK rest \in Bytes, d \in Bytes : Carries(rest, d)
    BY DEF PathInv
  <1>2. PICK n \in UpTo(Len(sink.left), PtyCap - Len(pty)) :
          /\ pty' = pty \o FirstOf(sink.left, n)
          /\ sink' = [sink EXCEPT !.left = Without(sink.left, n),
                                  !.pc = IF Without(sink.left, n) = <<>> THEN "recv" ELSE "write"]
    BY DEF PtyWrite, LeftByWriteAll
  <1>3. /\ sink.left \in Bytes /\ pty \in Bytes /\ got \in Bytes
        /\ Len(sink.left) \in Nat /\ Len(pty) \in Nat
    BY <1>0, BufferFacts DEF ByteTypes
  <1>4. n \in 0..Len(sink.left) /\ sink.left # <<>>
    <2>1. n \in Nat /\ 1 <= n /\ n <= Len(sink.left)
      BY <1>0, <1>3, UpToFacts
    <2> QED
      BY <1>3, <2>1, BufferFacts
  <1>5. PICK f \in Bytes, w \in Bytes :
          f = FirstOf(sink.left, n) /\ w = Without(sink.left, n) /\ f \o w = sink.left
    <2>1. /\ FirstOf(sink.left, n) \in Bytes /\ Without(sink.left, n) \in Bytes
          /\ FirstOf(sink.left, n) \o Without(sink.left, n) = sink.left
      BY <1>3, <1>4, PartFacts
    <2> QED
      BY <2>1
  <1>6. /\ pty' = pty \o f /\ pty \o f \in Bytes
        /\ sink' = [pc |-> IF w = <<>> THEN "recv" ELSE "write", left |-> w]
    BY <1>0, <1>2, <1>3, <1>5, ConcatFacts
  <1>7. Arrived' = Arrived
    <2>1. Regrouped(pty, f, w)
      <3>1. pty \in Bytes
        BY <1>3
      <3> QED
        BY <3>1, Regroup
    <2> QED
      BY <1>0, <1>5, <1>6, <2>1 DEF Arrived, Regrouped
  <1>8. ByteTypes'
    BY <1>0, <1>6 DEF ByteTypes
  <1>9. Turn'
    <2>1. sink.pc = "write" /\ (link = "up" => Nothing /\ stdin.pc = "idle")
      BY <1>0, <1>4 DEF Turn
    <2>2. Asleep(stdin') /\ (stdin' = stdin \/ sink'.pc # "write")
      <3>1. stdin' = stdin \/ (sink'.pc # "write" /\ stdin' = Polled(stdin) /\ link = "up")
        BY DEF PtyWrite
      <3>2. Asleep(stdin)
        BY <1>0 DEF Turn
      <3> QED
        BY <1>0, <2>1, <3>1, <3>2, AsleepFacts
    <2>3. sink'.pc # "write" => sink'.left = <<>>
      BY <1>6
    <2> QED
      BY <1>0, <2>1, <2>2, <2>3 DEF Turn, Nothing
  <1>10. Carries(rest, d)'
    BY <1>0, <1>1, <1>7 DEF Carries
  <1> QED
    BY <1>8, <1>9, <1>10 DEF PathInv

\* The child reads what is first.
LEMMA ChildStep == ASSUME Inv, PathInv, ChildReads PROVE PathInv'
  <1>0. /\ ByteTypes /\ Turn /\ PtyCap \in Nat
        /\ UNCHANGED <<typed, input, stdin, tx, net, link, reader, sink>>
    BY BytePathAssumption DEF PathInv, ChildReads, inVars, netVars
  <1>1. PICK rest \in Bytes, d \in Bytes : Carries(rest, d)
    BY DEF PathInv
  <1>2. PICK n \in UpTo(Len(pty), PtyCap) : got' = got \o FirstOf(pty, n) /\ pty' = Without(pty, n)
    BY DEF ChildReads
  <1>3. sink.left \in Bytes /\ pty \in Bytes /\ got \in Bytes /\ Len(pty) \in Nat
    BY <1>0, BufferFacts DEF ByteTypes
  <1>4. n \in 0..Len(pty)
    <2>1. n \in Nat /\ 1 <= n /\ n <= Len(pty)
      BY <1>0, <1>3, UpToFacts
    <2> QED
      BY <1>3, <2>1
  <1>5. PICK f \in Bytes, w \in Bytes :
          f = FirstOf(pty, n) /\ w = Without(pty, n) /\ f \o w = pty
    <2>1. /\ FirstOf(pty, n) \in Bytes /\ Without(pty, n) \in Bytes
          /\ FirstOf(pty, n) \o Without(pty, n) = pty
      BY <1>3, <1>4, PartFacts
    <2> QED
      BY <2>1
  <1>6. got' = got \o f /\ got \o f \in Bytes /\ pty' = w
    BY <1>2, <1>3, <1>5, ConcatFacts
  <1>7. Arrived' = Arrived
    <2>1. PICK g \in Bytes, l \in Bytes : g = got /\ l = sink.left
      BY <1>3
    <2>2. PICK e \in Bytes : e = w \o l
      BY ConcatFacts
    <2>3. Regrouped(g, f, e)
      BY Regroup
    <2>4. Regrouped(f, w, l)
      BY Regroup
    <2> QED
      BY <1>0, <1>5, <1>6, <2>1, <2>2, <2>3, <2>4 DEF Arrived, Regrouped
  <1>8. ByteTypes' /\ Turn'
    BY <1>0, <1>6 DEF ByteTypes, Turn, Nothing
  <1>9. Carries(rest, d)'
    BY <1>0, <1>1, <1>7 DEF Carries
  <1> QED
    BY <1>8, <1>9 DEF PathInv

\* The invariant is inductive.
LEMMA PathNext == Inv /\ PathInv /\ [Next]_vars => PathInv'
  <1>1. ASSUME PathInv, UNCHANGED vars PROVE PathInv'
    <2>1. Asleep(stdin)
      BY <1>1 DEF PathInv, Turn
    <2> QED
      BY <1>1, <2>1, FdStep DEF vars, inVars, netVars, outVars, Asleep
  <1> QED
    BY <1>1, TypeStep, FdSteps, ReadStep, SendStep, ReceiveStep, DeliverStep, LostStep, FailStep,
       WriteStep, ChildStep DEF Next, Terminated

\* What is under way is the packet.
LEMMA PathInOrder == PathInv => InOrder
  <1> SUFFICES ASSUME PathInv PROVE InOrder
    OBVIOUS
  <1>1. PICK rest \in Bytes, d \in Bytes : Carries(rest, d)
    BY DEF PathInv
  <1>2. /\ ByteTypes /\ Turn
        /\ Arrived \in Bytes /\ input \in Bytes /\ reader.got \in Bytes
        /\ net \in Bytes /\ tx \in Bytes
    BY ConcatFacts DEF PathInv, ByteTypes, Arrived
  <1>3. got \o pty \o sink.left = Arrived
    <2>1. got \in Bytes /\ pty \in Bytes /\ sink.left \in Bytes
      BY <1>2 DEF ByteTypes
    <2>2. Regrouped(got, pty, sink.left)
      BY <2>1, Regroup
    <2> QED
      BY <2>1, <2>2 DEF Arrived, Regrouped
  <1>4. Counted(Arrived)
    BY <1>1, <1>2, CountedFacts DEF Carries
  <1>5. ASSUME link = "up" PROVE Arrived \o UnderWay \o input = Numbered(typed)
    <2>1. PICK all \in Bytes : all = reader.got \o (net \o tx)
      BY <1>2, ConcatFacts
    <2>2. Holds(reader, all, d) /\ reader.pc # "failed"
      BY <1>1, <1>2, <1>5, <2>1 DEF Carries, Turn
    <2>3. reader.got \o net \o tx = all
      <3>1. reader.got \in Bytes /\ net \in Bytes /\ tx \in Bytes
        BY <1>2
      <3>2. Regrouped(reader.got, net, tx)
        BY <3>1, Regroup
      <3> QED
        BY <2>1, <3>2 DEF Regrouped
    <2>4. UnderWay = Without(all, IF reader.pc = "size" THEN SizeBytes + 1 ELSE 1)
      BY <2>3 DEF UnderWay
    <2>5. UnderWay = d
      <3>0. SizeBytes \in Nat
        BY FramingAssumption
      <3>1. CASE reader.pc = "size" /\ all = <<>> /\ d = <<>>
        BY <2>4, <3>0, <3>1, SubSeqEmpty DEF Without
      <3>2. ASSUME NEW tag \in {DataTag, ClosedTag}, Message(reader, all, tag, d)
            PROVE  UnderWay = d
        <4>1. <<tag>> \in Bytes /\ Len(<<tag>>) = 1
          BY BufferFacts DEF DataTag, ClosedTag
        <4>2. PICK h \in Bytes : /\ all = h \o d
                                 /\ Len(h) = IF reader.pc = "size" THEN SizeBytes + 1 ELSE 1
          <5>1. CASE reader.pc = "size" /\ all = Frame(<<tag>> \o d)
            <6>1. PICK m \in Bytes : m = <<tag>> \o d /\ Len(m) \in Nat
              BY <4>1, ConcatFacts, BufferFacts
            <6>2. PICK z \in Bytes : z = SizeField(Len(m)) /\ Len(z) = SizeBytes
              BY <6>1, MessageFacts
            <6>3. all = z \o (<<tag>> \o d)
              BY <5>1, <6>1, <6>2 DEF Frame
            <6>4. Regrouped(z, <<tag>>, d)
              BY <4>1, Regroup
            <6>5. z \o <<tag>> \in Bytes /\ Len(z \o <<tag>>) = SizeBytes + 1
              BY <4>1, <6>2, ConcatFacts
            <6> QED
              BY <5>1, <6>3, <6>4, <6>5 DEF Regrouped
          <5>2. CASE reader.pc = "body" /\ all = <<tag>> \o d
            BY <4>1, <5>2
          <5> QED
            BY <3>2, <5>1, <5>2 DEF Message
        <4>3. Len(h) \in Nat /\ Len(d) \in Nat /\ Len(all) = Len(h) + Len(d)
          BY <4>2, BufferFacts, ConcatFacts
        <4>4. PICK f \in Bytes, w \in Bytes :
                f = FirstOf(all, Len(h)) /\ w = Without(all, Len(h)) /\ f \o w = all
                /\ Len(f) = Len(h)
          <5>1. Len(h) \in 0..Len(all)
            BY <4>3
          <5>2. /\ FirstOf(all, Len(h)) \in Bytes /\ Len(FirstOf(all, Len(h))) = Len(h)
                /\ Without(all, Len(h)) \in Bytes
                /\ FirstOf(all, Len(h)) \o Without(all, Len(h)) = all
            BY <5>1, PartFacts
          <5> QED
            BY <5>2
        <4>5. w = d
          BY <4>2, <4>4, SplitFacts
        <4> QED
          BY <2>4, <4>2, <4>4, <4>5
      <3> QED
        BY <2>2, <3>1, <3>2 DEF Holds
    <2>6. Regrouped(Arrived, d, input)
      <3>1. Arrived \in Bytes /\ input \in Bytes
        BY <1>2
      <3> QED
        BY <3>1, Regroup
    <2> QED
      BY <1>1, <1>5, <2>5, <2>6 DEF Carries, Regrouped
  <1>6. reader.pc = "failed" => link = "down"
    BY <1>2 DEF Turn
  <1> QED
    BY <1>3, <1>4, <1>5, <1>6 DEF InOrder, Counted

\* The bytes that are typed reach the child in order, once and without those of a size
\* or of a tag, however reads and writes cut them (InOrder in BytePath.tla), for every
\* size of the packets, of the buffers and of the size field.
THEOREM InOrderCorrect == Spec => []InOrder
  <1>1. Init => PathInv
    BY PathInit
  <1>2. Inv /\ PathInv /\ [Next]_vars => PathInv'
    BY PathNext
  <1>3. PathInv => InOrder
    BY PathInOrder
  <1> QED
    BY <1>1, <1>2, <1>3, Invariance, PTL DEF Spec

=============================================================================
