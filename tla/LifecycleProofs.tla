--------------------------- MODULE LifecycleProofs ---------------------------
(***************************************************************************)
(* Proofs about the life of a client and of its task on the server, for     *)
(* every set of command lines, of addresses and of failures: Lifecycle.tla  *)
(* says what the properties mean.                                           *)
(***************************************************************************)
EXTENDS Lifecycle, TLAPS

-----------------------------------------------------------------------------
(* The inductive invariant.                                                *)

Started == {"prepare", "connect", "request", "response", "raw"}

\* What RAW_MODE says of the terminal is true while no tcsetattr has failed.
SavedIsRaw == ~unrestored => (saved <=> mode = "raw")

\* A terminal in raw mode has a guard in scope, from enter_scoped to the way out.
GuardCovers ==
    saved => /\ guard
             /\ pc \notin Started \cup {"join", "return", "over", "aborted", "hung"}

\* Whoever fails to restore the terminal ends the program.
FailureEnds == unrestored => pc \in {"fail", "over", "aborted", "hung", "killed"}

\* Behind leave() the terminal is cooked.
LeftIsCooked == pc \in {"join", "return"} \/ code = "status" => mode = "cooked"

\* main() returns its code once.
CodeIsLast == code # "none" => pc = "over"

ExitUnderWay == \E i \in 1..Len(s2c) : s2c[i].what = "Exit"

\* Whoever knows of the child's exit comes after it.
ExitIsTrue ==
    (\/ ExitUnderWay
     \/ pc \in {"stdio", "leave", "join", "return"}
     \/ code = "status") => child = "exited"

\* The child is spawned once.
SpawnedOnce == spc \in {"backlog", "request", "resolve", "pty", "spawn"} => child = "none"

Inv ==
    /\ TypeOK
    /\ SavedIsRaw /\ GuardCovers /\ FailureEnds /\ LeftIsCooked
    /\ CodeIsLast
    /\ ExitIsTrue /\ SpawnedOnce

-----------------------------------------------------------------------------
(* The messages under way.                                                 *)

\* A message that is sent is the last one under way, or lost.
LEMMA SentFacts ==
    ASSUME NEW S, NEW chan \in Seq(S), NEW x \in S
    PROVE  /\ Sent(chan, x) \in Seq(S)
           /\ \A i \in 1..Len(Sent(chan, x)) :
                Sent(chan, x)[i] = x \/ \E j \in 1..Len(chan) : Sent(chan, x)[i] = chan[j]
  BY DEF Sent

\* The message that has arrived is taken off.
LEMMA ArrivedFacts ==
    ASSUME NEW S, NEW chan \in Seq(S), NEW what, Arrived(chan, what)
    PROVE  /\ Head(chan) \in S
           /\ Head(chan).what = what
           /\ Tail(chan) \in Seq(S)
           /\ \E i \in 1..Len(chan) : chan[i].what = what
           /\ \A i \in 1..Len(Tail(chan)) : \E j \in 1..Len(chan) : Tail(chan)[i] = chan[j]
  <1>1. chan # <<>> /\ Head(chan).what = what
    BY DEF Arrived
  <1>2. /\ Head(chan) \in S
        /\ Tail(chan) \in Seq(S)
        /\ Head(chan) = chan[1]
        /\ Len(Tail(chan)) = Len(chan) - 1
        /\ 1 \in 1..Len(chan)
        /\ \A i \in 1..Len(Tail(chan)) : Tail(chan)[i] = chan[i + 1]
    BY <1>1
  <1>3. \A i \in 1..Len(Tail(chan)) : i + 1 \in 1..Len(chan)
    BY <1>2
  <1> QED
    BY <1>1, <1>2, <1>3

\* A lost connection keeps a prefix of what is under way.
LEMMA PrefixFacts ==
    ASSUME NEW S, NEW chan \in Seq(S), NEW k \in 0..Len(chan)
    PROVE  /\ SubSeq(chan, 1, k) \in Seq(S)
           /\ \A i \in 1..Len(SubSeq(chan, 1, k)) :
                \E j \in 1..Len(chan) : SubSeq(chan, 1, k)[i] = chan[j]
  <1>1. /\ SubSeq(chan, 1, k) \in Seq(S)
        /\ Len(SubSeq(chan, 1, k)) = k
        /\ \A i \in 1..k : SubSeq(chan, 1, k)[i] = chan[i]
    OBVIOUS
  <1>2. \A i \in 1..k : i \in 1..Len(chan)
    OBVIOUS
  <1> QED
    BY <1>1, <1>2

\* Each message of the two programs has the type of its direction.
LEMMA MsgTypes ==
    ASSUME TypeOK
    PROVE  /\ \A what \in {"Request", "Finished"} : Msg(what) \in ToServer
           /\ \A what \in {"Ok", "Err", "Exit", "Finished"} : Msg(what) \in ToClient
           /\ WindowSizeChange(size) \in ToServer
  BY LifecycleAssumption
     DEF TypeOK, Msg, WindowSizeChange, ToServer, ToClient, NoSize

-----------------------------------------------------------------------------
(* Types.                                                                  *)

\* Options and requests decide on sizes that exist.
LEMMA SizeTypes ==
    ASSUME TypeOK
    PROVE  /\ LocalSize \in 0..MaxResizes + 1
           /\ NoSize \in 0..MaxResizes + 1
           /\ size \in 0..MaxResizes + 1
           /\ AllocatePty(opts) \in BOOLEAN
  BY LifecycleAssumption DEF TypeOK, LocalSize, NoSize, AllocatePty, CommandLine

\* What a program sends fits what is under way.
LEMMA SendTypes ==
    ASSUME TypeOK
    PROVE  /\ \A what \in {"Request", "Finished"} : Sent(c2s, Msg(what)) \in Seq(ToServer)
           /\ \A what \in {"Ok", "Err", "Exit", "Finished"} :
                Sent(s2c, Msg(what)) \in Seq(ToClient)
           /\ Sent(c2s, WindowSizeChange(size)) \in Seq(ToServer)
  <1>1. c2s \in Seq(ToServer) /\ s2c \in Seq(ToClient)
    BY DEF TypeOK
  <1>2. \A m \in ToServer : Sent(c2s, m) \in Seq(ToServer)
    BY <1>1, SentFacts
  <1>3. \A m \in ToClient : Sent(s2c, m) \in Seq(ToClient)
    BY <1>1, SentFacts
  <1> QED
    BY <1>2, <1>3, MsgTypes

\* So does what is left when a message is taken.
LEMMA TakeTypes ==
    ASSUME TypeOK
    PROVE  /\ \A what : Arrived(c2s, what) =>
                /\ Tail(c2s) \in Seq(ToServer)
                /\ Head(c2s).size \in 0..MaxResizes + 1
           /\ \A what : Arrived(s2c, what) => Tail(s2c) \in Seq(ToClient)
  <1>1. c2s \in Seq(ToServer) /\ s2c \in Seq(ToClient)
    BY DEF TypeOK
  <1>2. ASSUME NEW what, Arrived(c2s, what)
        PROVE  Tail(c2s) \in Seq(ToServer) /\ Head(c2s) \in ToServer
    BY <1>1, <1>2, ArrivedFacts
  <1>3. ASSUME NEW what, Arrived(s2c, what)
        PROVE  Tail(s2c) \in Seq(ToClient)
    BY <1>1, <1>3, ArrivedFacts
  <1> QED
    BY <1>2, <1>3 DEF ToServer

\* A message under way after one was sent is that one, or was under way before.
LEMMA SentMessages ==
    ASSUME TypeOK
    PROVE  /\ \A m \in ToServer : \A i \in 1..Len(Sent(c2s, m)) :
                Sent(c2s, m)[i] = m \/ \E j \in 1..Len(c2s) : Sent(c2s, m)[i] = c2s[j]
           /\ \A m \in ToClient : \A i \in 1..Len(Sent(s2c, m)) :
                Sent(s2c, m)[i] = m \/ \E j \in 1..Len(s2c) : Sent(s2c, m)[i] = s2c[j]
  <1>1. c2s \in Seq(ToServer) /\ s2c \in Seq(ToClient)
    BY DEF TypeOK
  <1>2. ASSUME NEW m \in ToServer
        PROVE  \A i \in 1..Len(Sent(c2s, m)) :
                  Sent(c2s, m)[i] = m \/ \E j \in 1..Len(c2s) : Sent(c2s, m)[i] = c2s[j]
    BY <1>1, SentFacts
  <1>3. ASSUME NEW m \in ToClient
        PROVE  \A i \in 1..Len(Sent(s2c, m)) :
                  Sent(s2c, m)[i] = m \/ \E j \in 1..Len(s2c) : Sent(s2c, m)[i] = s2c[j]
    BY <1>1, SentFacts
  <1> QED
    BY <1>2, <1>3

\* RAW_MODE and the guard keep their types.
LEMMA RawModeTypes ==
    ASSUME TypeOK, EnterRawMode \/ Left \/ NotLeft \/ GuardDropped \/ UNCHANGED termVars
    PROVE  mode' \in {"cooked", "raw"} /\ saved' \in BOOLEAN /\ unrestored' \in BOOLEAN
  BY DEF TypeOK, EnterRawMode, Left, NotLeft, GuardDropped, termVars

\* The steps of the client keep the types.
LEMMA ClientTypes ==
    ASSUME TypeOK, ClientStep
    PROVE  TypeOK'
  <1>1. CASE Prepare
    BY <1>1, SizeTypes
    DEF TypeOK, taskVars, ClientPc, Prepare, Exits, termVars, sizeVars, wireVars,
        serverVars
  <1>2. CASE Connect
    BY <1>2, LifecycleAssumption
    DEF TypeOK, taskVars, ClientPc, Connect, Exits, termVars, sizeVars, serverVars
  <1>3. CASE SendRequest
    <2>1. c2s' \in Seq(ToServer) /\ s2c' \in Seq(ToClient)
      BY <1>3, SendTypes DEF TypeOK, taskVars, SendRequest
    <2>2. pc' \in ClientPc /\ code' \in {"none", "status", "255", "101"}
      BY <1>3 DEF TypeOK, taskVars, SendRequest, Exits, ClientPc
    <2> QED
      <3>1. UNCHANGED <<opts, req, addr, guard, told, termVars, sizeVars, link, serverVars,
                       taskVars>>
        BY <1>3 DEF SendRequest
      <3> QED
        BY <2>1, <2>2, <3>1 DEF TypeOK, taskVars, termVars, sizeVars, serverVars
  <1>4. CASE RecvResponse
    <2>1. c2s' \in Seq(ToServer) /\ s2c' \in Seq(ToClient)
      BY <1>4, TakeTypes DEF TypeOK, taskVars, RecvResponse
    <2>2. pc' \in ClientPc /\ code' \in {"none", "status", "255", "101"} /\ told' \in BOOLEAN
      BY <1>4 DEF TypeOK, taskVars, RecvResponse, Exits, ClientPc
    <2> QED
      BY <1>4, <2>1, <2>2 DEF TypeOK, taskVars, RecvResponse, termVars, sizeVars, serverVars
  <1>5. CASE EnterRaw
    <2>1. mode' \in {"cooked", "raw"} /\ saved' \in BOOLEAN /\ unrestored' \in BOOLEAN
      BY <1>5, RawModeTypes DEF EnterRaw
    <2>2. guard' \in BOOLEAN
      BY <1>5 DEF TypeOK, taskVars, EnterRaw, EnterRawMode
    <2>3. pc' \in ClientPc
      BY <1>5 DEF EnterRaw, ClientPc
    <2> QED
      BY <1>5, <2>1, <2>2, <2>3 DEF TypeOK, taskVars, EnterRaw, sizeVars, wireVars, serverVars
  <1>6. CASE StartTasks
    <2>1. pc' \in ClientPc
      BY <1>6 DEF StartTasks, Start, ClientPc
    <2> QED
      BY <1>6, <2>1
      DEF TypeOK, StartTasks, Start, termVars, sizeVars, wireVars, serverVars, taskVars
  <1>7. CASE AwaitStatus
    <2>1. c2s' \in Seq(ToServer) /\ s2c' \in Seq(ToClient)
      BY <1>7, TakeTypes DEF TypeOK, taskVars, AwaitStatus
    <2> QED
      BY <1>7, <2>1
      DEF TypeOK, taskVars, ClientPc, AwaitStatus, termVars, sizeVars, serverVars
  <1>8. CASE JoinStdio
    BY <1>8
    DEF TypeOK, taskVars, ClientPc, JoinStdio, termVars, sizeVars, wireVars, serverVars
  <1>9. CASE Leave
    BY <1>9, RawModeTypes
    DEF TypeOK, taskVars, ClientPc, Leave, sizeVars, wireVars, serverVars
  <1>10. CASE JoinTasks
    <2>1. c2s' \in Seq(ToServer) /\ s2c' \in Seq(ToClient)
      BY <1>10, TakeTypes DEF TypeOK, taskVars, JoinTasks
    <2> QED
      BY <1>10, <2>1
      DEF TypeOK, taskVars, ClientPc, JoinTasks, termVars, sizeVars, serverVars
  <1>11. CASE Return
    BY <1>11, RawModeTypes
    DEF TypeOK, taskVars, ClientPc, Return, Exits, sizeVars, wireVars, serverVars
  <1> QED
    BY <1>1, <1>2, <1>3, <1>4, <1>5, <1>6, <1>7, <1>8, <1>9, <1>10, <1>11 DEF ClientStep

\* The steps of the server keep the types.
LEMMA ServerTypes ==
    ASSUME TypeOK, ServerStep
    PROVE  TypeOK'
  <1>1. CASE Accept
    BY <1>1
    DEF TypeOK, taskVars, ServerPc, Accept, clientVars, termVars, sizeVars, wireVars
  <1>2. CASE RecvRequest
    <2>1. c2s' \in Seq(ToServer) /\ s2c' \in Seq(ToClient)
      BY <1>2, TakeTypes DEF TypeOK, taskVars, RecvRequest
    <2> QED
      BY <1>2, <2>1
      DEF TypeOK, taskVars, ServerPc, RecvRequest, clientVars, termVars, sizeVars
  <1>3. CASE Resolve
    BY <1>3
    DEF TypeOK, taskVars, ServerPc, Resolve, clientVars, termVars, sizeVars,
        wireVars
  <1>4. CASE OpenPty
    BY <1>4
    DEF TypeOK, taskVars, ServerPc, OpenPty, clientVars, termVars, sizeVars,
        wireVars
  <1>5. CASE SpawnWithPty
    BY <1>5
    DEF TypeOK, taskVars, ServerPc, SpawnWithPty, clientVars, termVars, sizeVars,
        wireVars
  <1>6. CASE SpawnWithPipes
    BY <1>6
    DEF TypeOK, taskVars, ServerPc, SpawnWithPipes, clientVars, termVars, sizeVars,
        wireVars
  <1>7. CASE SpawnFails
    BY <1>7
    DEF TypeOK, taskVars, ServerPc, SpawnFails, clientVars, termVars, sizeVars,
        wireVars
  <1>8. CASE SetFirstSize
    BY <1>8
    DEF TypeOK, taskVars, ServerPc, SetFirstSize, DropChild, clientVars, termVars,
        wireVars
  <1>9. CASE BindStdio
    BY <1>9
    DEF TypeOK, taskVars, ServerPc, BindStdio, DropChild, clientVars, termVars,
        sizeVars, wireVars
  <1>10. CASE Respond
    BY <1>10, SendTypes
    DEF TypeOK, taskVars, ServerPc, Respond, DropChild, clientVars, termVars,
        sizeVars
  <1>11. CASE SetWindowSize
    <2>1. c2s' \in Seq(ToServer) /\ s2c' \in Seq(ToClient)
      BY <1>11, TakeTypes DEF TypeOK, taskVars, SetWindowSize
    <2>2. Head(c2s).size \in 0..MaxResizes + 1
      BY <1>11, TakeTypes DEF SetWindowSize
    <2>3. ptySize' \in 0..MaxResizes + 1 /\ missed' \in BOOLEAN
      BY <1>11, <2>2 DEF TypeOK, taskVars, SetWindowSize
    <2> QED
      BY <1>11, <2>1, <2>3 DEF TypeOK, taskVars, SetWindowSize, clientVars, termVars, serverVars
  <1>12. CASE ServeExit
    BY <1>12, SendTypes
    DEF TypeOK, taskVars, ServerPc, ServeExit, clientVars, termVars, sizeVars
  <1>13. CASE ServeKill
    BY <1>13
    DEF TypeOK, taskVars, ServerPc, ServeKill, DropChild, clientVars, termVars,
        sizeVars, wireVars
  <1>14. CASE ServeFinish
    BY <1>14, SendTypes
    DEF TypeOK, taskVars, ServerPc, ServeFinish, clientVars, termVars, sizeVars
  <1>15. CASE RecvFinished
    <2>1. c2s' \in Seq(ToServer)
      BY <1>15, TakeTypes DEF RecvFinished
    <2> QED
      BY <1>15, <2>1 DEF TypeOK, RecvFinished, clientVars, termVars, sizeVars, serverVars
  <1>16. CASE ReceiverLost
    BY <1>16 DEF TypeOK, ReceiverLost, clientVars, termVars, sizeVars, wireVars, serverVars
  <1> QED
    BY <1>1, <1>2, <1>3, <1>4, <1>5, <1>6, <1>7, <1>8, <1>9, <1>10, <1>11, <1>12, <1>13, <1>14,
       <1>15, <1>16
    DEF ServerStep

\* The steps of the environment and of both sides' tasks keep the types.
LEMMA TypeStep ==
    ASSUME TypeOK, [Next]_vars
    PROVE  TypeOK'
  <1>1. CASE ClientStep
    BY <1>1, ClientTypes
  <1>2. CASE ServerStep
    BY <1>2, ServerTypes
  <1>3. CASE TaskPanics
    BY <1>3, RawModeTypes
    DEF TypeOK, taskVars, ClientPc, TaskPanics, sizeVars, wireVars, serverVars
  <1>4. CASE Resize
    BY <1>4, LifecycleAssumption
    DEF TypeOK, taskVars, Resize, clientVars, termVars, wireVars,
        serverVars
  <1>5. CASE WindowSignal
    <2>1. c2s' \in Seq(ToServer) /\ s2c' \in Seq(ToClient)
      BY <1>5, SendTypes DEF TypeOK, taskVars, WindowSignal
    <2>2. sig' \in BOOLEAN /\ missed' \in BOOLEAN
      BY <1>5 DEF TypeOK, taskVars, WindowSignal
    <2> QED
      BY <1>5, <2>1, <2>2 DEF TypeOK, taskVars, WindowSignal, clientVars, termVars, serverVars
  <1>6. CASE ChildExits
    BY <1>6
    DEF TypeOK, taskVars, ChildExits, clientVars, termVars, sizeVars,
        wireVars
  <1>7. CASE LinkLost
    <2>1. PICK i \in 0..Len(c2s) : c2s' = SubSeq(c2s, 1, i)
      BY <1>7 DEF LinkLost
    <2>2. PICK j \in 0..Len(s2c) : s2c' = SubSeq(s2c, 1, j)
      BY <1>7 DEF LinkLost
    <2>3. c2s' \in Seq(ToServer) /\ s2c' \in Seq(ToClient)
      BY <2>1, <2>2, PrefixFacts DEF TypeOK, taskVars
    <2> QED
      BY <1>7, <2>3 DEF TypeOK, taskVars, LinkLost, clientVars, termVars, sizeVars, serverVars
  <1>8. CASE ClientKilled
    BY <1>8
    DEF TypeOK, taskVars, ClientPc, ClientKilled, termVars, sizeVars, wireVars,
        serverVars
  <1>9. CASE UNCHANGED vars
    BY <1>9 DEF TypeOK, taskVars, vars, clientVars, termVars, sizeVars, wireVars, serverVars
  <1>10. CASE SenderFinish
    <2>1. c2s' \in Seq(ToServer)
      BY <1>10, SendTypes DEF SenderFinish
    <2> QED
      BY <1>10, <2>1 DEF TypeOK, SenderFinish, clientVars, termVars, sizeVars, serverVars
  <1> QED
    BY <1>1, <1>2, <1>3, <1>4, <1>5, <1>6, <1>7, <1>8, <1>9, <1>10 DEF Next, Terminated

-----------------------------------------------------------------------------
(* The terminal.                                                           *)

TermInv == SavedIsRaw /\ GuardCovers /\ FailureEnds /\ LeftIsCooked /\ CodeIsLast

\* A step that is not one of main() leaves the terminal and the way out alone.
LEMMA OtherSteps ==
    ASSUME \/ ServerStep \/ SenderFinish \/ Resize \/ WindowSignal \/ ChildExits \/ LinkLost
           \/ UNCHANGED vars
    PROVE  UNCHANGED <<pc, guard, code, mode, saved, unrestored>>
  <1>1. CASE ServerStep
    BY <1>1 DEF ServerStep, Accept, RecvRequest, Resolve, OpenPty, SpawnWithPty, SpawnWithPipes,
      SpawnFails, SetFirstSize, BindStdio, Respond, SetWindowSize, RecvFinished,
      ReceiverLost, ServeExit, ServeKill, ServeFinish, clientVars, termVars
  <1>2. CASE SenderFinish \/ Resize \/ WindowSignal \/ ChildExits \/ LinkLost \/ UNCHANGED vars
    BY <1>2 DEF SenderFinish, Resize, WindowSignal, ChildExits, LinkLost, vars, clientVars, termVars
  <1> QED
    BY <1>1, <1>2

\* Before raw mode is entered nothing is saved.
LEMMA BeforeRaw ==
    ASSUME Inv, Prepare \/ Connect \/ SendRequest \/ RecvResponse
    PROVE  TermInv'
  <1>1. ~saved /\ ~unrestored /\ mode = "cooked" /\ code = "none"
    BY DEF Inv, TypeOK, SavedIsRaw, GuardCovers, FailureEnds, CodeIsLast, Started, Prepare,
      Connect, SendRequest, RecvResponse
  <1>2. UNCHANGED termVars
    BY DEF Prepare, Connect, SendRequest, RecvResponse
  <1>3. code' = "none" \/ pc' = "over"
    BY <1>1 DEF Prepare, Connect, SendRequest, RecvResponse, Exits
  <1> QED
    BY <1>1, <1>2, <1>3
    DEF TermInv, SavedIsRaw, GuardCovers, FailureEnds, LeftIsCooked, CodeIsLast, termVars

\* The session's steps, up to its handlers' end.
LEMMA InSession ==
    ASSUME Inv, EnterRaw \/ StartTasks \/ AwaitStatus \/ JoinStdio
    PROVE  TermInv'
  <1>1. CASE EnterRaw
    <2>1. ~saved /\ ~unrestored /\ mode = "cooked" /\ code = "none"
      BY <1>1 DEF Inv, TypeOK, SavedIsRaw, GuardCovers, FailureEnds, CodeIsLast, Started, EnterRaw
    <2>2. /\ pc' \in {"handler", "stdin"}
          /\ code' = "none"
          /\ ~unrestored'
      BY <1>1, <2>1 DEF EnterRaw, EnterRawMode, termVars
    <2>3. (saved' <=> mode' = "raw") /\ (saved' => guard')
      BY <1>1, <2>1 DEF EnterRaw, EnterRawMode, termVars
    <2> QED
      BY <2>2, <2>3
      DEF TermInv, SavedIsRaw, GuardCovers, FailureEnds, LeftIsCooked, CodeIsLast, Started
  <1>2. CASE StartTasks \/ AwaitStatus \/ JoinStdio
    <2>1. pc \in {"handler", "stdin", "outputs", "status", "stdio"}
      BY <1>2 DEF StartTasks, Start, AwaitStatus, JoinStdio
    <2>2. pc' \in {"stdin", "outputs", "status", "stdio", "leave", "fail"}
      BY <1>2 DEF StartTasks, Start, AwaitStatus, JoinStdio
    <2>3. UNCHANGED <<guard, code, mode, saved, unrestored>>
      BY <1>2 DEF StartTasks, Start, AwaitStatus, JoinStdio, termVars
    <2> QED
      BY <2>1, <2>2, <2>3
      DEF Inv, TermInv, SavedIsRaw, GuardCovers, FailureEnds, LeftIsCooked, CodeIsLast, Started
  <1> QED
    BY <1>1, <1>2

\* The ways out: leave() and what follows it, the guard, the panic hook.
LEMMA OnTheWayOut ==
    ASSUME Inv, Leave \/ JoinTasks \/ Return \/ TaskPanics \/ ClientKilled
    PROVE  TermInv'
  <1>1. CASE Leave
    <2>1. /\ pc = "leave" /\ code = "none" /\ code' = code /\ guard' = guard
          /\ ~unrestored /\ (saved <=> mode = "raw") /\ (saved => guard)
      BY <1>1 DEF Inv, SavedIsRaw, GuardCovers, FailureEnds, CodeIsLast, Leave
    <2>2. CASE Left /\ pc' = "join"
      <3>1. ~saved' /\ mode' = "cooked" /\ ~unrestored'
        BY <2>1, <2>2 DEF Inv, TypeOK, Left, termVars
      <3> QED
        BY <2>1, <2>2, <3>1
        DEF TermInv, SavedIsRaw, GuardCovers, FailureEnds, LeftIsCooked, CodeIsLast
    <2>3. CASE NotLeft /\ pc' = "fail"
      BY <2>1, <2>3
      DEF NotLeft, TermInv, SavedIsRaw, GuardCovers, FailureEnds, LeftIsCooked, CodeIsLast
    <2> QED
      BY <1>1, <2>2, <2>3 DEF Leave
  <1>2. CASE JoinTasks
    <2>1. pc = "join" /\ pc' \in {"return", "fail"}
      BY <1>2 DEF JoinTasks
    <2>2. UNCHANGED <<guard, code, mode, saved, unrestored>>
      BY <1>2 DEF JoinTasks, termVars
    <2> QED
      BY <2>1, <2>2
      DEF Inv, TermInv, SavedIsRaw, GuardCovers, FailureEnds, LeftIsCooked, CodeIsLast
  <1>3. CASE Return
    <2>1. pc' = "over" /\ (saved => guard)
      BY <1>3 DEF Inv, GuardCovers, Return, Exits
    <2>2. CASE pc = "return" /\ Exits("status") /\ GuardDropped
      <3>1. ~saved /\ mode = "cooked" /\ ~unrestored
        BY <2>2 DEF Inv, GuardCovers, LeftIsCooked, FailureEnds
      <3>2. UNCHANGED <<mode, saved, unrestored>>
        BY <2>2, <3>1 DEF GuardDropped, Left, termVars
      <3> QED
        BY <2>1, <3>1, <3>2
        DEF TermInv, SavedIsRaw, GuardCovers, FailureEnds, LeftIsCooked, CodeIsLast
    <2>3. CASE pc = "fail" /\ Exits("255") /\ GuardDropped
      <3>1. ~saved' /\ (~unrestored' => mode' # "raw")
        BY <2>1, <2>3 DEF Inv, SavedIsRaw, GuardDropped, Left, termVars
      <3>2. code' = "255"
        BY <2>3 DEF Exits
      <3> QED
        BY <2>1, <3>1, <3>2
        DEF TermInv, SavedIsRaw, GuardCovers, FailureEnds, LeftIsCooked, CodeIsLast
    <2>4. CASE pc \in {"return", "fail"} /\ Exits("101") /\ guard /\ NotLeft
      BY <2>1, <2>4
      DEF Exits, NotLeft, TermInv, SavedIsRaw, GuardCovers, FailureEnds, LeftIsCooked, CodeIsLast
    <2> QED
      BY <1>3, <2>2, <2>3, <2>4 DEF Return
  <1>4. CASE TaskPanics
    <2>1. /\ pc \in {"outputs", "status", "stdio", "join"}
          /\ code = "none" /\ code' = "none" /\ guard' = guard
          /\ ~unrestored /\ (saved <=> mode = "raw")
      BY <1>4 DEF Inv, SavedIsRaw, FailureEnds, CodeIsLast, TaskPanics
    <2>2. CASE Left /\ UNCHANGED pc
      <3>1. ~saved' /\ mode' = "cooked" /\ ~unrestored'
        BY <2>1, <2>2 DEF Inv, TypeOK, Left, termVars
      <3> QED
        BY <2>1, <2>2, <3>1
        DEF TermInv, SavedIsRaw, GuardCovers, FailureEnds, LeftIsCooked, CodeIsLast
    <2>3. CASE NotLeft /\ pc' \in {"aborted", "hung"}
      BY <2>1, <2>3
      DEF NotLeft, TermInv, SavedIsRaw, GuardCovers, FailureEnds, LeftIsCooked, CodeIsLast
    <2> QED
      BY <1>4, <2>2, <2>3 DEF TaskPanics
  <1>5. CASE ClientKilled
    <2>1. pc' = "killed" /\ pc # "over" /\ UNCHANGED <<guard, code, mode, saved, unrestored>>
      BY <1>5 DEF ClientKilled, ClientGone, termVars
    <2> QED
      BY <2>1
      DEF Inv, TermInv, SavedIsRaw, GuardCovers, FailureEnds, LeftIsCooked, CodeIsLast, Started
  <1> QED
    BY <1>1, <1>2, <1>3, <1>4, <1>5

\* Every step keeps what the invariant says of the terminal.
LEMMA TermSteps ==
    ASSUME Inv, [Next]_vars
    PROVE  TermInv'
  <1>1. CASE UNCHANGED <<pc, guard, code, mode, saved, unrestored>>
    BY <1>1
    DEF Inv, TermInv, SavedIsRaw, GuardCovers, FailureEnds, LeftIsCooked, CodeIsLast
  <1> QED
    BY <1>1, OtherSteps, BeforeRaw, InSession, OnTheWayOut DEF Next, ClientStep, Terminated

-----------------------------------------------------------------------------
(* The child and its exit status.                                          *)

ChildInv == ExitIsTrue /\ SpawnedOnce

\* Only serve() puts an Exit under way, and taking a message or losing some adds
\* none.
LEMMA ExitFacts ==
    ASSUME TypeOK
    PROVE  /\ \A what \in {"Ok", "Err", "Finished"} :
                s2c' = Sent(s2c, Msg(what)) => (ExitUnderWay' => ExitUnderWay)
           /\ \A what : Arrived(s2c, what) /\ s2c' = Tail(s2c) => (ExitUnderWay' => ExitUnderWay)
           /\ \A k \in 0..Len(s2c) :
                s2c' = SubSeq(s2c, 1, k) => (ExitUnderWay' => ExitUnderWay)
           /\ s2c' = s2c => (ExitUnderWay' => ExitUnderWay)
           /\ Arrived(s2c, "Exit") => ExitUnderWay
  <1>1. s2c \in Seq(ToClient)
    BY DEF TypeOK
  <1>2. ASSUME NEW what \in {"Ok", "Err", "Finished"}, s2c' = Sent(s2c, Msg(what)), ExitUnderWay'
        PROVE  ExitUnderWay
    <2>1. Msg(what) \in ToClient /\ Msg(what).what # "Exit"
      BY <1>2, MsgTypes DEF Msg
    <2>2. PICK i \in 1..Len(s2c') : s2c'[i].what = "Exit"
      BY <1>2 DEF ExitUnderWay
    <2>3. \A m \in ToClient : \A j \in 1..Len(Sent(s2c, m)) :
             Sent(s2c, m)[j] = m \/ \E l \in 1..Len(s2c) : Sent(s2c, m)[j] = s2c[l]
      BY SentMessages
    <2>4. s2c'[i] = Msg(what) \/ \E l \in 1..Len(s2c) : s2c'[i] = s2c[l]
      BY <1>2, <2>1, <2>2, <2>3
    <2> QED
      BY <2>1, <2>2, <2>4 DEF ExitUnderWay
  <1>3. ASSUME NEW what, Arrived(s2c, what), s2c' = Tail(s2c), ExitUnderWay'
        PROVE  ExitUnderWay
    BY <1>1, <1>3, ArrivedFacts DEF ExitUnderWay
  <1>4. ASSUME NEW k \in 0..Len(s2c), s2c' = SubSeq(s2c, 1, k), ExitUnderWay'
        PROVE  ExitUnderWay
    <2>1. PICK i \in 1..Len(s2c') : s2c'[i].what = "Exit"
      BY <1>4 DEF ExitUnderWay
    <2>2. \E j \in 1..Len(s2c) : s2c'[i] = s2c[j]
      BY <1>1, <1>4, PrefixFacts
    <2> QED
      BY <2>1, <2>2 DEF ExitUnderWay
  <1>5. ASSUME s2c' = s2c, ExitUnderWay'
        PROVE  ExitUnderWay
    BY <1>5 DEF ExitUnderWay
  <1>6. Arrived(s2c, "Exit") => ExitUnderWay
    BY <1>1, ArrivedFacts DEF ExitUnderWay
  <1> QED
    BY <1>2, <1>3, <1>4, <1>5, <1>6

\* Each step of main() that stands for a known status comes after another, and
\* the first one takes an Exit.
LEMMA ClientKnows ==
    ASSUME Inv, ClientStep \/ TaskPanics \/ ClientKilled
    PROVE  ChildInv'
  <1>1. UNCHANGED <<spc, child>>
    BY DEF ClientStep, Prepare, Connect, SendRequest, RecvResponse, EnterRaw, StartTasks, Start,
      AwaitStatus, JoinStdio, Leave, JoinTasks, Return, TaskPanics, ClientKilled, serverVars
  <1>2. ExitUnderWay' => ExitUnderWay
    <2>1. CASE RecvResponse \/ AwaitStatus \/ JoinTasks
      <3>1. s2c' = s2c \/ \E what : Arrived(s2c, what) /\ s2c' = Tail(s2c)
        BY <2>1 DEF RecvResponse, AwaitStatus, JoinTasks
      <3> QED
        BY <3>1, ExitFacts DEF Inv
    <2>2. CASE \/ Prepare \/ Connect \/ SendRequest \/ EnterRaw \/ StartTasks \/ JoinStdio
               \/ Leave \/ Return \/ TaskPanics \/ ClientKilled
      <3>1. s2c' = s2c
        BY <2>2 DEF Prepare, Connect, SendRequest, EnterRaw, StartTasks, Start, JoinStdio, Leave,
          Return, TaskPanics, ClientKilled, wireVars
      <3> QED
        BY <3>1, ExitFacts DEF Inv
    <2> QED
      BY <2>1, <2>2 DEF ClientStep
  <1>3. pc' \in {"stdio", "leave", "join", "return"} =>
            pc \in {"stdio", "leave", "join", "return"} \/ Arrived(s2c, "Exit")
    BY DEF ClientStep, Prepare, Connect, SendRequest, RecvResponse, EnterRaw, StartTasks, Start,
      AwaitStatus, JoinStdio, Leave, JoinTasks, Return, TaskPanics, ClientKilled, Exits
  <1>4. code' = "status" => code = "status" \/ pc = "return"
    BY DEF ClientStep, Prepare, Connect, SendRequest, RecvResponse, EnterRaw, StartTasks, Start,
      AwaitStatus, JoinStdio, Leave, JoinTasks, Return, TaskPanics, ClientKilled, Exits
  <1>5. Arrived(s2c, "Exit") => ExitUnderWay
    BY ExitFacts DEF Inv
  <1> QED
    BY <1>1, <1>2, <1>3, <1>4, <1>5 DEF Inv, ChildInv, ExitIsTrue, SpawnedOnce

\* The server says Exit of a child that has exited, and spawns no other.
LEMMA ServerKnows ==
    ASSUME Inv, ServerStep
    PROVE  ChildInv'
  <1>1. UNCHANGED <<pc, code>>
    BY OtherSteps
  <1>2. CASE ServeExit
    BY <1>1, <1>2 DEF ServeExit, ChildInv, ExitIsTrue, SpawnedOnce
  <1>3. ExitUnderWay' => ExitUnderWay \/ ServeExit
    <2>1. CASE Respond \/ ServeFinish
      <3>1. s2c' = s2c \/ \E what \in {"Ok", "Err", "Finished"} : s2c' = Sent(s2c, Msg(what))
        BY <2>1 DEF Respond, ServeFinish
      <3> QED
        BY <3>1, ExitFacts DEF Inv
    <2>2. CASE ~(Respond \/ ServeFinish \/ ServeExit)
      <3>1. s2c' = s2c
        BY <2>2 DEF ServerStep, Accept, RecvRequest, Resolve, OpenPty, SpawnWithPty, SpawnWithPipes,
          SpawnFails, SetFirstSize, BindStdio, SetWindowSize, RecvFinished, ReceiverLost,
          ServeKill, wireVars
      <3> QED
        BY <3>1, ExitFacts DEF Inv
    <2> QED
      BY <2>1, <2>2
  <1>4. child = "exited" => child' = "exited"
    BY DEF ServerStep, Accept, RecvRequest, Resolve, OpenPty, SpawnWithPty, SpawnWithPipes,
      SpawnFails, SetFirstSize, BindStdio, Respond, SetWindowSize, RecvFinished, ReceiverLost,
      ServeExit, ServeKill, ServeFinish, DropChild, serverVars, Inv, SpawnedOnce
  <1>5. SpawnedOnce'
    BY DEF ServerStep, Accept, RecvRequest, Resolve, OpenPty, SpawnWithPty, SpawnWithPipes,
      SpawnFails, SetFirstSize, BindStdio, Respond, SetWindowSize, RecvFinished, ReceiverLost,
      ServeExit, ServeKill, ServeFinish, DropChild, serverVars, Inv, SpawnedOnce
  <1> QED
    BY <1>1, <1>2, <1>3, <1>4, <1>5 DEF Inv, ChildInv, ExitIsTrue

\* Every step keeps what the invariant says of the child.
LEMMA ChildSteps ==
    ASSUME Inv, [Next]_vars
    PROVE  ChildInv'
  <1>1. CASE ChildExits
    <2>1. child' = "exited" /\ child = "run" /\ spc' = spc
      BY <1>1 DEF ChildExits
    <2> QED
      BY <2>1 DEF Inv, ChildInv, ExitIsTrue, SpawnedOnce
  <1>2. CASE LinkLost
    <2>1. ExitUnderWay' => ExitUnderWay
      BY <1>2, ExitFacts DEF Inv, LinkLost
    <2>2. UNCHANGED <<pc, code, spc, child>>
      BY <1>2 DEF LinkLost, clientVars, serverVars
    <2> QED
      BY <2>1, <2>2 DEF Inv, ChildInv, ExitIsTrue, SpawnedOnce
  <1>3. CASE SenderFinish \/ Resize \/ WindowSignal \/ UNCHANGED vars
    <2>1. UNCHANGED <<pc, code, spc, child, s2c>>
      BY <1>3 DEF SenderFinish, Resize, WindowSignal, vars, clientVars, serverVars, wireVars
    <2>2. ExitUnderWay' => ExitUnderWay
      BY <2>1, ExitFacts DEF Inv
    <2> QED
      BY <2>1, <2>2 DEF Inv, ChildInv, ExitIsTrue, SpawnedOnce
  <1> QED
    BY <1>1, <1>2, <1>3, ClientKnows, ServerKnows DEF Next, Terminated

-----------------------------------------------------------------------------
(* Theorems.                                                               *)

\* A client starts on a cooked terminal, without a child.
LEMMA InitInv == Init => Inv
  <1> SUFFICES ASSUME Init
               PROVE  Inv
    OBVIOUS
  <1>1. TypeOK
    <2>1. c2s \in Seq(ToServer) /\ s2c \in Seq(ToClient)
      BY DEF Init
    <2>2. /\ req \in [pty : BOOLEAN, size : 0..MaxResizes + 1]
          /\ ptySize \in 0..MaxResizes + 1
          /\ size \in 1..MaxResizes + 1
          /\ addr \in 1..Addrs
      BY LifecycleAssumption DEF Init, NoSize
    <2> QED
      BY <2>1, <2>2 DEF Init, TypeOK, ClientPc, ServerPc
  <1>2. TermInv
    BY DEF Init, TermInv, SavedIsRaw, GuardCovers, FailureEnds, LeftIsCooked, CodeIsLast
  <1>3. ~ExitUnderWay
    BY DEF Init, ExitUnderWay
  <1>4. ChildInv
    BY <1>3 DEF Init, ChildInv, ExitIsTrue, SpawnedOnce
  <1> QED
    BY <1>1, <1>2, <1>4 DEF Inv, TermInv, ChildInv

\* The invariant holds in every state.
LEMMA Invariance == Spec => []Inv
  <1>1. Inv /\ [Next]_vars => Inv'
    <2> SUFFICES ASSUME Inv, [Next]_vars
                 PROVE  Inv'
      OBVIOUS
    <2>1. TypeOK'
      BY TypeStep DEF Inv
    <2> QED
      BY <2>1, TermSteps, ChildSteps DEF Inv, TermInv, ChildInv
  <1> QED
    BY <1>1, InitInv, PTL DEF Spec

\* All variables keep their types: the messages under way are those of their
\* direction, and no address or size is used that does not exist.
THEOREM LifecycleTypeCorrect == Spec => []TypeOK
  <1>1. Inv => TypeOK
    BY DEF Inv
  <1> QED
    BY <1>1, Invariance, PTL

\* Each way in which a client ends by itself - the return of main(), with or
\* without an error, and a panic of a task or of the guard - leaves its terminal
\* cooked, unless tcsetattr failed; and RAW_MODE never misleads the log writer.
THEOREM TerminalRestoredCorrect == Spec => []TerminalRestored
  <1>1. Inv => TerminalRestored
    BY DEF Inv, TypeOK, SavedIsRaw, GuardCovers, TerminalRestored, ClientEnded, ClientGone, Converts
  <1> QED
    BY <1>1, Invariance, PTL

\* The client ends with the code of its child only if the child exited by itself
\* and the terminal is cooked again.
THEOREM NoFalseSuccessCorrect == Spec => []NoFalseSuccess
  <1>1. Inv => NoFalseSuccess
    BY DEF Inv, LeftIsCooked, ExitIsTrue, NoFalseSuccess
  <1> QED
    BY <1>1, Invariance, PTL

-----------------------------------------------------------------------------
(* The size of the terminal.  While a session runs and no change is under   *)
(* way, the child's terminal has the size of the local one: SizeInv says    *)
(* what is known of the size at each point of the client and of the server. *)

Unresponded == {"connect", "request", "response", "raw", "handler"}
Connected == {"request", "response", "raw", "handler", "stdin", "outputs", "status"}

\* The server has not come to SetFirstSize; it has.
BeforeSize == {"backlog", "request", "resolve", "pty", "spawn", "window"}
SizeIsSet == {"bind", "ok", "serve", "finish"}

\* No size is under way in a channel; n is the last one that is.
NoSizeIn(chan) == \A i \in 1..Len(chan) : chan[i].what # "WindowSizeChange"
LastSizeIs(chan, n) ==
    \E i \in 1..Len(chan) :
        /\ chan[i].what = "WindowSizeChange" /\ chan[i].size = n
        /\ \A j \in i + 1..Len(chan) : chan[j].what # "WindowSizeChange"

\* Before the client connects nothing is under way, and the server knows nothing.
NothingBefore ==
    /\ pc = "prepare" => c2s = <<>> /\ spc = "backlog"
    /\ pc \in {"prepare", "connect"} => link = "none"
    /\ pc \in Connected => link # "none"

\* Until serve() has the status, the size of the terminal is on its way to the
\* child: it has just changed, it is under way, it is in the request, or the
\* child's terminal has it.
SizeIsKnown ==
    (pc \in Unresponded \cup Connected /\ req.pty /\ opts.tty /\ ~missed /\ ~sig /\ link # "down") =>
        \/ LastSizeIs(c2s, size)
        \/ NoSizeIn(c2s) /\ (spc \in BeforeSize => req.size = size)
                         /\ (spc \in SizeIsSet => ptySize = size)

SizeInv == NothingBefore /\ SizeIsKnown

-----------------------------------------------------------------------------
(* The sizes under way.                                                    *)

\* What is the last size under way after a message was sent, taken or lost.
LEMMA SizeFacts ==
    ASSUME NEW chan \in Seq(ToServer), NEW n
    PROVE  /\ NoSizeIn(<<>>)
           /\ \A x \in ToServer : x.what # "WindowSizeChange" =>
                /\ NoSizeIn(chan) => NoSizeIn(Sent(chan, x))
                /\ LastSizeIs(chan, n) => LastSizeIs(Sent(chan, x), n)
           /\ \A x \in ToServer :
                x.what = "WindowSizeChange" /\ x.size = n /\ link = "up" =>
                    LastSizeIs(Sent(chan, x), n)
           /\ \A what : Arrived(chan, what) =>
                /\ NoSizeIn(chan) => NoSizeIn(Tail(chan)) /\ what # "WindowSizeChange"
                /\ LastSizeIs(chan, n) =>
                     \/ LastSizeIs(Tail(chan), n)
                     \/ what = "WindowSizeChange" /\ Head(chan).size = n /\ NoSizeIn(Tail(chan))
  <1>1. NoSizeIn(<<>>)
    BY DEF NoSizeIn
  <1>2. ASSUME NEW x \in ToServer
        PROVE  /\ Append(chan, x) \in Seq(ToServer)
               /\ Len(Append(chan, x)) = Len(chan) + 1
               /\ Len(chan) \in Nat
               /\ \A i \in 1..Len(chan) : Append(chan, x)[i] = chan[i]
               /\ Append(chan, x)[Len(chan) + 1] = x
    OBVIOUS
  <1>3. ASSUME NEW x \in ToServer, x.what # "WindowSizeChange", NoSizeIn(chan)
        PROVE  NoSizeIn(Sent(chan, x))
    BY <1>2, <1>3 DEF NoSizeIn, Sent
  <1>4. ASSUME NEW x \in ToServer, x.what # "WindowSizeChange", LastSizeIs(chan, n)
        PROVE  LastSizeIs(Sent(chan, x), n)
    <2>1. PICK i \in 1..Len(chan) :
            /\ chan[i].what = "WindowSizeChange" /\ chan[i].size = n
            /\ \A j \in i + 1..Len(chan) : chan[j].what # "WindowSizeChange"
      BY <1>4 DEF LastSizeIs
    <2> DEFINE s == Append(chan, x)
    <2>2. /\ Len(s) = Len(chan) + 1 /\ Len(chan) \in Nat /\ s[Len(chan) + 1] = x
          /\ \A k \in 1..Len(chan) : s[k] = chan[k]
      BY <1>2
    <2> HIDE DEF s
    <2>3. i \in 1..Len(s) /\ s[i].what = "WindowSizeChange" /\ s[i].size = n
      BY <2>1, <2>2
    <2>4. ASSUME NEW j \in i + 1..Len(s) PROVE s[j].what # "WindowSizeChange"
      <3>1. j \in i + 1..Len(chan) \/ j = Len(chan) + 1
        BY <2>2
      <3>2. j \in i + 1..Len(chan) => s[j] = chan[j]
        BY <2>1, <2>2
      <3> QED
        BY <1>4, <2>1, <2>2, <3>1, <3>2
    <2>5. LastSizeIs(s, n)
      BY <2>3, <2>4 DEF LastSizeIs
    <2> QED
      BY <1>4, <2>5 DEF Sent, s
  <1>5. ASSUME NEW x \in ToServer, x.what = "WindowSizeChange", x.size = n, link = "up"
        PROVE  LastSizeIs(Sent(chan, x), n)
    <2> DEFINE s == Append(chan, x)
    <2>1. Len(s) = Len(chan) + 1 /\ Len(chan) \in Nat /\ s[Len(chan) + 1] = x
      BY <1>2
    <2> HIDE DEF s
    <2>2. Len(s) \in 1..Len(s) /\ \A j \in Len(s) + 1..Len(s) : FALSE
      BY <2>1
    <2>3. LastSizeIs(s, n)
      BY <1>5, <2>1, <2>2 DEF LastSizeIs
    <2> QED
      BY <1>5, <2>3 DEF Sent, s
  <1>6. ASSUME NEW what, Arrived(chan, what)
        PROVE  /\ NoSizeIn(chan) => NoSizeIn(Tail(chan)) /\ what # "WindowSizeChange"
               /\ LastSizeIs(chan, n) =>
                    \/ LastSizeIs(Tail(chan), n)
                    \/ what = "WindowSizeChange" /\ Head(chan).size = n /\ NoSizeIn(Tail(chan))
    <2> DEFINE t == Tail(chan)
    <2>1. /\ Head(chan) = chan[1] /\ Head(chan).what = what
          /\ Len(t) = Len(chan) - 1 /\ Len(chan) \in Nat /\ Len(t) \in Nat
          /\ \A i \in 1..Len(t) : t[i] = chan[i + 1]
      <3>1. chan # <<>> /\ Head(chan).what = what
        BY <1>6 DEF Arrived
      <3> QED
        BY <3>1
    <2> HIDE DEF t
    <2>2. ASSUME NoSizeIn(chan) PROVE NoSizeIn(t) /\ what # "WindowSizeChange"
      <3>1. \A i \in 1..Len(t) : i + 1 \in 1..Len(chan)
        BY <2>1
      <3>2. 1 \in 1..Len(chan)
        BY <2>1
      <3> QED
        BY <2>1, <2>2, <3>1, <3>2 DEF NoSizeIn
    <2>3. ASSUME LastSizeIs(chan, n)
          PROVE  \/ LastSizeIs(t, n)
                 \/ what = "WindowSizeChange" /\ Head(chan).size = n /\ NoSizeIn(t)
      <3>1. PICK i \in 1..Len(chan) :
              /\ chan[i].what = "WindowSizeChange" /\ chan[i].size = n
              /\ \A j \in i + 1..Len(chan) : chan[j].what # "WindowSizeChange"
        BY <2>3 DEF LastSizeIs
      <3>2. \A j \in 1..Len(t) : j >= i => t[j].what # "WindowSizeChange"
        <4>1. \A j \in 1..Len(t) : j >= i => j + 1 \in i + 1..Len(chan)
          BY <2>1, <3>1
        <4> QED
          BY <2>1, <3>1, <4>1
      <3>3. CASE i = 1
        BY <2>1, <3>1, <3>2, <3>3 DEF NoSizeIn
      <3>4. CASE i # 1
        <4>1. i - 1 \in 1..Len(t) /\ t[i - 1] = chan[i]
          BY <2>1, <3>1, <3>4
        <4>2. \A j \in i - 1 + 1..Len(t) : j \in 1..Len(t) /\ j >= i
          BY <2>1, <3>1
        <4> QED
          BY <3>1, <3>2, <4>1, <4>2 DEF LastSizeIs
      <3> QED
        BY <3>3, <3>4
    <2> QED
      BY <2>2, <2>3 DEF t
  <1> QED
    BY <1>1, <1>3, <1>4, <1>5, <1>6

-----------------------------------------------------------------------------
(* The steps.                                                              *)

\* Nothing is under way at the start.
LEMMA SizeInit == Init => SizeInv
  BY DEF Init, SizeInv, NothingBefore, SizeIsKnown, Connected, Unresponded

\* The client asks for a terminal of its size, and its other steps up to the status
\* change no size and send none.
LEMMA ClientSizes ==
    ASSUME TypeOK, SizeInv, ClientStep \/ TaskPanics \/ ClientKilled
    PROVE  SizeInv'
  <1> USE DEF SizeInv, NothingBefore, SizeIsKnown, Unresponded, Connected
  <1>0. /\ c2s \in Seq(ToServer) /\ opts.tty \in BOOLEAN /\ link \in {"none", "up", "down"}
        /\ \A what \in {"Request", "Finished"} :
             Msg(what) \in ToServer /\ Msg(what).what # "WindowSizeChange"
    BY MsgTypes, LifecycleAssumption DEF TypeOK, CommandLine, Msg
  <1>1. CASE Prepare
    <2>1. /\ pc = "prepare" /\ c2s = <<>> /\ spc = "backlog" /\ link = "none"
          /\ UNCHANGED <<opts, size, c2s, link, spc>>
          /\ pc' \in {"connect", "over"}
          /\ pc' = "connect" /\ req'.pty /\ opts.tty => req'.size = size
      BY <1>1 DEF Prepare, Exits, AllocatePty, LocalSize, sizeVars, wireVars, serverVars
    <2>2. NoSizeIn(c2s)
      BY <1>0, <2>1, SizeFacts
    <2> QED
      BY <2>1, <2>2 DEF SizeIsSet, BeforeSize
  <1>2. CASE Connect
    <2>1. /\ pc = "connect" /\ pc' \in {"connect", "request", "over"}
          /\ UNCHANGED <<opts, req, size, sig, missed, ptySize, c2s, spc>>
          /\ pc' = "request" => link' = "up"
          /\ pc' = "connect" => link' = link
      BY <1>2 DEF Connect, Exits, sizeVars, serverVars
    <2> QED
      BY <2>1
  <1>3. CASE SendRequest
    <2>1. /\ pc = "request" /\ pc' \in {"response", "over"}
          /\ UNCHANGED <<opts, req, size, sig, missed, ptySize, link, spc>>
          /\ pc' = "response" => c2s' = Sent(c2s, Msg("Request"))
      BY <1>3 DEF SendRequest, Exits, sizeVars, serverVars
    <2>2. /\ NoSizeIn(c2s) => NoSizeIn(Sent(c2s, Msg("Request")))
          /\ LastSizeIs(c2s, size) => LastSizeIs(Sent(c2s, Msg("Request")), size)
      BY <1>0, SizeFacts
    <2> QED
      BY <2>1, <2>2
  <1>4. CASE RecvResponse \/ EnterRaw \/ StartTasks \/ AwaitStatus
    <2>1. /\ pc \in {"response", "raw", "handler", "stdin", "outputs", "status"}
          /\ pc' # "connect" /\ pc' # "prepare"
          /\ UNCHANGED <<opts, req, size, sig, missed, ptySize, c2s, link, spc>>
      BY <1>4 DEF RecvResponse, EnterRaw, StartTasks, Start, AwaitStatus, Exits,
                  sizeVars, wireVars, serverVars
    <2> QED
      BY <2>1
  <1>5. CASE JoinStdio \/ Leave \/ JoinTasks \/ Return
    <2>1. pc' \in {"leave", "join", "return", "fail", "over"}
      BY <1>5 DEF JoinStdio, Leave, JoinTasks, Return, Exits
    <2> QED
      BY <2>1
  <1>6. CASE TaskPanics \/ ClientKilled
    <2>1. /\ pc' = pc \/ pc' \in {"aborted", "hung", "killed"}
          /\ UNCHANGED <<opts, req, size, sig, missed, ptySize, c2s, link, spc>>
      BY <1>6 DEF TaskPanics, ClientKilled, sizeVars, wireVars, serverVars
    <2> QED
      BY <2>1
  <1> QED
    BY <1>1, <1>2, <1>3, <1>4, <1>5, <1>6 DEF ClientStep

\* The server sets the size of the request, and then each size that arrives.
LEMMA ServerSizes ==
    ASSUME TypeOK, SizeInv, ServerStep
    PROVE  SizeInv'
  <1> USE DEF SizeInv, NothingBefore, SizeIsKnown, Unresponded, Connected
  <1>0. c2s \in Seq(ToServer)
    BY DEF TypeOK
  <1>1. CASE Accept \/ Resolve \/ OpenPty \/ SpawnWithPty \/ SpawnWithPipes \/ SpawnFails
    <2>1. /\ UNCHANGED <<opts, req, pc, size, sig, missed, ptySize, c2s, link>>
          /\ spc' \in BeforeSize => spc \in BeforeSize
          /\ spc' \in SizeIsSet => ~req.pty
          /\ spc = "backlog" => link # "none"
      BY <1>1 DEF Accept, Resolve, OpenPty, SpawnWithPty, SpawnWithPipes, SpawnFails,
                  BeforeSize, SizeIsSet, clientVars, sizeVars, wireVars
    <2> QED
      BY <2>1
  <1>2. CASE SetFirstSize
    <2>1. /\ UNCHANGED <<opts, req, pc, size, sig, missed, c2s, link>>
          /\ spc = "window" /\ spc' \in {"bind", "err"}
          /\ spc' = "bind" => ptySize' = req.size
      BY <1>2 DEF SetFirstSize, clientVars, wireVars
    <2> QED
      BY <2>1 DEF BeforeSize, SizeIsSet
  <1>3. CASE BindStdio \/ Respond \/ ReceiverLost \/ ServeExit \/ ServeKill \/ ServeFinish
    <2>1. /\ UNCHANGED <<opts, req, pc, size, sig, missed, ptySize, c2s, link>>
          /\ spc' \in SizeIsSet => spc \in SizeIsSet
          /\ spc' \notin BeforeSize /\ spc # "backlog"
      BY <1>3 DEF BindStdio, Respond, ReceiverLost, ServeExit, ServeKill, ServeFinish,
                  BeforeSize, SizeIsSet, clientVars, sizeVars, wireVars, serverVars
    <2> QED
      BY <2>1
  <1>4. CASE RecvRequest \/ RecvFinished
    <2>1. /\ UNCHANGED <<opts, req, pc, size, sig, missed, ptySize, link>>
          /\ spc' \in SizeIsSet => spc \in SizeIsSet
          /\ spc' \in BeforeSize => spc \in BeforeSize
          /\ spc # "backlog"
      BY <1>4 DEF RecvRequest, RecvFinished, BeforeSize, SizeIsSet, clientVars, sizeVars,
                  serverVars
    <2>2. c2s' = c2s \/ (c2s' = Tail(c2s) /\ \E what \in {"Request", "Finished"} : Arrived(c2s, what))
      BY <1>4 DEF RecvRequest, RecvFinished
    <2>3. (NoSizeIn(c2s) => NoSizeIn(c2s')) /\ (LastSizeIs(c2s, size) => LastSizeIs(c2s', size))
      BY <1>0, <2>2, SizeFacts
    <2> QED
      BY <2>1, <2>3
  <1>5. CASE SetWindowSize
    <2>1. /\ UNCHANGED <<opts, req, pc, size, sig, link, spc>>
          /\ spc \in {"serve", "finish"} /\ Arrived(c2s, "WindowSizeChange") /\ c2s' = Tail(c2s)
          /\ missed' = TRUE \/ (missed' = missed /\ (req.pty => ptySize' = Head(c2s).size))
      BY <1>5 DEF SetWindowSize, clientVars, serverVars
    <2>2. /\ ~NoSizeIn(c2s)
          /\ LastSizeIs(c2s, size) =>
               LastSizeIs(Tail(c2s), size) \/ (Head(c2s).size = size /\ NoSizeIn(Tail(c2s)))
      BY <1>0, <2>1, SizeFacts
    <2> QED
      BY <2>1, <2>2 DEF BeforeSize, SizeIsSet
  <1> QED
    BY <1>1, <1>2, <1>3, <1>4, <1>5 DEF ServerStep

\* A change is signalled or missed, and a signal sends the size of the moment; the
\* end of the sender sends none.
LEMMA ChangeSizes ==
    ASSUME TypeOK, SizeInv, \/ SenderFinish \/ Resize \/ WindowSignal \/ ChildExits
                            \/ LinkLost \/ UNCHANGED vars
    PROVE  SizeInv'
  <1> USE DEF SizeInv, NothingBefore, SizeIsKnown, Unresponded, Connected
  <1>1. CASE Resize
    <2>1. /\ UNCHANGED <<opts, req, pc, c2s, link, spc>>
          /\ sig' = (sig \/ Watching)
          /\ missed' = (pc # "prepare" /\ ~Watching)
      BY <1>1 DEF Resize, clientVars, wireVars, serverVars
    <2> QED
      BY <2>1
  <1>2. CASE WindowSignal
    <2>1. /\ UNCHANGED <<opts, req, pc, size, link, spc>> /\ pc = "status"
          /\ opts.tty => c2s' = Sent(c2s, WindowSizeChange(size))
      BY <1>2 DEF WindowSignal, clientVars, serverVars
    <2>2. link = "up" => LastSizeIs(Sent(c2s, WindowSizeChange(size)), size)
      <3>1. c2s \in Seq(ToServer) /\ WindowSizeChange(size) \in ToServer
        BY MsgTypes DEF TypeOK
      <3>2. WindowSizeChange(size).what = "WindowSizeChange" /\ WindowSizeChange(size).size = size
        BY DEF WindowSizeChange
      <3> QED
        BY <3>1, <3>2, SizeFacts
    <2>3. link # "down" => link = "up"
      BY <2>1 DEF TypeOK
    <2> QED
      BY <2>1, <2>2, <2>3
  <1>3. CASE ChildExits \/ UNCHANGED vars
    <2>1. UNCHANGED <<opts, req, pc, size, sig, missed, ptySize, c2s, link, spc>>
      BY <1>3 DEF ChildExits, vars, clientVars, sizeVars, wireVars, serverVars
    <2> QED
      BY <2>1
  <1>4. CASE LinkLost
    <2>1. pc' = pc /\ link = "up" /\ link' = "down"
      BY <1>4 DEF LinkLost, clientVars
    <2> QED
      BY <2>1
  <1>5. CASE SenderFinish
    <2>1. /\ UNCHANGED <<opts, req, pc, size, sig, missed, ptySize, link, spc>>
          /\ pc \in {"status", "stdio", "join"}
          /\ c2s' = Sent(c2s, Msg("Finished"))
      BY <1>5 DEF SenderFinish, clientVars, sizeVars, serverVars
    <2>2. (NoSizeIn(c2s) => NoSizeIn(c2s')) /\ (LastSizeIs(c2s, size) => LastSizeIs(c2s', size))
      <3>1. c2s \in Seq(ToServer) /\ Msg("Finished") \in ToServer
        BY MsgTypes DEF TypeOK
      <3>2. Msg("Finished").what # "WindowSizeChange"
        BY DEF Msg
      <3> QED
        BY <2>1, <3>1, <3>2, SizeFacts
    <2> QED
      BY <2>1, <2>2
  <1> QED
    BY <1>1, <1>2, <1>3, <1>4, <1>5

\* The size of the terminal is always on its way to the child, or missed.
THEOREM SizeInvariance == Spec => []SizeInv
  <1>1. TypeOK /\ SizeInv /\ [Next]_vars => SizeInv'
    BY ClientSizes, ServerSizes, ChangeSizes DEF Next, Terminated
  <1> QED
    BY <1>1, SizeInit, LifecycleTypeCorrect, PTL DEF Spec

\* While a session runs and no change is under way, the child's terminal has the
\* size of the local one, unless the change was missed (Lifecycle.tla).
THEOREM SizeSettlesCorrect == Spec => []SizeSettles
  <1>1. SizeInv => SizeSettles
    <2>1. ~LastSizeIs(<<>>, size)
      BY DEF LastSizeIs
    <2> QED
      BY <2>1 DEF SizeInv, SizeIsKnown, SizeSettles, Connected, SizeIsSet
  <1> QED
    BY <1>1, SizeInvariance, PTL

-----------------------------------------------------------------------------
(* The receiver that asks for the child to be killed.                      *)

FinishedUnderWay == \E i \in 1..Len(c2s) : c2s[i].what = "Finished"

\* Nobody has Finished who has it not from the sender, and while the queue is held
\* open the sender comes after the child's exit.
FinishedInv ==
    /\ pc = "prepare" => sender = "run"
    /\ receiver = "finished" \/ FinishedUnderWay => sender = "done"
    /\ sender = "done" => ~HeldUntilStatus \/ child = "exited"

\* Only SenderFinish puts a Finished under way.
LEMMA FinishedFacts ==
    ASSUME TypeOK, [Next]_vars, FinishedUnderWay'
    PROVE  FinishedUnderWay \/ SenderFinish
  <1>1. c2s \in Seq(ToServer)
    BY DEF TypeOK
  <1>2. PICK i \in 1..Len(c2s') : c2s'[i].what = "Finished"
    BY DEF FinishedUnderWay
  <1>3. CASE c2s' = c2s
    BY <1>2, <1>3 DEF FinishedUnderWay
  <1>4. CASE \E what : Arrived(c2s, what) /\ c2s' = Tail(c2s)
    BY <1>1, <1>2, <1>4, ArrivedFacts DEF FinishedUnderWay
  <1>5. CASE \E m \in {Msg("Request"), WindowSizeChange(size)} : c2s' = Sent(c2s, m)
    <2>1. PICK m \in {Msg("Request"), WindowSizeChange(size)} : c2s' = Sent(c2s, m)
      BY <1>5
    <2>2. m \in ToServer /\ m.what # "Finished"
      BY MsgTypes DEF Msg, WindowSizeChange
    <2>3. \A x \in ToServer : \A l \in 1..Len(Sent(c2s, x)) :
             Sent(c2s, x)[l] = x \/ \E j \in 1..Len(c2s) : Sent(c2s, x)[l] = c2s[j]
      BY SentMessages
    <2>4. c2s'[i] = m \/ \E j \in 1..Len(c2s) : c2s'[i] = c2s[j]
      BY <1>2, <2>1, <2>2, <2>3
    <2> QED
      BY <1>2, <2>2, <2>4 DEF FinishedUnderWay
  <1>6. CASE \E k \in 0..Len(c2s) : c2s' = SubSeq(c2s, 1, k)
    <2>1. \E j \in 1..Len(c2s) : c2s'[i] = c2s[j]
      BY <1>1, <1>2, <1>6, PrefixFacts
    <2> QED
      BY <1>2, <2>1 DEF FinishedUnderWay
  <1>7. CASE ClientStep
    BY <1>3, <1>5, <1>7
    DEF ClientStep, Prepare, Connect, SendRequest, RecvResponse, EnterRaw, StartTasks, Start,
        AwaitStatus, JoinStdio, Leave, JoinTasks, Return, wireVars
  <1>8. CASE ServerStep
    BY <1>3, <1>4, <1>8
    DEF ServerStep, Accept, RecvRequest, Resolve, OpenPty, SpawnWithPty, SpawnWithPipes,
        SpawnFails, SetFirstSize, BindStdio, Respond, SetWindowSize, RecvFinished, ReceiverLost,
        ServeExit, ServeKill, ServeFinish, wireVars
  <1>9. CASE TaskPanics \/ Resize \/ WindowSignal \/ ChildExits \/ ClientKilled \/ UNCHANGED vars
    BY <1>3, <1>5, <1>9
    DEF TaskPanics, Resize, WindowSignal, ChildExits, ClientKilled, vars, wireVars
  <1>10. CASE LinkLost
    BY <1>6, <1>10 DEF LinkLost
  <1> QED
    BY <1>7, <1>8, <1>9, <1>10 DEF Next, Terminated

\* A child that has exited stays so, and the request is made before the tasks start.
LEMMA HeldFacts ==
    ASSUME Inv, FinishedInv, [Next]_vars
    PROVE  /\ child = "exited" => child' = "exited"
           /\ sender = "done" => (HeldUntilStatus' <=> HeldUntilStatus)
           /\ pc' = "prepare" => pc = "prepare" /\ ~SenderFinish
  <1>1. CASE ClientStep \/ TaskPanics \/ ClientKilled
    BY <1>1
    DEF ClientStep, Prepare, Connect, SendRequest, RecvResponse, EnterRaw, StartTasks, Start,
        AwaitStatus, JoinStdio, Leave, JoinTasks, Return, Exits, TaskPanics, ClientKilled,
        SenderFinish, serverVars, FinishedInv, HeldUntilStatus
  <1>2. CASE ServerStep
    <2>1. UNCHANGED <<pc, req, opts>> /\ ~SenderFinish
      BY <1>2
      DEF ServerStep, Accept, RecvRequest, Resolve, OpenPty, SpawnWithPty, SpawnWithPipes,
          SpawnFails, SetFirstSize, BindStdio, Respond, SetWindowSize, RecvFinished, ReceiverLost,
          ServeExit, ServeKill, ServeFinish, clientVars, taskVars, SenderFinish
    <2>2. child = "exited" => child' = "exited"
      BY <1>2
      DEF ServerStep, Accept, RecvRequest, Resolve, OpenPty, SpawnWithPty, SpawnWithPipes,
          SpawnFails, SetFirstSize, BindStdio, Respond, SetWindowSize, RecvFinished, ReceiverLost,
          ServeExit, ServeKill, ServeFinish, DropChild, serverVars, Inv, SpawnedOnce
    <2> QED
      BY <2>1, <2>2 DEF HeldUntilStatus
  <1>3. CASE SenderFinish \/ Resize \/ WindowSignal \/ ChildExits \/ LinkLost \/ UNCHANGED vars
    BY <1>3
    DEF SenderFinish, Resize, WindowSignal, ChildExits, LinkLost, vars, clientVars, serverVars,
        taskVars, HeldUntilStatus
  <1> QED
    BY <1>1, <1>2, <1>3 DEF Next, Terminated

\* The sender and the receiver change where they end, and nowhere else.
LEMMA TaskFacts ==
    ASSUME [Next]_vars
    PROVE  /\ sender' = sender \/ SenderFinish
           /\ receiver' = receiver \/ RecvFinished \/ ReceiverLost
  <1>1. CASE ClientStep
    BY <1>1
    DEF ClientStep, Prepare, Connect, SendRequest, RecvResponse, EnterRaw, StartTasks, Start,
        AwaitStatus, JoinStdio, Leave, JoinTasks, Return, taskVars
  <1>2. CASE ServerStep
    BY <1>2
    DEF ServerStep, Accept, RecvRequest, Resolve, OpenPty, SpawnWithPty, SpawnWithPipes,
        SpawnFails, SetFirstSize, BindStdio, Respond, SetWindowSize, RecvFinished, ReceiverLost,
        ServeExit, ServeKill, ServeFinish, taskVars
  <1>3. CASE \/ SenderFinish \/ TaskPanics \/ Resize \/ WindowSignal \/ ChildExits \/ LinkLost
             \/ ClientKilled \/ UNCHANGED vars
    BY <1>3
    DEF SenderFinish, TaskPanics, Resize, WindowSignal, ChildExits, LinkLost, ClientKilled, vars,
        taskVars
  <1> QED
    BY <1>1, <1>2, <1>3 DEF Next, Terminated

\* Every step keeps what is known of Finished.
LEMMA FinishedStep ==
    ASSUME Inv, FinishedInv, [Next]_vars
    PROVE  FinishedInv'
  <1>1. CASE SenderFinish
    <2>1. /\ sender' = "done" /\ pc \in {"status", "stdio", "join"}
          /\ pc = "status" => ~HeldUntilStatus
      BY <1>1 DEF SenderFinish
    <2>2. HeldUntilStatus' = HeldUntilStatus /\ child' = child /\ pc' = pc
      BY <1>1 DEF SenderFinish, HeldUntilStatus, clientVars, serverVars
    <2>3. pc # "status" => child = "exited"
      BY <2>1 DEF Inv, ExitIsTrue
    <2> QED
      BY <2>1, <2>2, <2>3 DEF FinishedInv
  <1>2. CASE ~SenderFinish
    <2>1. sender' = sender
      BY <1>2, TaskFacts
    <2>2. receiver' = "finished" => sender = "done"
      <3>1. RecvFinished => FinishedUnderWay
        BY ArrivedFacts DEF Inv, TypeOK, RecvFinished, FinishedUnderWay
      <3>2. ReceiverLost => receiver' = "lost"
        BY DEF ReceiverLost
      <3> QED
        BY <3>1, <3>2, TaskFacts DEF FinishedInv
    <2>3. FinishedUnderWay' => sender = "done"
      BY <1>2, FinishedFacts DEF Inv, FinishedInv
    <2>4. /\ child = "exited" => child' = "exited"
          /\ sender = "done" => (HeldUntilStatus' <=> HeldUntilStatus)
          /\ pc' = "prepare" => pc = "prepare"
      BY HeldFacts
    <2> QED
      BY <2>1, <2>2, <2>3, <2>4 DEF FinishedInv
  <1> QED
    BY <1>1, <1>2

\* The server's receiver, which alone can ask for the child to be killed, has ended
\* with Finished while the child runs.
ReceiverLeftChild == receiver = "finished" /\ child = "run"

\* In a session with a terminal or with -L that never happens: the window_change
\* task or a listener holds the client's queue until the child has exited, so the
\* exception of ChildIsNotLeft is none of these sessions'.
THEOREM ReceiverStays == Spec => [](ReceiverLeftChild => ~HeldUntilStatus)
  <1>1. Init => FinishedInv
    BY DEF Init, FinishedInv, FinishedUnderWay
  <1>2. Inv /\ FinishedInv /\ [Next]_vars => FinishedInv'
    BY FinishedStep
  <1>3. FinishedInv => (ReceiverLeftChild => ~HeldUntilStatus)
    BY DEF FinishedInv, ReceiverLeftChild
  <1> QED
    BY <1>1, <1>2, <1>3, Invariance, PTL DEF Spec

=============================================================================
