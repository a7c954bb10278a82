-------------------------- MODULE StreamTasksProofs --------------------------
(***************************************************************************)
(* What the proofs about streams, sessions and forwarded connections share: *)
(* facts about channels and about the order of the messages in a sequence,  *)
(* and that each transition of a source or of a sink task leads to a state  *)
(* of that task.                                                            *)
(***************************************************************************)
EXTENDS StreamTasks, SequenceTheorems, WellFoundedInduction, TLAPS

-----------------------------------------------------------------------------
(* The channels as sequences.                                              *)

\* What is left of a channel when its first message is taken.
LEMMA TailFacts ==
    ASSUME NEW S, NEW s \in Seq(S), s # <<>>
    PROVE  /\ Head(s) = s[1]
           /\ Tail(s) \in Seq(S)
           /\ Len(Tail(s)) = Len(s) - 1
           /\ \A i \in 1..Len(Tail(s)) : Tail(s)[i] = s[i + 1]
           /\ Head(s) \in S
           /\ 1 \in 1..Len(s)
  OBVIOUS

\* A task's channel is empty or holds one message.
LEMMA ShortSeq ==
    ASSUME NEW S, NEW s \in Seq(S), Len(s) <= ChanCap
    PROVE  s = <<>> \/ Len(s) = 1
  <1>1. Len(s) \in Nat /\ (Len(s) = 0 => s = <<>>)
    OBVIOUS
  <1> DEFINE n == Len(s)
  <1>2. n \in Nat /\ n <= 1
    BY <1>1 DEF ChanCap
  <1> HIDE DEF n
  <1>3. n \in {0, 1}
    BY <1>2
  <1> QED
    BY <1>1, <1>3 DEF n

\* A message at the end of a channel leaves the others where they are.
LEMMA AppendFacts ==
    ASSUME NEW S, NEW s \in Seq(S), NEW x \in S
    PROVE  /\ Append(s, x) \in Seq(S)
           /\ Len(Append(s, x)) = Len(s) + 1
           /\ \A i \in 1..Len(s) : Append(s, x)[i] = s[i]
           /\ Append(s, x)[Len(s) + 1] = x
  OBVIOUS

\* A lost connection keeps a prefix of what is under way.
LEMMA PrefixFacts ==
    ASSUME NEW S, NEW s \in Seq(S), NEW k \in 0..Len(s)
    PROVE  /\ SubSeq(s, 1, k) \in Seq(S)
           /\ Len(SubSeq(s, 1, k)) = k
           /\ \A i \in 1..k : SubSeq(s, 1, k)[i] = s[i]
  OBVIOUS

-----------------------------------------------------------------------------
(* Order in a sequence.                                                    *)

\* A message of C is among q.
Has(q, C) == \E i \in 1..Len(q) : q[i] \in C

\* Behind a message of C, none of D follows.
NoneAfter(q, C, D) == \A i, j \in 1..Len(q) : i < j /\ q[i] \in C => q[j] \notin D

\* p is q and, at the end, x.
Appended(p, q, x) == p = Append(q, x)

\* q begins with x, and p is what follows.
Taken(q, x, p) == q = <<x>> \o p

\* What is in r is in q, in the same order.
Kept(r, q) ==
    \A C, D : /\ Has(r, C) => Has(q, C)
              /\ NoneAfter(q, C, D) => NoneAfter(r, C, D)

\* x is the first of p, and r what follows.
FirstOf(x, p, r) ==
    \A C, D : /\ x \in C => Has(p, C)
              /\ Has(p, C) => x \in C \/ Has(r, C)
              /\ NoneAfter(p, C, D) /\ x \in C => ~Has(r, D)

\* In an empty sequence there is nothing.
LEMMA EmptyOrder == \A C, D : ~Has(<<>>, C) /\ NoneAfter(<<>>, C, D)
  BY DEF Has, NoneAfter

\* In a sequence of one message.
LEMMA OneOrder ==
    ASSUME NEW x
    PROVE  \A C, D : (Has(<<x>>, C) <=> x \in C) /\ NoneAfter(<<x>>, C, D)
  <1>1. Len(<<x>>) = 1 /\ <<x>>[1] = x
    OBVIOUS
  <1> DEFINE q == <<x>>
  <1> HIDE DEF q
  <1>2. Len(q) = 1 /\ q[1] = x
    BY <1>1 DEF q
  <1>3. \A i \in 1..1 : i = 1
    OBVIOUS
  <1>4. \A C, D : (Has(q, C) <=> x \in C) /\ NoneAfter(q, C, D)
    BY <1>2, <1>3 DEF Has, NoneAfter
  <1> QED
    BY <1>4 DEF q

\* The order in two sequences, one after the other.
LEMMA ConcatOrder ==
    ASSUME NEW S, NEW p \in Seq(S), NEW q \in Seq(S), NEW C, NEW D
    PROVE  /\ Has(p \o q, C) <=> Has(p, C) \/ Has(q, C)
           /\ NoneAfter(p \o q, C, D) <=>
                /\ NoneAfter(p, C, D) /\ NoneAfter(q, C, D)
                /\ Has(p, C) => ~Has(q, D)
  <1> DEFINE r == p \o q
             m == Len(p)
             n == Len(q)
  <1>1. m \in Nat /\ n \in Nat /\ r \in Seq(S) /\ Len(r) = m + n
    BY ConcatProperties, LenProperties
  <1>2. \A i \in 1..(m + n) : r[i] = IF i <= m THEN p[i] ELSE q[i - m]
    BY ConcatProperties, LenProperties
  <1> HIDE DEF r
  <1>3. \A i \in 1..m : i \in 1..(m + n) /\ r[i] = p[i]
    BY <1>1, <1>2
  <1>4. \A i \in 1..n : m + i \in 1..(m + n) /\ r[m + i] = q[i]
    <2> SUFFICES ASSUME NEW i \in 1..n PROVE m + i \in 1..(m + n) /\ r[m + i] = q[i]
      OBVIOUS
    <2>1. m + i \in 1..(m + n) /\ ~(m + i <= m) /\ (m + i) - m = i
      BY <1>1
    <2> QED
      BY <1>2, <2>1
  <1>5. \A i \in 1..(m + n) : i \in 1..m \/ \E k \in 1..n : i = m + k
    <2> SUFFICES ASSUME NEW i \in 1..(m + n), i \notin 1..m PROVE \E k \in 1..n : i = m + k
      OBVIOUS
    <2>1. i - m \in 1..n /\ i = m + (i - m)
      BY <1>1
    <2> QED
      BY <2>1
  <1> HIDE DEF m, n
  <1>6. Has(r, C) <=> Has(p, C) \/ Has(q, C)
    <2>1. Has(r, C) <=> \E i \in 1..(m + n) : r[i] \in C
      BY <1>1 DEF Has
    <2>2. Has(p, C) <=> \E i \in 1..m : p[i] \in C
      BY DEF Has, m
    <2>3. Has(q, C) <=> \E i \in 1..n : q[i] \in C
      BY DEF Has, n
    <2>4. ASSUME NEW i \in 1..(m + n), r[i] \in C PROVE Has(p, C) \/ Has(q, C)
      BY <1>3, <1>4, <1>5, <2>2, <2>3, <2>4
    <2>5. ASSUME NEW i \in 1..m, p[i] \in C PROVE Has(r, C)
      BY <1>3, <2>1, <2>5
    <2>6. ASSUME NEW i \in 1..n, q[i] \in C PROVE Has(r, C)
      BY <1>4, <2>1, <2>6
    <2> QED
      BY <2>1, <2>2, <2>3, <2>4, <2>5, <2>6
  <1>7. ASSUME NoneAfter(r, C, D)
        PROVE  NoneAfter(p, C, D) /\ NoneAfter(q, C, D) /\ (Has(p, C) => ~Has(q, D))
    <2>1. NoneAfter(p, C, D)
      BY <1>1, <1>3, <1>7 DEF NoneAfter, m
    <2>2. NoneAfter(q, C, D)
      <3> SUFFICES ASSUME NEW i \in 1..n, NEW j \in 1..n, i < j, q[i] \in C PROVE q[j] \notin D
        BY DEF NoneAfter, n
      <3>1. m + i < m + j
        BY <1>1
      <3> QED
        BY <1>1, <1>4, <1>7, <3>1 DEF NoneAfter
    <2>3. ASSUME NEW i \in 1..m, NEW j \in 1..n, p[i] \in C PROVE q[j] \notin D
      <3>1. i < m + j
        BY <1>1
      <3> QED
        BY <1>1, <1>3, <1>4, <1>7, <2>3, <3>1 DEF NoneAfter
    <2> QED
      BY <2>1, <2>2, <2>3 DEF Has, m, n
  <1>8. ASSUME NoneAfter(p, C, D), NoneAfter(q, C, D), Has(p, C) => ~Has(q, D)
        PROVE  NoneAfter(r, C, D)
    <2> SUFFICES ASSUME NEW i \in 1..(m + n), NEW j \in 1..(m + n), i < j, r[i] \in C
                 PROVE  r[j] \notin D
      BY <1>1 DEF NoneAfter
    <2>1. CASE i \in 1..m /\ j \in 1..m
      BY <1>3, <1>8, <2>1 DEF NoneAfter, m
    <2>2. CASE i \in 1..m /\ \E k \in 1..n : j = m + k
      BY <1>3, <1>4, <1>8, <2>2 DEF Has, m, n
    <2>3. CASE (\E k \in 1..n : i = m + k) /\ (\E k \in 1..n : j = m + k)
      <3>1. PICK k \in 1..n, l \in 1..n : i = m + k /\ j = m + l
        BY <2>3
      <3>2. k < l
        BY <1>1, <3>1
      <3> QED
        BY <1>4, <1>8, <3>1, <3>2 DEF NoneAfter, n
    <2>4. ~((\E k \in 1..n : i = m + k) /\ j \in 1..m)
      BY <1>1
    <2> QED
      BY <1>5, <2>1, <2>2, <2>3, <2>4
  <1> QED
    BY <1>6, <1>7, <1>8 DEF r

\* The order when a message is added at the end.
LEMMA AppendOrder ==
    ASSUME NEW S, NEW q \in Seq(S), NEW x \in S, NEW r, Appended(r, q, x), NEW C, NEW D
    PROVE  /\ Has(r, C) <=> Has(q, C) \/ x \in C
           /\ NoneAfter(r, C, D) <=> NoneAfter(q, C, D) /\ (Has(q, C) => x \notin D)
  <1> DEFINE p == <<x>>
  <1>0. r = Append(q, x)
    BY DEF Appended
  <1>1. Append(q, x) = q \o p /\ p \in Seq(S)
    BY AppendIsConcat
  <1>2. /\ Has(p, D) <=> x \in D
        /\ Has(p, C) <=> x \in C
        /\ NoneAfter(p, C, D)
    BY OneOrder
  <1> HIDE DEF p
  <1>3. /\ Has(q \o p, C) <=> Has(q, C) \/ Has(p, C)
        /\ NoneAfter(q \o p, C, D) <=>
             NoneAfter(q, C, D) /\ NoneAfter(p, C, D) /\ (Has(q, C) => ~Has(p, D))
    BY <1>1, ConcatOrder
  <1> QED
    BY <1>0, <1>1, <1>2, <1>3

\* The order before and after the first message is taken.
LEMMA TakenOrder ==
    ASSUME NEW S, NEW q \in Seq(S), NEW x \in S, NEW r, Taken(r, x, q), NEW C, NEW D
    PROVE  /\ Has(r, C) <=> x \in C \/ Has(q, C)
           /\ NoneAfter(r, C, D) <=> NoneAfter(q, C, D) /\ (x \in C => ~Has(q, D))
  <1> DEFINE p == <<x>>
  <1>1. p \in Seq(S)
    OBVIOUS
  <1>2. /\ Has(p, C) <=> x \in C
        /\ NoneAfter(p, C, D)
    BY OneOrder
  <1> HIDE DEF p
  <1>3. /\ Has(p \o q, C) <=> Has(p, C) \/ Has(q, C)
        /\ NoneAfter(p \o q, C, D) <=>
             NoneAfter(p, C, D) /\ NoneAfter(q, C, D) /\ (Has(p, C) => ~Has(q, D))
    BY <1>1, ConcatOrder
  <1> QED
    BY <1>2, <1>3 DEF p, Taken

\* Some of the messages, from the first on, as a lost connection leaves them.
LEMMA PrefixOrder ==
    ASSUME NEW S, NEW q \in Seq(S), NEW k \in 0..Len(q), NEW C, NEW D
    PROVE  /\ Has(SubSeq(q, 1, k), C) => Has(q, C)
           /\ NoneAfter(q, C, D) => NoneAfter(SubSeq(q, 1, k), C, D)
  <1> DEFINE p == SubSeq(q, 1, k)
  <1>1. Len(p) = k /\ \A i \in 1..k : p[i] = q[i] /\ i \in 1..Len(q)
    BY PrefixFacts
  <1> HIDE DEF p
  <1> QED
    BY <1>1 DEF Has, NoneAfter, p

\* A sequence that is not empty is its head before its tail.
LEMMA HeadFirst ==
    ASSUME NEW S, NEW q \in Seq(S), q # <<>>
    PROVE  Taken(q, Head(q), Tail(q))
  <1>1. Head(q) \in S /\ Tail(q) \in Seq(S) /\ Head(q) = q[1] /\ Len(Tail(q)) = Len(q) - 1
        /\ \A i \in 1..Len(Tail(q)) : Tail(q)[i] = q[i + 1]
    BY TailFacts
  <1> DEFINE h == <<Head(q)>>
             r == h \o Tail(q)
  <1>2. h \in Seq(S) /\ Len(h) = 1 /\ h[1] = q[1]
    BY <1>1
  <1>3. Len(q) \in Nat /\ Len(Tail(q)) \in Nat
    BY <1>1
  <1> DEFINE t == Tail(q)
  <1> HIDE DEF h
  <1>4. r \in Seq(S) /\ Len(r) = Len(q)
        /\ \A i \in 1..Len(q) : r[i] = IF i <= 1 THEN h[i] ELSE Tail(q)[i - 1]
    <2>1. t \in Seq(S) /\ 1 + Len(t) = Len(q)
      BY <1>1, <1>3
    <2> HIDE DEF t
    <2>2. h \o t \in Seq(S) /\ Len(h \o t) = Len(h) + Len(t)
      BY <1>2, <2>1, ConcatProperties
    <2>3. \A i \in 1..(Len(h) + Len(t)) :
            (h \o t)[i] = IF i <= Len(h) THEN h[i] ELSE t[i - Len(h)]
      BY <1>2, <2>1, ConcatProperties
    <2> QED
      BY <1>2, <2>1, <2>2, <2>3 DEF t
  <1> HIDE DEF r, t
  <1>5. ASSUME NEW i \in 1..Len(q) PROVE r[i] = q[i]
    <2>1. CASE i = 1
      BY <1>2, <1>4, <2>1
    <2>2. CASE i # 1
      <3>1. i - 1 \in 1..Len(Tail(q)) /\ ~(i <= 1) /\ (i - 1) + 1 = i
        BY <1>1, <1>3, <2>2
      <3> QED
        BY <1>1, <1>4, <3>1
    <2> QED
      BY <2>1, <2>2
  <1>6. q = r
    BY <1>4, <1>5, SeqEqual
  <1> QED
    BY <1>6 DEF r, h, Taken

\* A channel holds one message at most.
LEMMA OneInChannel ==
    ASSUME NEW S, NEW q \in Seq(S), Len(q) <= ChanCap, q # <<>>
    PROVE  /\ Head(q) \in S /\ Tail(q) = <<>>
           /\ \A C : Has(q, C) <=> Head(q) \in C
  <1> DEFINE h == Head(q)
             t == Tail(q)
  <1>1. /\ h \in S /\ t \in Seq(S) /\ h = q[1]
        /\ Len(q) \in Nat /\ Len(t) \in Nat /\ Len(t) = Len(q) - 1
    BY TailFacts
  <1>2. Len(t) = 0 /\ Len(q) = 1
    BY <1>1 DEF ChanCap
  <1> HIDE DEF h, t
  <1>3. t = <<>>
    BY <1>1, <1>2, EmptySeq
  <1>4. ASSUME NEW C PROVE Has(q, C) <=> h \in C
    <2>1. 1 \in 1..1 /\ \A i \in 1..1 : i = 1
      OBVIOUS
    <2> QED
      BY <1>1, <1>2, <2>1 DEF Has
  <1> QED
    BY <1>1, <1>3, <1>4 DEF h, t

-----------------------------------------------------------------------------
(* The messages of one stream.                                             *)

\* f has, after each message of p, what the messages up to it say to the task.
Selects(f, n, p, A, id, acts) ==
    /\ f \in [0..n -> Seq(A)]
    /\ f[0] = <<>>
    /\ \A i \in 1..n :
         f[i] = IF p[i].id = id /\ p[i].act \in acts THEN Append(f[i - 1], ActionOf(p[i]))
                                                    ELSE f[i - 1]

\* Some number is the least of its kind: what is proved by induction is proved of the
\* least counterexample.
LEMMA LeastNumber ==
    ASSUME NEW T \in SUBSET Nat, T # {}
    PROVE  \E m \in T : \A k \in T : m <= k
  <1>1. PICK R : R = OpToRel(<, Nat)
    BY Zenon
  <1>2. \A x, y \in Nat : <<y, x>> \in R <=> y < x
    BY <1>1 DEF OpToRel
  <1>3. IsWellFoundedOn(R, Nat)
    BY <1>1, NatLessThanWellFounded, Zenon
  <1>4. \E x \in T : \A y \in T : ~(<<y, x>> \in R)
    BY <1>3, WFMin
  <1>5. PICK m \in T : \A y \in T : ~(<<y, m>> \in R)
    BY <1>4, Zenon
  <1>6. ASSUME NEW k \in T PROVE m <= k
    <2>1. m \in Nat /\ k \in Nat
      OBVIOUS
    <2>2. ~(k < m)
      BY <1>2, <1>5, <2>1, Zenon
    <2> QED
      BY <2>1, <2>2
  <1> QED
    BY <1>6

\* Such a function exists.
LEMMA SelectsExist ==
    ASSUME NEW M, NEW p \in Seq(M), NEW A, \A m \in M : ActionOf(m) \in A, NEW id, NEW acts
    PROVE  \A n \in 0..Len(p) : \E f : Selects(f, n, p, A, id, acts)
  <1> DEFINE T == {n \in 0..Len(p) : ~ \E f : Selects(f, n, p, A, id, acts)}
  <1>0. Len(p) \in Nat /\ T \in SUBSET Nat
    OBVIOUS
  <1>1. ASSUME T # {} PROVE FALSE
    <2>1. PICK m \in T : \A k \in T : m <= k
      BY <1>0, <1>1, LeastNumber
    <2>2. m \in 0..Len(p) /\ m \in Nat /\ ~ \E f : Selects(f, m, p, A, id, acts)
      BY <1>0
    <2>3. CASE m = 0
      <3>1. Selects([k \in 0..0 |-> <<>>], 0, p, A, id, acts)
        BY DEF Selects
      <3> QED
        BY <2>2, <2>3, <3>1
    <2>4. CASE m # 0
      <3>1. m - 1 \in 0..Len(p) /\ ~(m <= m - 1) /\ m \in 1..Len(p) /\ m - 1 \in 0..m - 1
        BY <1>0, <2>2, <2>4
      <3>2. PICK g : Selects(g, m - 1, p, A, id, acts)
        BY <2>1, <3>1
      <3>3. PICK a, b : a = g[m - 1] /\ b = ActionOf(p[m])
        OBVIOUS
      <3>4. a \in Seq(A) /\ b \in A
        BY <3>1, <3>2, <3>3 DEF Selects
      <3> DEFINE last == IF p[m].id = id /\ p[m].act \in acts THEN Append(a, b) ELSE a
                 f == [k \in 0..m |-> IF k = m THEN last ELSE g[k]]
      <3>5. last \in Seq(A)
        BY <3>4
      <3> HIDE DEF last, T
      <3>6. f \in [0..m -> Seq(A)]
        <4>1. ASSUME NEW k \in 0..m PROVE f[k] \in Seq(A)
          <5>1. CASE k = m
            BY <3>5, <5>1
          <5>2. CASE k # m
            <6>1. k \in 0..m - 1
              BY <2>2, <5>2
            <6> QED
              BY <3>2, <5>2, <6>1 DEF Selects
          <5> QED
            BY <5>1, <5>2
        <4> QED
          BY <4>1
      <3>7. f[0] = <<>>
        BY <2>2, <2>4, <3>1, <3>2 DEF Selects
      <3>8. ASSUME NEW k \in 1..m
            PROVE  f[k] = IF p[k].id = id /\ p[k].act \in acts
                          THEN Append(f[k - 1], ActionOf(p[k])) ELSE f[k - 1]
        <4>1. k - 1 \in 0..m /\ k - 1 # m /\ f[k - 1] = g[k - 1]
          BY <2>2
        <4>2. CASE k = m
          BY <2>2, <3>3, <4>1, <4>2 DEF last
        <4>3. CASE k # m
          <5>1. k \in 1..m - 1 /\ f[k] = g[k]
            BY <2>2, <4>3
          <5>2. g[k] = IF p[k].id = id /\ p[k].act \in acts
                       THEN Append(g[k - 1], ActionOf(p[k])) ELSE g[k - 1]
            BY <3>2, <5>1 DEF Selects
          <5> QED
            BY <4>1, <5>1, <5>2
        <4> QED
          BY <4>2, <4>3
      <3> HIDE DEF f
      <3>9. Selects(f, m, p, A, id, acts)
        BY <3>6, <3>7, <3>8 DEF Selects
      <3> QED
        BY <2>2, <3>9
    <2> QED
      BY <2>3, <2>4
  <1>2. T = {}
    BY <1>1
  <1> QED
    BY <1>2

\* It is the one that Actions means.
LEMMA ActionsSelected ==
    ASSUME NEW M, NEW p \in Seq(M), NEW A, NEW id, NEW acts,
           NEW f, Selects(f, Len(p), p, A, id, acts)
    PROVE  Actions(p, id, acts) = f[Len(p)]
  <1> DEFINE N == Len(p)
             W(g) == [i \in 0..Len(p) |->
                        IF i = 0 THEN <<>>
                        ELSE IF p[i].id = id /\ p[i].act \in acts
                             THEN Append(g[i - 1], ActionOf(p[i]))
                             ELSE g[i - 1]]
             kept == CHOOSE g : g = W(g)
  <1>0. N \in Nat
    OBVIOUS
  <1>1. f = W(f)
    <2>1. ASSUME NEW i \in 0..N PROVE f[i] = W(f)[i]
      <3>1. CASE i = 0
        BY <3>1 DEF Selects
      <3>2. CASE i # 0
        <4>1. i \in 1..N
          BY <1>0, <3>2
        <4> QED
          BY <3>2, <4>1 DEF Selects
      <3> QED
        BY <3>1, <3>2
    <2>2. f = [i \in 0..N |-> f[i]]
      BY DEF Selects
    <2> QED
      BY <2>1, <2>2
  <1>2. kept = W(kept)
    <2> HIDE DEF W
    <2> QED
      BY <1>1
  <1>3. Actions(p, id, acts) = kept[N]
    BY DEF Actions
  <1> HIDE DEF kept
  <1>4. /\ kept[0] = <<>>
        /\ \A i \in 1..N : kept[i] = IF p[i].id = id /\ p[i].act \in acts
                                     THEN Append(kept[i - 1], ActionOf(p[i]))
                                     ELSE kept[i - 1]
    <2>1. ASSUME NEW i \in 0..N
          PROVE  kept[i] = IF i = 0 THEN <<>>
                           ELSE IF p[i].id = id /\ p[i].act \in acts
                                THEN Append(kept[i - 1], ActionOf(p[i]))
                                ELSE kept[i - 1]
      <3>1. kept[i] = W(kept)[i]
        BY <1>2
      <3> QED
        BY <3>1
    <2>2. kept[0] = <<>>
      BY <1>0, <2>1
    <2>3. ASSUME NEW i \in 1..N PROVE i \in 0..N /\ i # 0
      BY <1>0
    <2> QED
      BY <2>1, <2>2, <2>3
  <1> DEFINE T == {i \in 0..N : kept[i] # f[i]}
  <1>5. ASSUME T # {} PROVE FALSE
    <2>0. T \in SUBSET Nat
      BY <1>0
    <2>1. PICK m \in T : \A k \in T : m <= k
      BY <1>5, <2>0, LeastNumber
    <2>2. m \in 0..N /\ m # 0
      BY <1>4 DEF Selects
    <2>3. m \in 1..N /\ m - 1 \in 0..N /\ ~(m <= m - 1)
      BY <1>0, <2>2
    <2>4. kept[m - 1] = f[m - 1]
      BY <2>1, <2>3
    <2>5. kept[m] = f[m]
      BY <1>4, <2>3, <2>4 DEF Selects
    <2> QED
      BY <2>1, <2>5
  <1>6. kept[N] = f[N]
    BY <1>0, <1>5
  <1> QED
    BY <1>3, <1>6

\* What two parts of a way say comes one after the other.
LEMMA ActionsConcat ==
    ASSUME NEW M, NEW p \in Seq(M), NEW q \in Seq(M), NEW A, \A m \in M : ActionOf(m) \in A,
           NEW id, NEW acts
    PROVE  /\ Actions(p, id, acts) \in Seq(A)
           /\ Actions(p \o q, id, acts) = Actions(p, id, acts) \o Actions(q, id, acts)
  <1> DEFINE m == Len(p)
             n == Len(q)
             r == p \o q
  <1>1. m \in Nat /\ n \in Nat /\ r \in Seq(M) /\ Len(r) = m + n
    BY ConcatProperties, LenProperties
  <1>2. \A i \in 1..(m + n) : r[i] = IF i <= m THEN p[i] ELSE q[i - m]
    BY ConcatProperties, LenProperties
  <1>3. PICK f : Selects(f, m, p, A, id, acts)
    <2>1. m \in 0..Len(p)
      BY <1>1
    <2> QED
      BY <2>1, SelectsExist
  <1>4. PICK g : Selects(g, n, q, A, id, acts)
    <2>1. n \in 0..Len(q)
      BY <1>1
    <2> QED
      BY <2>1, SelectsExist
  <1>5. Actions(p, id, acts) = f[m] /\ Actions(q, id, acts) = g[n]
    BY <1>3, <1>4, ActionsSelected
  <1> HIDE DEF r, m, n
  <1>6. f[m] \in Seq(A) /\ \A i \in 0..n : g[i] \in Seq(A)
    BY <1>1, <1>3, <1>4 DEF Selects
  <1>7. PICK a \in Seq(A) : a = f[m]
    BY <1>6
  <1> DEFINE h == [i \in 0..(m + n) |-> IF i <= m THEN f[i] ELSE a \o g[i - m]]
  <1>8. Selects(h, m + n, r, A, id, acts)
    <2>1. ASSUME NEW i \in 0..(m + n) PROVE h[i] \in Seq(A)
      <3>1. CASE i <= m
        <4>1. i \in 0..m
          BY <1>1, <3>1
        <4> QED
          BY <1>3, <3>1, <4>1 DEF Selects
      <3>2. CASE ~(i <= m)
        <4>1. i - m \in 0..n
          BY <1>1, <3>2
        <4>2. PICK b \in Seq(A) : b = g[i - m]
          BY <1>6, <4>1
        <4>3. h[i] = a \o b
          BY <3>2, <4>2
        <4> HIDE DEF h
        <4> QED
          BY <4>3, ConcatProperties
      <3> QED
        BY <3>1, <3>2
    <2>2. h \in [0..(m + n) -> Seq(A)]
      BY <2>1
    <2>3. h[0] = <<>>
      BY <1>1, <1>3 DEF Selects
    <2>4. ASSUME NEW i \in 1..(m + n)
          PROVE  h[i] = IF r[i].id = id /\ r[i].act \in acts
                        THEN Append(h[i - 1], ActionOf(r[i])) ELSE h[i - 1]
      <3>1. CASE i <= m
        <4>1. i \in 1..m /\ i - 1 <= m /\ i - 1 \in 0..(m + n) /\ i \in 0..(m + n)
          BY <1>1, <3>1
        <4>2. h[i] = f[i] /\ h[i - 1] = f[i - 1] /\ r[i] = p[i]
          BY <1>2, <4>1
        <4>3. f[i] = IF p[i].id = id /\ p[i].act \in acts
                     THEN Append(f[i - 1], ActionOf(p[i])) ELSE f[i - 1]
          BY <1>3, <4>1 DEF Selects
        <4> QED
          BY <4>2, <4>3
      <3>2. CASE ~(i <= m)
        <4>1. PICK j \in 1..n : i = m + j
          <5>1. i - m \in 1..n /\ i = m + (i - m)
            BY <1>1, <3>2
          <5> QED
            BY <5>1
        <4>2. /\ ~(m + j <= m) /\ (m + j) - m = j /\ m + j \in 0..(m + n)
              /\ (m + j) - 1 \in 0..(m + n) /\ j - 1 \in 0..n
          BY <1>1
        <4>3. h[i] = a \o g[j] /\ r[i] = q[j]
          BY <1>2, <4>1, <4>2
        <4>4. h[i - 1] = a \o g[j - 1]
          <5>1. CASE j = 1
            <6>1. (m + j) - 1 <= m /\ (m + j) - 1 = m
              BY <1>1, <5>1
            <6>2. h[i - 1] = a
              BY <1>7, <4>1, <4>2, <6>1
            <6>3. g[j - 1] = <<>>
              BY <1>4, <5>1 DEF Selects
            <6> QED
              BY <6>2, <6>3, ConcatEmptySeq
          <5>2. CASE j # 1
            <6>1. ~((m + j) - 1 <= m) /\ ((m + j) - 1) - m = j - 1
              BY <1>1, <5>2
            <6> QED
              BY <4>1, <4>2, <6>1
          <5> QED
            BY <5>1, <5>2
        <4>5. g[j] = IF q[j].id = id /\ q[j].act \in acts
                     THEN Append(g[j - 1], ActionOf(q[j])) ELSE g[j - 1]
          BY <1>4 DEF Selects
        <4>6. PICK b \in Seq(A), x \in A : b = g[j - 1] /\ x = ActionOf(q[j])
          <5>1. q[j] \in M
            BY DEF n
          <5> QED
            BY <1>6, <4>2, <5>1
        <4>7. a \o Append(b, x) = Append(a \o b, x)
          OBVIOUS
        <4> HIDE DEF h
        <4> QED
          BY <4>3, <4>4, <4>5, <4>6, <4>7
      <3> QED
        BY <3>1, <3>2
    <2> HIDE DEF h
    <2> QED
      BY <2>2, <2>3, <2>4 DEF Selects
  <1>9. Actions(r, id, acts) = h[m + n]
    <2> HIDE DEF h
    <2>1. PICK w \in Seq(M) : w = r
      BY <1>1
    <2>2. Selects(h, Len(w), w, A, id, acts)
      BY <1>1, <1>8, <2>1
    <2>3. Actions(w, id, acts) = h[Len(w)]
      BY <2>2, ActionsSelected
    <2> QED
      BY <1>1, <2>1, <2>3
  <1>10. h[m + n] = a \o g[n]
    <2>1. CASE n = 0
      <3>1. h[m + n] = a
        BY <1>1, <1>7, <2>1
      <3>2. g[n] = <<>>
        BY <1>4, <2>1 DEF Selects
      <3> QED
        BY <3>1, <3>2, ConcatEmptySeq
    <2>2. CASE n # 0
      <3>1. ~(m + n <= m) /\ (m + n) - m = n /\ m + n \in 0..(m + n)
        BY <1>1, <2>2
      <3> QED
        BY <3>1
    <2> QED
      BY <2>1, <2>2
  <1> HIDE DEF h
  <1> QED
    BY <1>5, <1>6, <1>7, <1>9, <1>10 DEF r

\* Nothing says nothing.
LEMMA ActionsOfNone == \A id, acts : Actions(<<>>, id, acts) = <<>>
  <1> SUFFICES ASSUME NEW id, NEW acts PROVE Actions(<<>>, id, acts) = <<>>
    OBVIOUS
  <1>1. PICK M : M = {SourceClosed}
    OBVIOUS
  <1>2. PICK p : p = <<>>
    OBVIOUS
  <1>3. p \in Seq(M) /\ Len(p) = 0
    BY <1>2
  <1>4. PICK A : \A m \in M : ActionOf(m) \in A
    <2>1. \A m \in M : ActionOf(m) \in {ActionOf(m2) : m2 \in M}
      OBVIOUS
    <2> QED
      BY <2>1
  <1>5. PICK f : Selects(f, 0, p, A, id, acts)
    <2>1. 0 \in 0..Len(p)
      BY <1>3
    <2> QED
      BY <1>3, <1>4, <2>1, SelectsExist
  <1>6. Actions(p, id, acts) = f[0]
    BY <1>3, <1>5, ActionsSelected
  <1>7. f[0] = <<>>
    BY <1>5 DEF Selects
  <1> QED
    BY <1>2, <1>6, <1>7

\* One message says something to one task.
LEMMA ActionsOfOne ==
    ASSUME NEW M, NEW m \in M, NEW A, \A x \in M : ActionOf(x) \in A, NEW id, NEW acts
    PROVE  Actions(<<m>>, id, acts) =
             IF m.id = id /\ m.act \in acts THEN <<ActionOf(m)>> ELSE <<>>
  <1>1. PICK p : p = <<m>>
    OBVIOUS
  <1>2. p \in Seq(M) /\ Len(p) = 1 /\ p[1] = m
    BY <1>1
  <1>3. PICK f : Selects(f, 1, p, A, id, acts)
    <2>1. 1 \in 0..Len(p)
      BY <1>2
    <2> QED
      BY <1>2, <2>1, SelectsExist
  <1>4. Actions(p, id, acts) = f[1]
    BY <1>2, <1>3, ActionsSelected
  <1>5. f[1] = IF m.id = id /\ m.act \in acts THEN Append(f[0], ActionOf(m)) ELSE f[0]
    BY <1>2, <1>3 DEF Selects
  <1>6. f[0] = <<>>
    BY <1>3 DEF Selects
  <1>7. ASSUME NEW x PROVE Append(<<>>, x) = <<x>>
    OBVIOUS
  <1> QED
    BY <1>1, <1>4, <1>5, <1>6, <1>7

\* What the messages of M may say.
ActionsIn(M) == {ActionOf(m) : m \in M}

\* q is the beginning of p.
Begins(q, p) == \E i \in 0..Len(p) : q = SubSeq(p, 1, i)

\* How what is said changes when a message is added at the end of the way, is taken off
\* its front, or when the end of the way is lost.
LEMMA ActionsMove ==
    ASSUME NEW M, NEW p \in Seq(M), NEW id, NEW acts
    PROVE  /\ Actions(p, id, acts) \in Seq(ActionsIn(M))
           /\ \A m \in M : \A q : Appended(q, p, m) =>
                Actions(q, id, acts) = IF m.id = id /\ m.act \in acts
                                       THEN Append(Actions(p, id, acts), ActionOf(m))
                                       ELSE Actions(p, id, acts)
           /\ \A m \in M : \A q : Taken(q, m, p) =>
                Actions(q, id, acts) = IF m.id = id /\ m.act \in acts
                                       THEN <<ActionOf(m)>> \o Actions(p, id, acts)
                                       ELSE Actions(p, id, acts)
           /\ \A k \in 0..Len(p) : Begins(Actions(SubSeq(p, 1, k), id, acts), Actions(p, id, acts))
  <1>0. PICK A : A = ActionsIn(M)
    OBVIOUS
  <1>5. \A x \in M : ActionOf(x) \in A
    BY <1>0 DEF ActionsIn
  <1>1. PICK a \in Seq(A) : a = Actions(p, id, acts)
    BY <1>5, ActionsConcat
  <1>2. ASSUME NEW m \in M, NEW q, Appended(q, p, m)
        PROVE  Actions(q, id, acts) = IF m.id = id /\ m.act \in acts
                                      THEN Append(a, ActionOf(m)) ELSE a
    <2>0. <<m>> \in Seq(M)
      OBVIOUS
    <2>1. PICK l \in Seq(M) : l = <<m>>
      BY <2>0
    <2>2. q = p \o l
      BY <1>2, <2>1, AppendIsConcat DEF Appended
    <2>3. Actions(q, id, acts) = a \o Actions(l, id, acts)
      <3>1. Actions(p \o l, id, acts) = Actions(p, id, acts) \o Actions(l, id, acts)
        BY <1>5, ActionsConcat
      <3> QED
        BY <1>1, <2>2, <3>1
    <2>4. Actions(l, id, acts) = IF m.id = id /\ m.act \in acts THEN <<ActionOf(m)>> ELSE <<>>
      BY <1>5, <2>1, ActionsOfOne
    <2>5. PICK b \in A : b = ActionOf(m)
      BY <1>5
    <2>6. a \o <<b>> = Append(a, b) /\ a \o <<>> = a
      BY AppendIsConcat, ConcatEmptySeq
    <2> QED
      BY <2>3, <2>4, <2>5, <2>6
  <1>3. ASSUME NEW m \in M, NEW q, Taken(q, m, p)
        PROVE  Actions(q, id, acts) = IF m.id = id /\ m.act \in acts
                                      THEN <<ActionOf(m)>> \o a ELSE a
    <2>0. <<m>> \in Seq(M)
      OBVIOUS
    <2>1. PICK l \in Seq(M) : l = <<m>>
      BY <2>0
    <2>2. q = l \o p
      BY <1>3, <2>1 DEF Taken
    <2>3. Actions(q, id, acts) = Actions(l, id, acts) \o a
      <3>1. Actions(l \o p, id, acts) = Actions(l, id, acts) \o Actions(p, id, acts)
        BY <1>5, ActionsConcat
      <3> QED
        BY <1>1, <2>2, <3>1
    <2>4. Actions(l, id, acts) = IF m.id = id /\ m.act \in acts THEN <<ActionOf(m)>> ELSE <<>>
      BY <1>5, <2>1, ActionsOfOne
    <2>5. <<>> \o a = a
      BY ConcatEmptySeq
    <2> QED
      BY <2>3, <2>4, <2>5
  <1>4. ASSUME NEW k \in 0..Len(p)
        PROVE  Begins(Actions(SubSeq(p, 1, k), id, acts), a)
    <2>1. PICK q \in Seq(M), r \in Seq(M) : q = SubSeq(p, 1, k) /\ p = q \o r
      <3>0. Len(p) \in Nat
        OBVIOUS
      <3>1. SubSeq(p, 1, k) \in Seq(M) /\ SubSeq(p, k + 1, Len(p)) \in Seq(M)
        BY <3>0, SubSeqProperties
      <3>2. SubSeq(p, 1, k) \o SubSeq(p, k + 1, Len(p)) = SubSeq(p, 1, Len(p))
        <4>1. 1 \in 1..Len(p) + 1 /\ k \in 1 - 1..Len(p) /\ Len(p) \in k..Len(p)
          BY <3>0
        <4> QED
          BY <3>0, <4>1, ConcatAdjacentSubSeq
      <3>3. SubSeq(p, 1, Len(p)) = p
        BY SubSeqFull
      <3> QED
        BY <3>1, <3>2, <3>3
    <2>2. PICK b \in Seq(A), c \in Seq(A) : b = Actions(q, id, acts) /\ a = b \o c
      <3>1. Actions(q, id, acts) \in Seq(A) /\ Actions(r, id, acts) \in Seq(A)
        BY <1>5, ActionsConcat
      <3>2. Actions(q \o r, id, acts) = Actions(q, id, acts) \o Actions(r, id, acts)
        BY <1>5, ActionsConcat
      <3> QED
        BY <1>1, <2>1, <3>1, <3>2
    <2>3. Len(b) \in 0..Len(a) /\ b = SubSeq(a, 1, Len(b))
      BY <2>2
    <2> QED
      BY <2>1, <2>2, <2>3 DEF Begins
  <1> QED
    BY <1>0, <1>1, <1>2, <1>3, <1>4

-----------------------------------------------------------------------------
(* The tasks.                                                              *)

\* Each transition of the source task leads to a state of the source task.
LEMMA SourceTypes ==
    /\ SourceNew \in SourceState
    /\ \A t \in SourceState :
         /\ SourceRead(t) \in SourceState
         /\ SourceBreak(t) \in SourceState
         /\ SourceSent(t) \in SourceState
         /\ SourceRecvNone(t) \in SourceState
         /\ \A a \in SinkAction : SourceRecv(t, a) \in SourceState
  <1>1. SourceNew \in SourceState
    BY DEF SourceNew, SourceState
  <1>2. ASSUME NEW t \in SourceState
        PROVE  /\ SourceRead(t) \in SourceState
               /\ SourceBreak(t) \in SourceState
               /\ SourceRecvNone(t) \in SourceState
    BY DEF SourceState, SourceRead, SourceBreak, SourceRecvNone
  <1>3. ASSUME NEW t \in SourceState
        PROVE  SourceSent(t) \in SourceState
    BY DEF SourceState, SourceSent
  <1>4. ASSUME NEW t \in SourceState, NEW a \in SinkAction
        PROVE  SourceRecv(t, a) \in SourceState
    BY DEF SourceState, SourceRecv
  <1> QED
    BY <1>1, <1>2, <1>3, <1>4

\* Each transition of the sink task leads to a state of the sink task.
LEMMA SinkTypes ==
    /\ SinkNew \in SinkState
    /\ \A t \in SinkState :
         /\ SinkRecvNone(t) \in SinkState
         /\ SinkSent(t) \in SinkState
         /\ SinkShutdown(t) \in SinkState
         /\ \A a \in SourceAction : SinkRecv(t, a) \in SinkState
         /\ \A res \in IoResult : SinkIo(t, res) \in SinkState
  <1>1. SinkNew \in SinkState
    BY DEF SinkNew, SinkState
  <1>2. ASSUME NEW t \in SinkState
        PROVE  /\ SinkRecvNone(t) \in SinkState
               /\ SinkSent(t) \in SinkState
               /\ SinkShutdown(t) \in SinkState
    BY DEF SinkState, SinkRecvNone, SinkSent, SinkShutdown
  <1>3. ASSUME NEW t \in SinkState, NEW a \in SourceAction
        PROVE  SinkRecv(t, a) \in SinkState
    BY DEF SinkState, SinkRecv, SourceAction
  <1>4. ASSUME NEW t \in SinkState, NEW res \in IoResult
        PROVE  SinkIo(t, res) \in SinkState
    <2>1. CASE res = "ok"
      BY <2>1 DEF SinkIo, SinkState
    <2>2. CASE res = "broken"
      BY <2>2 DEF SinkIo, SinkState
    <2>3. CASE res \notin {"ok", "broken"}
      BY <2>3 DEF SinkIo, SinkState
    <2> QED
      BY <2>1, <2>2, <2>3
  <1> QED
    BY <1>1, <1>2, <1>3, <1>4

=============================================================================
