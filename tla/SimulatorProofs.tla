--------------------------- MODULE SimulatorProofs ---------------------------
(***************************************************************************)
(* Proofs about Simulator, for every chunk size, frame size, queue and number *)
(* of ticks.                                                                *)
(***************************************************************************)
EXTENDS Simulator, CountingTheorems

(* The bytes of s are those that follow byte b. *)
Follows(s, b) == \A i \in 1..Len(s) : s[i] = b + i

(* What there is before and after the node is made. *)
Stages ==
  /\ sender \in {"starting", "failed"} =>
       /\ writer = "none" /\ reader = "none" /\ chunker = "none" /\ ~socket
       /\ written = 0 /\ queue = << >> /\ ~outClosed /\ ~inClosed
       /\ pending = << >> /\ buf = << >> /\ handed = << >>
  /\ sender \notin {"starting", "failed"} => writer # "none"
  /\ sender \in {"ticking", "closing"} => socket = opts.chunked
  /\ sender = "returned" => writer = "ended" /\ ~socket
  /\ sender \in {"closing", "returned"} => cancelled

(* The circle of pipes is broken only after a cancellation. *)
Unbroken ==
  ~cancelled => ~inClosed /\ ~outClosed /\ writer # "ended" /\ reader # "ended"

(* Who holds bytes. *)
Hands ==
  /\ writer = "ended" => pending = << >>
  /\ chunker = "send" <=> buf # << >>
  /\ ~opts.chunked => chunker = "none" /\ pending = << >>

(* The bytes on their way continue those that the socket was given. *)
OnTheWay ==
  /\ writer = "running" => LastHanded + Len(buf) + Len(pending) = written
  /\ Follows(buf, LastHanded) /\ Follows(pending, LastHanded + Len(buf))

Pieces ==
  \A n \in DOMAIN handed :
    /\ handed[n] # << >>
    /\ opts.chunked => Len(handed[n]) <= ChunkSize
    /\ Follows(handed[n], IF n = 1 THEN 0 ELSE Last(handed[n - 1]))

IInv == TypeOK /\ Stages /\ Unbroken /\ Hands /\ OnTheWay /\ Pieces

------------------------------------------------------------------------------
LEMMA Sizes ==
  /\ ChunkSize \in Nat \ {0} /\ QueueCap \in Nat /\ MaxTicks \in Nat
  /\ \A m \in DOMAIN FrameSize : FrameSize[m] \in Nat \ {0}
BY SimulatorAssumption

(* The last of a sequence is one of its elements. *)
LEMMA LastOf ==
  ASSUME NEW S, NEW s \in Seq(S), s # << >>
  PROVE  Last(s) \in S /\ Len(s) \in DOMAIN s /\ Len(s) \in Nat \ {0} /\ Last(s) = s[Len(s)]
<1>1. Len(s) \in Nat \ {0} /\ DOMAIN s = 1..Len(s)
  BY EmptySeq, LenProperties
<1>2. Len(s) \in 1..Len(s)
  BY <1>1
<1> QED
  BY <1>1, <1>2, ElementOfSeq DEF Last

LEMMA Lengths ==
  ASSUME TypeOK, Pieces
  PROVE  /\ Len(buf) \in Nat /\ Len(pending) \in Nat /\ written \in Nat
         /\ buf # << >> => Len(buf) # 0
         /\ pending # << >> => Len(pending) # 0
         /\ Len(<< >>) = 0
         /\ LastHanded \in Nat
<1>1. buf \in Seq(1..written) /\ pending \in Seq(1..written) /\ written \in Nat
      /\ handed \in Seq(Seq(1..written))
  BY DEF TypeOK
<1>2. /\ Len(buf) \in Nat /\ Len(pending) \in Nat
      /\ buf # << >> => Len(buf) # 0
      /\ pending # << >> => Len(pending) # 0
  BY <1>1, LenProperties, EmptySeq
<1>3. LastHanded \in Nat
  <2>1. CASE handed = << >>
    BY <2>1 DEF LastHanded
  <2>2. CASE handed # << >>
    <3> DEFINE d == Last(handed)
    <3>1. d \in Seq(1..written) /\ d # << >>
      BY <1>1, <2>2, LastOf DEF Pieces
    <3> HIDE DEF d
    <3>2. Last(d) \in 1..written
      BY <3>1, LastOf
    <3> QED
      BY <1>1, <2>2, <3>2 DEF LastHanded, d
  <2> QED
    BY <2>1, <2>2
<1> QED
  BY <1>1, <1>2, <1>3

LEMMA InitIInv == Init => IInv
<1> SUFFICES ASSUME Init PROVE IInv
  OBVIOUS
<1>1. << >> \in Seq(DOMAIN FrameSize) /\ << >> \in Seq(1..written)
      /\ << >> \in Seq(Seq(1..written)) /\ Len(<< >>) = 0
  OBVIOUS
<1>2. TypeOK
  <2>1. /\ opts \in Options /\ sender = "starting" /\ ~cancelled /\ cancelled \in BOOLEAN
        /\ seq = 0 /\ written = 0 /\ socket \in BOOLEAN /\ outClosed \in BOOLEAN
        /\ inClosed \in BOOLEAN /\ writer = "none" /\ reader = "none" /\ chunker = "none"
        /\ queue = << >> /\ pending = << >> /\ buf = << >> /\ handed = << >>
        /\ sent = {}
    BY DEF Init
  <2>2. seq \in 0..MaxTicks /\ written \in Nat
    BY <2>1, Sizes
  <2>3. Len(queue) <= QueueCap /\ Len(buf) <= ChunkSize
    BY <1>1, <2>1, Sizes
  <2>4. /\ queue \in Seq(DOMAIN FrameSize) /\ pending \in Seq(1..written)
        /\ buf \in Seq(1..written) /\ handed \in Seq(Seq(1..written))
    BY <1>1, <2>1
  <2> QED
    BY <2>1, <2>2, <2>3, <2>4 DEF TypeOK
<1>3. Stages /\ Unbroken /\ Hands
  BY DEF Init, Stages, Unbroken, Hands
<1>4. OnTheWay /\ Pieces
  BY <1>1 DEF Init, OnTheWay, Pieces, Follows, LastHanded
<1> QED
  BY <1>2, <1>3, <1>4 DEF IInv

(* Steps that move no bytes. *)
LEMMA BytesRest ==
  ASSUME IInv, UNCHANGED <<opts, written, buf, handed>>,
         pending' = pending, writer' = "running" => writer = "running"
  PROVE  OnTheWay' /\ Pieces'
<1>1. LastHanded' = LastHanded
  BY DEF LastHanded
<1> QED
  BY <1>1 DEF IInv, OnTheWay, Pieces, Follows

LEMMA StartIInv == IInv /\ Start => IInv'
<1> SUFFICES ASSUME IInv, Start PROVE IInv'
  OBVIOUS
<1>1. /\ sender = "starting" /\ TypeOK /\ Stages /\ Unbroken /\ Hands /\ OnTheWay /\ Pieces
      /\ UNCHANGED <<opts, cancelled, seq, queue, pending, written, pipeVars, buf, sentVars>>
  BY DEF IInv, Start
<1>2. /\ written = 0 /\ queue = << >> /\ ~outClosed /\ ~inClosed
      /\ pending = << >> /\ buf = << >> /\ handed = << >>
  BY <1>1 DEF Stages
<1>3. opts.chunked \in BOOLEAN
  BY <1>1, SimulatorAssumption DEF TypeOK
<1>4. \/ sender' = "failed" /\ UNCHANGED <<writer, reader, chunker, socket>>
      \/ /\ sender' = "ticking" /\ writer' = "running" /\ reader' = "running"
         /\ chunker' = IF opts.chunked THEN "select" ELSE "none"
         /\ socket' = opts.chunked
  BY DEF Start
<1>5. TypeOK'
  BY <1>1, <1>3, <1>4 DEF TypeOK, pipeVars, sentVars
<1>6. Stages' /\ Unbroken' /\ Hands'
  BY <1>1, <1>2, <1>3, <1>4 DEF Stages, Unbroken, Hands, pipeVars, sentVars
<1>7. OnTheWay' /\ Pieces'
  <2>1. handed' = << >> /\ LastHanded' = 0 /\ buf' = << >> /\ pending' = << >> /\ written' = 0
    BY <1>1, <1>2 DEF LastHanded, sentVars
  <2>2. Len(<< >>) = 0 /\ \A b : Follows(<< >>, b)
    BY DEF Follows
  <2> QED
    BY <2>1, <2>2 DEF OnTheWay, Pieces
<1> QED
  BY <1>5, <1>6, <1>7 DEF IInv

LEMMA TickIInv == IInv /\ Tick => IInv'
<1> SUFFICES ASSUME IInv, Tick PROVE IInv'
  OBVIOUS
<1> DEFINE all == queue \o MessagesAt(seq + 1)
           room == {QueueCap, Len(all)}
<1>1. /\ sender = "ticking" /\ seq < MaxTicks /\ seq' = seq + 1
      /\ queue' = SubSeq(all, 1, Min(room))
      /\ UNCHANGED <<opts, sender, cancelled, writer, reader, pending, written, pipeVars,
                     chunkVars, socket, sentVars>>
      /\ TypeOK /\ Stages /\ Unbroken /\ Hands /\ OnTheWay /\ Pieces
  BY DEF IInv, Tick
<1>2. queue' \in Seq(DOMAIN FrameSize) /\ Len(queue') <= QueueCap
  <2>1. MessagesAt(seq + 1) \in Seq(DOMAIN FrameSize)
    <3>1. /\ <<"HEARTBEAT", "ATTITUDE">> \in Seq(DOMAIN FrameSize)
          /\ <<"GIMBAL_DEVICE_ATTITUDE_STATUS">> \in Seq(DOMAIN FrameSize)
          /\ << >> \in Seq(DOMAIN FrameSize)
      BY SimulatorAssumption
    <3> QED
      BY <3>1, ConcatProperties DEF MessagesAt
  <2>2. all \in Seq(DOMAIN FrameSize)
    BY <1>1, <2>1, ConcatProperties DEF TypeOK
  <2> HIDE DEF all
  <2>3. Len(all) \in Nat /\ QueueCap \in Nat
    BY <2>2, LenProperties, Sizes
  <2>4. Min(room) = IF QueueCap <= Len(all) THEN QueueCap ELSE Len(all)
    <3> DEFINE m == IF QueueCap <= Len(all) THEN QueueCap ELSE Len(all)
    <3>1. room \in SUBSET Int /\ IsLeast(m, room)
      BY <2>3 DEF IsLeast
    <3> QED
      BY <3>1, MinIsLeast
  <2>5. Min(room) \in Nat /\ Min(room) <= QueueCap /\ Min(room) <= Len(all)
    BY <2>3, <2>4
  <2>6. \A i \in 1..Min(room) : all[i] \in DOMAIN FrameSize
    <3>1. \A i \in 1..Min(room) : i \in 1..Len(all)
      BY <2>3, <2>5
    <3> QED
      BY <2>2, <3>1, ElementOfSeq
  <2> HIDE DEF room
  <2>7. /\ queue' \in Seq(DOMAIN FrameSize)
        /\ Len(queue') = IF 1 <= Min(room) THEN Min(room) - 1 + 1 ELSE 0
    BY <1>1, <2>5, <2>6, SubSeqProperties
  <2> QED
    BY <2>3, <2>5, <2>7
<1>3. seq' \in 0..MaxTicks
  BY <1>1, Sizes DEF TypeOK
<1>4. TypeOK'
  BY <1>1, <1>2, <1>3 DEF TypeOK, pipeVars, chunkVars, sentVars
<1>5. Stages' /\ Unbroken' /\ Hands'
  BY <1>1 DEF Stages, Unbroken, Hands, pipeVars, chunkVars, sentVars
<1>6. OnTheWay' /\ Pieces'
  BY <1>1, BytesRest DEF chunkVars, sentVars
<1> QED
  BY <1>4, <1>5, <1>6 DEF IInv

(* Beginnings and ends. *)
LEMMA EndsIInv ==
  ASSUME IInv, ContextDone \/ NodeClosed \/ Cancel \/ CloseConn \/ ReaderEnds
                 \/ UNCHANGED simVars
  PROVE  IInv'
<1>1. TypeOK /\ Stages /\ Unbroken /\ Hands
  BY DEF IInv
<1>2. UNCHANGED <<opts, written, buf, handed, sent, pending, writer, queue, seq, chunker>>
  BY DEF ContextDone, NodeClosed, Cancel, CloseConn, ReaderEnds, simVars, nodeVars,
         chunkVars, sentVars
<1>3. TypeOK'
  BY <1>1, <1>2 DEF TypeOK, ContextDone, NodeClosed, Cancel, CloseConn, ReaderEnds, simVars,
         nodeVars, pipeVars, chunkVars
<1>4. Stages' /\ Unbroken'
  BY <1>1, <1>2 DEF Stages, Unbroken, ContextDone, NodeClosed, Cancel, CloseConn, ReaderEnds,
         simVars, nodeVars, pipeVars, chunkVars
<1>5. Hands'
  BY <1>1, <1>2 DEF Hands
<1>6. OnTheWay' /\ Pieces'
  BY <1>2, BytesRest
<1> QED
  BY <1>3, <1>4, <1>5, <1>6 DEF IInv

(* A piece more, which continues those given before. *)
LEMMA OneMorePiece ==
  ASSUME IInv, NEW d \in Seq(1..written'), d # << >>, Follows(d, LastHanded),
         opts.chunked => Len(d) <= ChunkSize, opts' = opts,
         handed \in Seq(Seq(1..written')), handed' = Append(handed, d)
  PROVE  /\ Pieces' /\ handed' \in Seq(Seq(1..written'))
         /\ LastHanded' = LastHanded + Len(d)
<1> DEFINE n == Len(handed) + 1
           r == handed'
           before(s, k) == IF k = 1 THEN 0 ELSE Last(s[k - 1])
<1>1. /\ r \in Seq(Seq(1..written')) /\ Len(r) = n /\ r[n] = d
      /\ Len(handed) \in Nat
      /\ DOMAIN handed = 1..Len(handed) /\ DOMAIN r = DOMAIN handed \cup {n}
      /\ \A i \in DOMAIN handed : r[i] = handed[i]
  BY Appended
<1>2. Pieces /\ TypeOK
  BY DEF IInv
<1>3. before(r, n) = LastHanded
  <2>1. CASE handed = << >>
    <3>1. Len(handed) = 0
      BY <2>1
    <3> QED
      BY <2>1, <3>1 DEF LastHanded
  <2>2. CASE handed # << >>
    <3>1. Len(handed) \in DOMAIN handed /\ Len(handed) # 0
          /\ Last(handed) = handed[Len(handed)]
      BY <2>2, LastOf
    <3>2. n - 1 = Len(handed) /\ n # 1
      BY <1>1, <3>1
    <3> HIDE DEF n, r
    <3>3. r[n - 1] = Last(handed)
      BY <1>1, <3>1, <3>2
    <3> QED
      BY <2>2, <3>2, <3>3 DEF LastHanded
  <2> QED
    BY <2>1, <2>2
<1>4. ASSUME NEW k \in DOMAIN handed PROVE before(r, k) = before(handed, k)
  <2>1. CASE k = 1
    BY <2>1
  <2>2. CASE k # 1
    <3>1. k - 1 \in DOMAIN handed
      BY <1>1, <1>4, <2>2
    <3> QED
      BY <1>1, <2>2, <3>1
  <2> QED
    BY <2>1, <2>2
<1>5. Pieces'
  <2> SUFFICES ASSUME NEW k \in DOMAIN r
               PROVE  /\ r[k] # << >>
                      /\ opts.chunked => Len(r[k]) <= ChunkSize
                      /\ Follows(r[k], before(r, k))
    BY DEF Pieces, Follows
  <2> HIDE DEF n, r, before
  <2>1. CASE k = n
    BY <1>1, <1>3, <2>1
  <2>2. CASE k \in DOMAIN handed
    <3>1. /\ handed[k] # << >> /\ (opts.chunked => Len(handed[k]) <= ChunkSize)
          /\ Follows(handed[k], before(handed, k))
      BY <1>2, <2>2 DEF Pieces, before
    <3>2. r[k] = handed[k] /\ before(r, k) = before(handed, k)
      BY <1>1, <1>4, <2>2
    <3> QED
      BY <3>1, <3>2
  <2> QED
    BY <1>1, <2>1, <2>2
<1>6. LastHanded' = LastHanded + Len(d)
  <2>1. Last(d) = d[Len(d)] /\ Len(d) \in Nat \ {0}
    BY LastOf
  <2>2. Last(d) = LastHanded + Len(d)
    <3>1. Len(d) \in 1..Len(d)
      BY <2>1
    <3> QED
      BY <2>1, <3>1 DEF Follows
  <2>3. r # << >> /\ Last(r) = d
    <3>1. Len(r) # 0
      BY <1>1
    <3> QED
      BY <1>1, <3>1 DEF Last
  <2>4. LastHanded' = Last(Last(r))
    BY <2>3 DEF LastHanded, Last
  <2> QED
    BY <2>2, <2>3, <2>4
<1> QED
  BY <1>1, <1>5, <1>6

LEMMA WriteFrameIInv == IInv /\ WriteFrame => IInv'
<1> SUFFICES ASSUME IInv, WriteFrame PROVE IInv'
  OBVIOUS
<1> DEFINE m == FrameSize[Head(queue)]
           frame == [i \in 1..m |-> written + i]
<1>1. TypeOK /\ Stages /\ Unbroken /\ Hands /\ OnTheWay /\ Pieces
  BY DEF IInv
<1>2. /\ writer = "running" /\ queue # << >> /\ pending = << >> /\ ~outClosed
      /\ written' = written + Len(frame)
      /\ IF opts.chunked
         THEN pending' = frame /\ UNCHANGED sentVars
         ELSE /\ handed' = Append(handed, frame) /\ pending' = pending
              /\ sent' \subseteq sent \cup {Len(handed')}
      /\ queue' = Tail(queue)
      /\ UNCHANGED <<opts, sender, cancelled, seq, writer, reader, pipeVars, chunkVars,
                     socket>>
  BY DEF WriteFrame, Hand
<1>3. /\ queue \in Seq(DOMAIN FrameSize) /\ Len(queue) <= QueueCap
      /\ written \in Nat /\ buf \in Seq(1..written) /\ handed \in Seq(Seq(1..written))
      /\ sent \subseteq DOMAIN handed /\ QueueCap \in Nat /\ Len(buf) <= ChunkSize
  BY <1>1, Sizes DEF TypeOK
<1>4. /\ Head(queue) \in DOMAIN FrameSize /\ Tail(queue) \in Seq(DOMAIN FrameSize)
      /\ Len(Tail(queue)) <= QueueCap
  <2>1. /\ Head(queue) \in DOMAIN FrameSize /\ Tail(queue) \in Seq(DOMAIN FrameSize)
        /\ Len(Tail(queue)) = Len(queue) - 1 /\ Len(queue) \in Nat
    BY <1>2, <1>3, HeadTailProperties, LenProperties
  <2> QED
    BY <1>3, <2>1
<1>5. m \in Nat \ {0}
  BY <1>4, Sizes
<1> HIDE DEF m
<1>6. /\ frame \in Seq(1..written + m) /\ Len(frame) = m /\ frame # << >>
      /\ DOMAIN frame = 1..m
      /\ \A i \in 1..m : frame[i] = written + i
  <2>1. frame \in [1..m -> 1..written + m]
    BY <1>3, <1>5
  <2>2. frame \in Seq(1..written + m)
    BY <1>5, <2>1, SeqDef
  <2>3. DOMAIN frame = 1..m /\ DOMAIN frame = 1..Len(frame) /\ Len(frame) \in Nat
    BY <2>2, LenProperties
  <2> HIDE DEF frame
  <2>4. Len(frame) = m
    BY <1>5, <2>3
  <2> QED
    BY <1>5, <2>2, <2>3, <2>4, EmptySeq DEF frame
<1> HIDE DEF frame
<1>7. written' = written + m /\ written' \in Nat /\ 1..written \subseteq 1..written'
  BY <1>2, <1>3, <1>5, <1>6
<1>8. /\ buf \in Seq(1..written') /\ handed \in Seq(Seq(1..written'))
      /\ frame \in Seq(1..written') /\ << >> \in Seq(1..written')
  <2>1. Seq(1..written) \subseteq Seq(1..written')
    BY <1>7, SeqMonotonic
  <2> QED
    BY <1>3, <1>6, <1>7, <2>1, SeqMonotonic
<1>9. LastHanded + Len(buf) = written /\ LastHanded \in Nat /\ Len(buf) \in Nat
  <2>1. LastHanded + Len(buf) + Len(pending) = written
    BY <1>1, <1>2 DEF OnTheWay
  <2> QED
    BY <1>1, <1>2, <2>1, Lengths
<1>10. sender \in {"ticking", "closing"}
  BY <1>1, <1>2 DEF TypeOK, Stages
<1>11. CASE opts.chunked
  <2>1. pending' = frame /\ UNCHANGED <<opts, handed, sent, buf, sender, writer>>
    BY <1>2, <1>11 DEF chunkVars, sentVars
  <2>2. LastHanded' = LastHanded
    BY <2>1 DEF LastHanded
  <2>3. TypeOK'
    BY <1>1, <1>2, <1>3, <1>4, <1>7, <1>8, <2>1 DEF TypeOK, pipeVars, chunkVars
  <2>4. Stages' /\ Unbroken' /\ Hands'
    BY <1>1, <1>2, <1>10, <1>11 DEF Stages, Unbroken, Hands, pipeVars, chunkVars
  <2>5. Follows(frame, written)
    BY <1>6 DEF Follows
  <2>6. OnTheWay'
    <3>1. LastHanded' + Len(buf') + Len(pending') = written'
      BY <1>5, <1>6, <1>7, <1>9, <2>1, <2>2
    <3>2. Follows(buf', LastHanded') /\ Follows(pending', LastHanded' + Len(buf'))
      BY <1>1, <1>9, <2>1, <2>2, <2>5 DEF OnTheWay
    <3> QED
      BY <3>1, <3>2 DEF OnTheWay, Follows
  <2>7. Pieces'
    BY <1>1, <2>1 DEF Pieces, Follows
  <2> QED
    BY <2>3, <2>4, <2>6, <2>7 DEF IInv
<1>12. CASE ~opts.chunked
  <2>1. /\ handed' = Append(handed, frame) /\ pending' = << >>
        /\ sent' \subseteq sent \cup {Len(handed')}
        /\ UNCHANGED <<opts, buf, sender, writer>>
    BY <1>2, <1>12 DEF chunkVars
  <2>2. buf = << >> /\ Len(buf) = 0 /\ LastHanded = written
    <3>1. buf = << >>
      BY <1>1, <1>12 DEF Hands
    <3>2. Len(buf) = 0
      BY <3>1
    <3> QED
      BY <1>9, <3>1, <3>2
  <2>3. Follows(frame, LastHanded)
    BY <1>6, <2>2 DEF Follows
  <2>4. /\ Pieces' /\ handed' \in Seq(Seq(1..written'))
        /\ LastHanded' = LastHanded + Len(frame)
    BY <1>6, <1>8, <1>12, <2>1, <2>3, OneMorePiece
  <2>5. TypeOK'
    <3>1. sent' \subseteq DOMAIN handed'
      <4> DEFINE S == Seq(1..written')
      <4>1. frame \in S /\ handed \in Seq(S)
        BY <1>8
      <4> HIDE DEF S
      <4>2. /\ DOMAIN handed' = DOMAIN handed \cup {Len(handed) + 1}
            /\ Len(handed') = Len(handed) + 1
        BY <2>1, <4>1, Appended
      <4> QED
        BY <1>3, <2>1, <4>2
    <3> QED
      BY <1>1, <1>2, <1>3, <1>4, <1>7, <1>8, <2>1, <2>4, <3>1 DEF TypeOK, pipeVars, chunkVars
  <2>6. Stages' /\ Unbroken' /\ Hands'
    BY <1>1, <1>2, <1>10, <2>1, <2>2 DEF Stages, Unbroken, Hands, pipeVars, chunkVars
  <2>7. OnTheWay'
    <3>1. Len(<< >>) = 0 /\ \A b : Follows(<< >>, b)
      BY DEF Follows
    <3>2. LastHanded' + Len(buf') + Len(pending') = written'
      BY <1>3, <1>5, <1>6, <1>7, <2>1, <2>2, <2>4, <3>1
    <3>3. Follows(buf', LastHanded') /\ Follows(pending', LastHanded' + Len(buf'))
      BY <2>1, <2>2, <3>1
    <3> QED
      BY <3>2, <3>3 DEF OnTheWay, Follows
  <2> QED
    BY <2>4, <2>5, <2>6, <2>7 DEF IInv
<1> QED
  BY <1>11, <1>12

LEMMA WriterEndsIInv == IInv /\ WriterEnds => IInv'
<1> SUFFICES ASSUME IInv, WriterEnds PROVE IInv'
  OBVIOUS
<1>1. TypeOK /\ Stages /\ Unbroken /\ Hands /\ OnTheWay /\ Pieces
  BY DEF IInv
<1>2. /\ writer = "running" /\ (outClosed \/ sender = "closing")
      /\ writer' = "ended" /\ pending' = << >>
      /\ UNCHANGED <<opts, sender, cancelled, seq, queue, reader, written, pipeVars,
                     chunkVars, socket, sentVars>>
  BY DEF WriterEnds
<1>3. TypeOK'
  <2>1. << >> \in Seq(1..written)
    OBVIOUS
  <2> QED
    BY <1>1, <1>2, <2>1 DEF TypeOK, pipeVars, chunkVars, sentVars
<1>4. Stages' /\ Unbroken' /\ Hands'
  BY <1>1, <1>2 DEF Stages, Unbroken, Hands, pipeVars, chunkVars, sentVars
<1>5. OnTheWay' /\ Pieces'
  <2>1. LastHanded' = LastHanded /\ buf' = buf
    BY <1>2 DEF LastHanded, chunkVars, sentVars
  <2>2. Len(<< >>) = 0
    OBVIOUS
  <2> QED
    BY <1>1, <1>2, <2>1, <2>2 DEF OnTheWay, Pieces, Follows, chunkVars, sentVars
<1> QED
  BY <1>3, <1>4, <1>5 DEF IInv

(* A run of bytes cut in two. *)
LEMMA Cut ==
  ASSUME NEW S, NEW s \in Seq(S), NEW n \in Nat, n <= Len(s), NEW b \in Nat, Follows(s, b)
  PROVE  LET front == SubSeq(s, 1, n)
             rest  == SubSeq(s, n + 1, Len(s))
         IN  /\ front \in Seq(S) /\ Len(front) = n /\ Follows(front, b)
             /\ rest \in Seq(S) /\ Len(rest) = Len(s) - n /\ Follows(rest, b + n)
<1> DEFINE front == SubSeq(s, 1, n)
           rest  == SubSeq(s, n + 1, Len(s))
<1>1. Len(s) \in Nat /\ \A i \in 1..Len(s) : s[i] \in S
  BY LenProperties, ElementOfSeq
<1>2. /\ front \in Seq(S)
      /\ Len(front) = IF 1 <= n THEN n - 1 + 1 ELSE 0
      /\ \A i \in 1..n - 1 + 1 : front[i] = s[1 + i - 1]
  <2>1. \A i \in 1..n : s[i] \in S
    BY <1>1
  <2> QED
    BY <1>1, <2>1, SubSeqProperties
<1>3. /\ rest \in Seq(S)
      /\ Len(rest) = IF n + 1 <= Len(s) THEN Len(s) - (n + 1) + 1 ELSE 0
      /\ \A i \in 1..Len(s) - (n + 1) + 1 : rest[i] = s[(n + 1) + i - 1]
  <2>1. \A i \in n + 1..Len(s) : s[i] \in S
    BY <1>1
  <2>2. n + 1 \in Int /\ Len(s) \in Int
    BY <1>1
  <2> QED
    BY <2>1, <2>2, SubSeqProperties
<1> HIDE DEF front, rest
<1>4. Len(front) = n /\ Len(rest) = Len(s) - n
  BY <1>1, <1>2, <1>3
<1>5. ASSUME NEW i \in 1..n PROVE front[i] = b + i
  <2>1. i \in 1..n - 1 + 1 /\ 1 + i - 1 = i /\ i \in 1..Len(s)
    BY <1>1, <1>5
  <2> QED
    BY <1>2, <2>1 DEF Follows
<1>6. ASSUME NEW i \in 1..Len(s) - n PROVE rest[i] = b + n + i
  <2>1. /\ i \in 1..Len(s) - (n + 1) + 1 /\ (n + 1) + i - 1 = n + i
        /\ n + i \in 1..Len(s) /\ b + n + i = b + (n + i)
    BY <1>1, <1>6
  <2> QED
    BY <1>3, <2>1 DEF Follows
<1> QED
  BY <1>2, <1>3, <1>4, <1>5, <1>6 DEF Follows, front, rest

LEMMA ChunkerSelectsIInv == IInv /\ ChunkerSelects => IInv'
<1> SUFFICES ASSUME IInv, ChunkerSelects PROVE IInv'
  OBVIOUS
<1>1. TypeOK /\ Stages /\ Unbroken /\ Hands
  BY DEF IInv
<1>2. /\ chunker = "select" /\ chunker' \in {"read", "ended"}
      /\ inClosed' \in {inClosed, TRUE} /\ (inClosed' # inClosed => cancelled)
      /\ UNCHANGED <<opts, sender, cancelled, seq, nodeVars, outClosed, buf, socket,
                     sentVars>>
  BY DEF ChunkerSelects, ChunkerEnds
<1>3. TypeOK'
  BY <1>1, <1>2 DEF TypeOK, nodeVars, sentVars
<1>4. Stages' /\ Unbroken' /\ Hands'
  BY <1>1, <1>2 DEF Stages, Unbroken, Hands, nodeVars, sentVars
<1>5. OnTheWay' /\ Pieces'
  BY <1>2, BytesRest DEF nodeVars, sentVars
<1> QED
  BY <1>3, <1>4, <1>5 DEF IInv

LEMMA ChunkerReadsIInv == IInv /\ ChunkerReads => IInv'
<1> SUFFICES ASSUME IInv, ChunkerReads PROVE IInv'
  OBVIOUS
<1> DEFINE n == Min({ChunkSize, Len(pending)})
<1>1. TypeOK /\ Stages /\ Unbroken /\ Hands /\ OnTheWay /\ Pieces
  BY DEF IInv
<1>2. /\ chunker = "read"
      /\ UNCHANGED <<opts, sender, cancelled, seq, queue, writer, reader, written,
                     outClosed, socket, sentVars>>
  BY DEF ChunkerReads
<1>3. CASE outClosed
  <2>1. chunker' = "ended" /\ inClosed' = TRUE /\ UNCHANGED <<buf, pending>>
    BY <1>3 DEF ChunkerReads, ChunkerEnds
  <2>2. TypeOK'
    BY <1>1, <1>2, <2>1 DEF TypeOK, sentVars
  <2>3. Stages' /\ Unbroken' /\ Hands'
    BY <1>1, <1>2, <1>3, <2>1 DEF Stages, Unbroken, Hands, sentVars
  <2>4. OnTheWay' /\ Pieces'
    BY <1>2, <2>1, BytesRest DEF sentVars
  <2> QED
    BY <2>2, <2>3, <2>4 DEF IInv
<1>4. CASE ~outClosed
  <2>1. /\ pending # << >>
        /\ buf' = SubSeq(pending, 1, n) /\ pending' = SubSeq(pending, n + 1, Len(pending))
        /\ chunker' = "send" /\ inClosed' = inClosed
    BY <1>4 DEF ChunkerReads
  <2>2. /\ Len(pending) \in Nat /\ Len(pending) # 0 /\ LastHanded \in Nat
        /\ ChunkSize \in Nat \ {0} /\ written \in Nat
    BY <1>1, <2>1, Lengths, Sizes
  <2>3. n \in Nat \ {0} /\ n <= ChunkSize /\ n <= Len(pending)
    <3> DEFINE m == IF ChunkSize <= Len(pending) THEN ChunkSize ELSE Len(pending)
               both == {ChunkSize, Len(pending)}
    <3>1. both \in SUBSET Int /\ IsLeast(m, both)
      BY <2>2 DEF IsLeast
    <3>2. n = m
      BY <3>1, MinIsLeast
    <3> HIDE DEF n
    <3> QED
      BY <2>2, <3>2
  <2>4. pending \in Seq(1..written)
    BY <1>1 DEF TypeOK
  <2>5. buf = << >> /\ Len(buf) = 0
    <3>1. buf = << >>
      BY <1>1, <1>2 DEF Hands
    <3> QED
      BY <3>1
  <2>6. /\ writer # "ended" /\ sender \in {"ticking", "closing"} /\ opts.chunked
        /\ writer = "running"
    BY <1>1, <1>2, <2>1 DEF Hands, Stages, TypeOK
  <2>7. Follows(pending, LastHanded) /\ LastHanded + Len(pending) = written
    <3>1. Follows(pending, LastHanded + Len(buf))
          /\ LastHanded + Len(buf) + Len(pending) = written
      BY <1>1, <2>6 DEF OnTheWay
    <3>2. LastHanded + Len(buf) = LastHanded
      BY <2>2, <2>5
    <3> QED
      BY <3>1, <3>2
  <2> HIDE DEF n
  <2>8. /\ buf' \in Seq(1..written) /\ Len(buf') = n /\ Follows(buf', LastHanded)
        /\ pending' \in Seq(1..written) /\ Len(pending') = Len(pending) - n
        /\ Follows(pending', LastHanded + n)
    <3> DEFINE S == 1..written
    <3>1. pending \in Seq(S) /\ n \in Nat /\ n <= Len(pending) /\ LastHanded \in Nat
          /\ Follows(pending, LastHanded)
      BY <2>2, <2>3, <2>4, <2>7
    <3> HIDE DEF S
    <3>2. LET front == SubSeq(pending, 1, n)
              rest  == SubSeq(pending, n + 1, Len(pending))
          IN  /\ front \in Seq(S) /\ Len(front) = n /\ Follows(front, LastHanded)
              /\ rest \in Seq(S) /\ Len(rest) = Len(pending) - n
              /\ Follows(rest, LastHanded + n)
      BY <3>1, Cut
    <3> QED
      BY <2>1, <3>2 DEF S
  <2>9. buf' # << >>
    <3>1. Len(buf') # 0
      BY <2>3, <2>8
    <3> QED
      BY <3>1
  <2>10. TypeOK'
    <3>1. Len(buf') <= ChunkSize
      BY <2>3, <2>8
    <3> QED
      BY <1>1, <1>2, <2>1, <2>8, <3>1 DEF TypeOK, sentVars
  <2>11. Stages' /\ Unbroken' /\ Hands'
    BY <1>1, <1>2, <2>1, <2>6, <2>9 DEF Stages, Unbroken, Hands, sentVars
  <2>12. LastHanded' = LastHanded
    BY <1>2 DEF LastHanded, sentVars
  <2>13. OnTheWay'
    <3>1. LastHanded + n + (Len(pending) - n) = written
      BY <2>2, <2>3, <2>7
    <3>2. LastHanded' + Len(buf') + Len(pending') = written'
      BY <1>2, <2>8, <2>12, <3>1
    <3>3. Follows(buf', LastHanded') /\ Follows(pending', LastHanded' + Len(buf'))
      BY <2>8, <2>12
    <3> QED
      BY <3>2, <3>3 DEF OnTheWay, Follows
  <2>14. Pieces'
    BY <1>1, <1>2 DEF Pieces, Follows, sentVars
  <2> QED
    BY <2>10, <2>11, <2>13, <2>14 DEF IInv
<1> QED
  BY <1>3, <1>4

LEMMA ChunkerSendsIInv == IInv /\ ChunkerSends => IInv'
<1> SUFFICES ASSUME IInv, ChunkerSends PROVE IInv'
  OBVIOUS
<1>1. TypeOK /\ Stages /\ Unbroken /\ Hands /\ OnTheWay /\ Pieces
  BY DEF IInv
<1>2. /\ chunker = "send" /\ chunker' = "select" /\ buf' = << >>
      /\ handed' = Append(handed, buf) /\ sent' \subseteq sent \cup {Len(handed')}
      /\ UNCHANGED <<opts, sender, cancelled, seq, nodeVars, pipeVars, socket>>
  BY DEF ChunkerSends, Hand
<1>3. /\ buf # << >> /\ buf \in Seq(1..written) /\ Len(buf) <= ChunkSize
      /\ handed \in Seq(Seq(1..written)) /\ sent \subseteq DOMAIN handed
      /\ written' = written /\ opts' = opts /\ pending' = pending /\ writer' = writer
  BY <1>1, <1>2 DEF Hands, TypeOK, nodeVars
<1>4. Len(buf) \in Nat /\ Len(pending) \in Nat /\ LastHanded \in Nat /\ Len(<< >>) = 0
  BY <1>1, Lengths
<1>5. << >> \in Seq(1..written) /\ Len(<< >>) <= ChunkSize /\ \A b : Follows(<< >>, b)
  BY Sizes DEF Follows
<1>6. sender \notin {"starting", "failed"}
  BY <1>1, <1>2 DEF Stages
<1>7. Stages' /\ Unbroken' /\ Hands'
  BY <1>1, <1>2, <1>6 DEF Stages, Unbroken, Hands, nodeVars, pipeVars
<1>8. Follows(buf, LastHanded) /\ Follows(pending, LastHanded + Len(buf))
  BY <1>1 DEF OnTheWay
<1>9. /\ Pieces' /\ handed' \in Seq(Seq(1..written'))
      /\ LastHanded' = LastHanded + Len(buf)
  BY <1>2, <1>3, <1>8, OneMorePiece
<1>10. TypeOK'
  <2>1. sent' \subseteq DOMAIN handed'
    BY <1>2, <1>3, Appended
  <2> QED
    BY <1>1, <1>2, <1>5, <1>9, <2>1 DEF TypeOK, nodeVars, pipeVars
<1>11. OnTheWay'
  <2>1. ASSUME writer = "running" PROVE LastHanded' + Len(buf') + Len(pending') = written'
    <3>1. LastHanded + Len(buf) + Len(pending) = written
      BY <1>1, <2>1 DEF OnTheWay
    <3> QED
      BY <1>2, <1>3, <1>4, <1>9, <3>1
  <2>2. Follows(buf', LastHanded')
    BY <1>2, <1>5
  <2>3. Follows(pending', LastHanded' + Len(buf'))
    <3>1. LastHanded' + Len(buf') = LastHanded + Len(buf)
      BY <1>2, <1>4, <1>9
    <3> QED
      BY <1>3, <1>8, <3>1
  <2> QED
    BY <1>3, <2>1, <2>2, <2>3 DEF OnTheWay, Follows
<1> QED
  BY <1>7, <1>9, <1>10, <1>11 DEF IInv

LEMMA NextIInv == IInv /\ [Next]_simVars => IInv'
<1> SUFFICES ASSUME IInv, [Next]_simVars PROVE IInv'
  OBVIOUS
<1>1. CASE Start
  BY <1>1, StartIInv
<1>2. CASE Tick
  BY <1>2, TickIInv
<1>3. CASE ContextDone \/ NodeClosed \/ Cancel \/ CloseConn \/ ReaderEnds
             \/ UNCHANGED simVars
  BY <1>3, EndsIInv
<1>4. CASE WriteFrame
  BY <1>4, WriteFrameIInv
<1>5. CASE WriterEnds
  BY <1>5, WriterEndsIInv
<1>6. CASE Chunker
  BY <1>6, ChunkerSelectsIInv, ChunkerReadsIInv, ChunkerSendsIInv DEF Chunker
<1> QED
  BY <1>1, <1>2, <1>3, <1>4, <1>5, <1>6 DEF Next

LEMMA Inductive == Spec => []IInv
BY InitIInv, NextIInv, PTL DEF Spec

LEMMA IInvCarries == IInv => ChunksCarryStream
<1> SUFFICES ASSUME IInv PROVE ChunksCarryStream
  OBVIOUS
<1>1. TypeOK /\ Stages /\ Unbroken /\ OnTheWay /\ Pieces
  BY DEF IInv
<1>2. ASSUME NEW n \in DOMAIN handed,
             NEW b, b = IF n = 1 THEN 0 ELSE Last(handed[n - 1])
      PROVE  /\ handed[n] # << >>
             /\ opts.chunked => Len(handed[n]) <= ChunkSize
             /\ handed[n] = BytesAfter(b, Len(handed[n]))
  <2> DEFINE d == handed[n]
  <2>1. d # << >> /\ (opts.chunked => Len(d) <= ChunkSize) /\ Follows(d, b)
    BY <1>1, <1>2 DEF Pieces
  <2>2. d \in Seq(1..written)
    <3>1. handed \in Seq(Seq(1..written))
      BY <1>1 DEF TypeOK
    <3> QED
      BY <3>1, LenProperties, ElementOfSeq
  <2> HIDE DEF d
  <2>3. d \in [1..Len(d) -> 1..written]
    BY <2>2, LenProperties
  <2>4. d = BytesAfter(b, Len(d))
    BY <2>1, <2>3 DEF Follows, BytesAfter
  <2> QED
    BY <2>1, <2>4 DEF d
<1>3. ASSUME ~cancelled PROVE LastHanded + Len(buf) + Len(pending) = written
  <2>1. CASE sender \in {"starting", "failed"}
    <3>1. written = 0 /\ buf = << >> /\ pending = << >> /\ handed = << >>
      BY <1>1, <2>1 DEF Stages
    <3>2. Len(<< >>) = 0
      OBVIOUS
    <3> QED
      BY <3>1, <3>2 DEF LastHanded
  <2>2. CASE sender \notin {"starting", "failed"}
    <3>1. writer = "running"
      BY <1>1, <1>3, <2>2 DEF Stages, Unbroken, TypeOK
    <3> QED
      BY <1>1, <3>1 DEF OnTheWay
  <2> QED
    BY <2>1, <2>2
<1> QED
  BY <1>2, <1>3 DEF ChunksCarryStream

------------------------------------------------------------------------------
(* Every variable of the simulator keeps its type: the queue and the chunks keep  *)
(* their limits, and no byte is held or given to the socket that was not written. *)
THEOREM SimulatorTypeCorrect == Spec => []TypeOK
<1>1. IInv => TypeOK
  BY DEF IInv
<1> QED
  BY <1>1, Inductive, PTL

(* For every chunk size, frame size and order of the five goroutines: what the    *)
(* chunker gives the socket is the stream of bytes written, in order and whole,   *)
(* however many of its Writes fail, so that what the target misses is only what    *)
(* those Writes carried; and while nobody cancels all that was written and not     *)
(* given to the socket is on its way.                                           *)
THEOREM StreamIsCarried == Spec => []ChunksCarryStream
BY IInvCarries, Inductive, PTL
==============================================================================
