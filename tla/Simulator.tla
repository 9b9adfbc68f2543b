------------------------------ MODULE Simulator ------------------------------
(***************************************************************************)
(* RunMockSender of internal/simulator/mock_server.go: a sender of MAVLink    *)
(* traffic.  With a chunk size the node of runChunkedUDPSender writes into a  *)
(* pipe, a goroutine, the chunker, reads it and sends what it reads as        *)
(* datagrams, and a second pipe, into which nothing is written, is what the   *)
(* node reads.  Without one the node has a connection of its own.            *)
(*                                                                         *)
(* The node is external (gomavlib).  It takes messages without blocking and   *)
(* drops them when its queue is full, writes a frame with one Write from one  *)
(* goroutine, reads from another, and its Close closes the connection and     *)
(* waits for both; the connection is closed too when its reader fails.  Bytes *)
(* are numbered from 1 in the order written.                                 *)
(***************************************************************************)
EXTENDS Naturals, Sequences, SequencesExt

CONSTANTS
  Options,     \* chunked: ChunkSize > 0 on UDP; gimbal: SendGimbal
  ChunkSize,   \* of a chunked sender
  FrameSize,   \* bytes of a frame, by message
  QueueCap,    \* messages the node keeps for its writer
  MaxTicks     \* bound: ticks of the ticker

ASSUME SimulatorAssumption ==
  /\ Options \subseteq [chunked : BOOLEAN, gimbal : BOOLEAN]
  /\ ChunkSize \in Nat \ {0} /\ QueueCap \in Nat /\ MaxTicks \in Nat
  /\ FrameSize \in [{"HEARTBEAT", "ATTITUDE", "GIMBAL_DEVICE_ATTITUDE_STATUS"} ->
                      Nat \ {0}]

VARIABLES
  opts,       \* the options
  sender,     \* where RunMockSender is
  cancelled,  \* ctx is done
  seq,        \* ticks counted
  queue,      \* messages the node has not written
  writer,     \* the node's writing goroutine
  reader,     \* the node's reading goroutine
  pending,    \* bytes of its Write that are not read yet
  written,    \* history: bytes written so far
  outClosed,  \* the pipe the node writes into, or its connection, is closed
  inClosed,   \* the pipe the node reads is closed
  chunker,    \* where the chunker is
  buf,        \* what it has read
  socket,     \* udpConn is open
  handed,     \* history: what the socket was given to send
  sent        \* history: which of it was sent, the others' Writes failed

nodeVars  == <<queue, writer, reader, pending, written>>
pipeVars  == <<outClosed, inClosed>>
chunkVars == <<chunker, buf>>
sentVars  == <<handed, sent>>
simVars   == <<opts, sender, cancelled, seq, nodeVars, pipeVars, chunkVars, socket,
               sentVars>>

Init ==
  /\ opts \in Options
  /\ sender = "starting"
  /\ cancelled = FALSE
  /\ seq = 0 /\ written = 0
  /\ writer = "none" /\ reader = "none" /\ chunker = "none"
  /\ outClosed = FALSE /\ inClosed = FALSE /\ socket = FALSE
  /\ queue = << >> /\ pending = << >> /\ buf = << >> /\ handed = << >>
  /\ sent = {}

TypeOK ==
  /\ opts \in Options
  /\ sender \in {"starting", "ticking", "closing", "returned", "failed"}
  /\ cancelled \in BOOLEAN /\ socket \in BOOLEAN
  /\ outClosed \in BOOLEAN /\ inClosed \in BOOLEAN
  /\ seq \in 0..MaxTicks /\ written \in Nat
  /\ queue \in Seq(DOMAIN FrameSize) /\ Len(queue) <= QueueCap
  /\ {writer, reader} \subseteq {"none", "running", "ended"}
  /\ chunker \in {"none", "select", "read", "send", "ended"}
  /\ pending \in Seq(1..written)
  /\ buf \in Seq(1..written) /\ Len(buf) <= ChunkSize
  /\ handed \in Seq(Seq(1..written)) /\ sent \subseteq DOMAIN handed

------------------------------------------------------------------------------
(* RunMockSender and runChunkedUDPSender. *)

(* The address is resolved, the socket made, the node initialized and the         *)
(* goroutines started, or one of these fails and what was made is undone.         *)
Start ==
  /\ sender = "starting"
  /\ \/ /\ sender' = "failed"
        /\ UNCHANGED <<writer, reader, chunker, socket>>
     \/ /\ sender' = "ticking"
        /\ writer' = "running" /\ reader' = "running"
        /\ chunker' = IF opts.chunked THEN "select" ELSE "none"
        /\ socket' = opts.chunked
  /\ UNCHANGED <<opts, cancelled, seq, queue, pending, written, pipeVars, buf, sentVars>>

(* The chunked sender ignores SendGimbal. *)
MessagesAt(n) ==
  <<"HEARTBEAT", "ATTITUDE">> \o
    IF ~opts.chunked /\ opts.gimbal /\ n % 2 = 0
    THEN <<"GIMBAL_DEVICE_ATTITUDE_STATUS">> ELSE << >>

(* ticker.C, which select may take although ctx is done. *)
Tick ==
  /\ sender = "ticking" /\ seq < MaxTicks
  /\ seq' = seq + 1
  /\ LET all == queue \o MessagesAt(seq')
     IN  queue' = SubSeq(all, 1, Min({QueueCap, Len(all)}))
  /\ UNCHANGED <<opts, sender, cancelled, writer, reader, pending, written, pipeVars,
                 chunkVars, socket, sentVars>>

(* ctx.Done, and the deferred node.Close begins. *)
ContextDone ==
  /\ sender = "ticking" /\ cancelled
  /\ sender' = "closing"
  /\ UNCHANGED <<opts, cancelled, seq, nodeVars, pipeVars, chunkVars, socket, sentVars>>

(* node.Close returns; then the deferred udpConn.Close. *)
NodeClosed ==
  /\ sender = "closing" /\ writer = "ended" /\ reader = "ended"
  /\ sender' = "returned"
  /\ socket' = FALSE
  /\ UNCHANGED <<opts, cancelled, seq, nodeVars, pipeVars, chunkVars, sentVars>>

Cancel ==
  /\ ~cancelled
  /\ cancelled' = TRUE
  /\ UNCHANGED <<opts, sender, seq, nodeVars, pipeVars, chunkVars, socket, sentVars>>

------------------------------------------------------------------------------
(* The node, and pipeConn. *)

(* A datagram is given to the socket, which sends it or, whether closed or not,   *)
(* fails: the peer of a connected socket may not listen yet.                      *)
Hand(d) ==
  /\ handed' = Append(handed, d)
  /\ sent' \in {sent, sent \cup {Len(handed')}}

(* Write of the next frame: into the pipe, where it waits to be read, or to the  *)
(* peer.                                                                        *)
WriteFrame ==
  /\ writer = "running" /\ queue # << >> /\ pending = << >> /\ ~outClosed
  /\ LET frame == [i \in 1..FrameSize[Head(queue)] |-> written + i]
     IN  /\ written' = written + Len(frame)
         /\ IF opts.chunked
            THEN pending' = frame /\ UNCHANGED sentVars
            ELSE Hand(frame) /\ UNCHANGED pending
  /\ queue' = Tail(queue)
  /\ UNCHANGED <<opts, sender, cancelled, seq, writer, reader, pipeVars, chunkVars,
                 socket>>

(* Mutant: the pipe that is written into stays open. *)
CloseConnHalf ==
  /\ sender = "closing" \/ reader = "ended"
  /\ ~inClosed
  /\ inClosed' = TRUE
  /\ UNCHANGED <<opts, sender, cancelled, seq, nodeVars, outClosed, chunkVars, socket,
                 sentVars>>

(* pipeConn.Close closes its end of both pipes, once. *)
CloseConn ==
  /\ sender = "closing" \/ reader = "ended"
  /\ ~outClosed
  /\ outClosed' = TRUE /\ inClosed' = TRUE
  /\ UNCHANGED <<opts, sender, cancelled, seq, nodeVars, chunkVars, socket, sentVars>>

(* The writer is told to end, or its connection is closed, in the midst of a      *)
(* Write or not.                                                                *)
WriterEnds ==
  /\ writer = "running"
  /\ outClosed \/ (sender = "closing" /\ pending = << >>)
  /\ writer' = "ended"
  /\ pending' = << >>
  /\ UNCHANGED <<opts, sender, cancelled, seq, queue, reader, written, pipeVars,
                 chunkVars, socket, sentVars>>

(* Read fails: nobody writes into the pipe, so it fails only when it is closed.   *)
ReaderEnds ==
  /\ reader = "running" /\ inClosed
  /\ reader' = "ended"
  /\ UNCHANGED <<opts, sender, cancelled, seq, queue, writer, pending, written,
                 pipeVars, chunkVars, socket, sentVars>>

------------------------------------------------------------------------------
(* The chunker. *)

(* Its end: the deferred pwPipe.Close. *)
ChunkerEnds == chunker' = "ended" /\ inClosed' = TRUE

(* select with a default: a done context is always seen. *)
ChunkerSelects ==
  /\ chunker = "select"
  /\ IF cancelled THEN ChunkerEnds ELSE chunker' = "read" /\ UNCHANGED inClosed
  /\ UNCHANGED <<opts, sender, cancelled, seq, nodeVars, outClosed, buf, socket,
                 sentVars>>

(* Mutant: Read waits until the buffer is full. *)
ChunkerReadsFull ==
  /\ chunker = "read" /\ (outClosed \/ Len(pending) >= ChunkSize)
  /\ IF outClosed
     THEN ChunkerEnds /\ UNCHANGED <<buf, pending>>
     ELSE /\ buf' = SubSeq(pending, 1, ChunkSize)
          /\ pending' = SubSeq(pending, ChunkSize + 1, Len(pending))
          /\ chunker' = "send"
          /\ UNCHANGED inClosed
  /\ UNCHANGED <<opts, sender, cancelled, seq, queue, writer, reader, written,
                 outClosed, socket, sentVars>>

(* prPipe.Read: of the pending Write as much as fits, no more; an error when the  *)
(* pipe is closed.                                                              *)
ChunkerReads ==
  LET n == Min({ChunkSize, Len(pending)})
  IN  /\ chunker = "read" /\ (outClosed \/ pending # << >>)
      /\ IF outClosed
         THEN ChunkerEnds /\ UNCHANGED <<buf, pending>>
         ELSE /\ buf' = SubSeq(pending, 1, n)
              /\ pending' = SubSeq(pending, n + 1, Len(pending))
              /\ chunker' = "send"
              /\ UNCHANGED inClosed
      /\ UNCHANGED <<opts, sender, cancelled, seq, queue, writer, reader, written,
                     outClosed, socket, sentVars>>

(* Mutant: the whole buffer is sent, with the zeros at its end. *)
ChunkerSendsBuffer ==
  /\ chunker = "send"
  /\ Hand([i \in 1..ChunkSize |-> IF i <= Len(buf) THEN buf[i] ELSE 0])
  /\ ~socket => sent' = sent
  /\ buf' = << >>
  /\ chunker' = "select"
  /\ UNCHANGED <<opts, sender, cancelled, seq, nodeVars, pipeVars, socket>>

(* udpConn.Write, whose error is ignored. *)
ChunkerSends ==
  /\ chunker = "send"
  /\ Hand(buf)
  /\ ~socket => sent' = sent
  /\ buf' = << >>
  /\ chunker' = "select"
  /\ UNCHANGED <<opts, sender, cancelled, seq, nodeVars, pipeVars, socket>>

Chunker == ChunkerSelects \/ ChunkerReads \/ ChunkerSends

Next ==
  \/ Start \/ Tick \/ ContextDone \/ NodeClosed \/ Cancel
  \/ WriteFrame \/ CloseConn \/ WriterEnds \/ ReaderEnds \/ Chunker

Spec == Init /\ [][Next]_simVars

(* The goroutines that can run do; a done context, to which select prefers a       *)
(* tick at random, is taken in the end.  Nothing is assumed of ticks.            *)
FairSpec ==
  /\ Spec
  /\ WF_simVars(Start) /\ WF_simVars(ContextDone) /\ WF_simVars(NodeClosed)
  /\ WF_simVars(WriteFrame) /\ WF_simVars(CloseConn)
  /\ WF_simVars(WriterEnds) /\ WF_simVars(ReaderEnds) /\ WF_simVars(Chunker)
------------------------------------------------------------------------------
(* Properties. *)

(* The last byte that the socket was given. *)
LastHanded == IF handed = << >> THEN 0 ELSE Last(Last(handed))

(* n bytes that follow byte b. *)
BytesAfter(b, n) == [i \in 1..n |-> b + i]

(* What the socket is given to send is the bytes written, in order, none twice and *)
(* none left out: each piece begins where the one before it ends, also after one    *)
(* whose Write failed and which is lost; the pieces have at most ChunkSize bytes;   *)
(* and while the sender is not cancelled, a byte that was written and not given to  *)
(* the socket is in the chunker's hands or in the pipe.                            *)
ChunksCarryStream ==
  /\ \A n \in DOMAIN handed :
       /\ handed[n] # << >>
       /\ opts.chunked => Len(handed[n]) <= ChunkSize
       /\ handed[n] = BytesAfter(IF n = 1 THEN 0 ELSE Last(handed[n - 1]),
                                 Len(handed[n]))
  /\ ~cancelled => LastHanded + Len(buf) + Len(pending) = written

(* A cancelled sender returns, wherever the chunker and the node's goroutines are  *)
(* in the circle of pipes, also if the chunker is gone and the node in the midst    *)
(* of a Write; and no goroutine, pipe or socket of it remains.                    *)
Gone == /\ sender = "returned" /\ ~socket /\ inClosed /\ outClosed
        /\ chunker \in {"none", "ended"}
SenderReturns == cancelled ~> sender = "failed" \/ Gone

(* What a tick gave the node is given to the socket unless the sender is cancelled:  *)
(* chunker and writer do not wait for each other, no rest of a frame stays in the    *)
(* pipe, and a Write that fails holds nothing up.                                  *)
AllOut == queue = << >> /\ LastHanded = written
TrafficFlows == \A n \in 1..MaxTicks : seq = n ~> cancelled \/ AllOut

(* "chunks encoded frames into fixed size UDP datagrams" (mock_server.go:19) that  *)
(* cross frame boundaries (mock_server.go:140): every datagram sent but the last    *)
(* has ChunkSize bytes.                                                         *)
FixedSizeDatagrams ==
  opts.chunked => \A i, j \in sent : i < j => Len(handed[i]) = ChunkSize
==============================================================================
