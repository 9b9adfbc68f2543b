------------------------ MODULE UdpStreamServerProofs ------------------------
(***************************************************************************)
(* Theorems about the UDP stream server, for every set of senders, every    *)
(* capacity of acceptChan and of the socket, and every read size.           *)
(*                                                                         *)
(* The inductive invariant is the conjunction of four named parts; each     *)
(* lemma <part>Step shows that a step preserves one of them.                *)
(***************************************************************************)
EXTENDS UdpStreamServer, SequenceTheorems, TLAPS

(* readLoop holds a datagram from ReadFromUDP until Write returns. *)
PacketHeld == loop \in {"got", "locked", "write"} => pkt \in Datagram

(* At most one connection waits for Accept.  While the listener is open it is *)
(* the one whose pipe blocks readLoop; after the sweep closed that pipe, the   *)
(* socket is closed and readLoop can register no other.                        *)
OneOffer ==
  /\ sockOpen <=> closing \in {"open", "marked"}
  /\ connClosed \subseteq clients
  /\ sockOpen => connClosed \subseteq accepted
  /\ \A s \in Senders : reader[s] # "off" <=> s \in accepted
  /\ accepted \subseteq clients
  /\ \/ acceptChan = << >> /\ clients = accepted
     \/ \E s \in clients \ accepted :
          /\ acceptChan = <<s>>
          /\ clients = accepted \cup {s}
          /\ \/ loop = "write" /\ pkt.from = s
             \/ ~sockOpen /\ loop \in {"read", "closing", "done"}

(* After Close, only the connection of the datagram in hand may be open. *)
OneEscapes ==
  closing = "done" =>
    /\ loop \in {"got", "locked"} => clients \subseteq connClosed
    /\ \A r, s \in clients \ connClosed : r = s

(* What was handed to the pipe of s is what was read followed by a remainder, *)
(* which for an open connection is what the pending Write still holds.         *)
Reassembled ==
  \A s \in Senders : \E rest \in Seq(Nat) :
    /\ handed[s] = received[s] \o rest
    /\ s \notin connClosed => rest = InPipe(s)

IInv == TypeOK /\ PacketHeld /\ OneOffer /\ OneEscapes /\ Reassembled

------------------------------------------------------------------------------
(* A datagram of n bytes is a datagram. *)
LEMMA DatagramType ==
  ASSUME NEW s \in Senders, NEW n \in Nat, NEW k \in Nat
  PROVE  [from |-> s, data |-> [i \in 1..n |-> k + i]] \in Datagram
<1>1. [i \in 1..n |-> k + i] \in [1..n -> Nat]
  OBVIOUS
<1>2. [i \in 1..n |-> k + i] \in Seq(Nat)
  BY <1>1, SeqDef
<1> QED
  BY <1>2 DEF Datagram

(* Cutting a sequence in two loses nothing. *)
LEMMA CutSeq ==
  ASSUME NEW S, NEW seq \in Seq(S), NEW n \in 0..Len(seq)
  PROVE  /\ SubSeq(seq, 1, n) \in Seq(S)
         /\ SubSeq(seq, n + 1, Len(seq)) \in Seq(S)
         /\ SubSeq(seq, 1, n) \o SubSeq(seq, n + 1, Len(seq)) = seq
<1>1. Len(seq) \in Nat /\ \A i \in 1..Len(seq) : seq[i] \in S
  BY LenProperties, ElementOfSeq
<1>2. \A i \in 1..n : seq[i] \in S
  BY <1>1
<1>3. \A i \in n + 1..Len(seq) : seq[i] \in S
  BY <1>1
<1>4. SubSeq(seq, 1, n) \in Seq(S)
  BY <1>1, <1>2, SubSeqProperties
<1>5. SubSeq(seq, n + 1, Len(seq)) \in Seq(S)
  BY <1>1, <1>3, SubSeqProperties
<1>6. SubSeq(seq, 1, n) \o SubSeq(seq, n + 1, Len(seq)) = SubSeq(seq, 1, Len(seq))
  <2>1. 1 \in 1..Len(seq) + 1 /\ n \in 1 - 1..Len(seq) /\ Len(seq) \in n..Len(seq)
    BY <1>1
  <2> QED
    BY <2>1, ConcatAdjacentSubSeq
<1> QED
  BY <1>4, <1>5, <1>6, SubSeqFull

(* Handing over the middle of three pieces does not change their join. *)
LEMMA Rebracket ==
  \A a, b, c \in Seq(Nat) : (a \o b) \o c = a \o (b \o c)
BY ConcatAssociative

(* The initial state satisfies the invariant. *)
LEMMA InitIInv == ASSUME Init PROVE IInv
<1>1. TypeOK
  BY DEF Init, TypeOK, Datagram
<1>2. PacketHeld
  BY DEF Init, PacketHeld
<1>3. OneOffer
  BY DEF Init, OneOffer
<1>4. OneEscapes
  BY DEF Init, OneEscapes
<1>5. Reassembled
  <2> SUFFICES ASSUME NEW s \in Senders
               PROVE  \E rest \in Seq(Nat) :
                        /\ handed[s] = received[s] \o rest
                        /\ s \notin connClosed => rest = InPipe(s)
    BY DEF Reassembled
  <2>1. << >> \in Seq(Nat) /\ << >> \o << >> = << >>
    BY EmptySeq, ConcatEmptySeq
  <2>2. handed[s] = << >> /\ received[s] = << >> /\ InPipe(s) = << >>
    BY DEF Init, InPipe
  <2> QED
    BY <2>1, <2>2
<1> QED
  BY <1>1, <1>2, <1>3, <1>4, <1>5 DEF IInv

(* Every step preserves the types. *)
LEMMA TypeStep ==
  ASSUME TypeOK, PacketHeld, [Next]_vars
  PROVE  TypeOK' /\ PacketHeld'
<1> USE DEF TypeOK, PacketHeld
<1>1. ASSUME NEW s \in Senders, NEW n \in 0..MaxLen, Send(s, n)
      PROVE  TypeOK' /\ PacketHeld'
  <2> DEFINE d == [from |-> s, data |-> [i \in 1..n |-> sent[s] + i]]
  <2>1. n \in Nat /\ sent[s] \in Nat
    BY ServerAssumption
  <2>2. d \in Datagram
    BY <2>1, DatagramType
  <2>3. sock' = sock \/ sock' = Append(sock, d)
    BY <1>1 DEF Send
  <2> HIDE DEF d
  <2>4. Append(sock, d) \in Seq(Datagram)
    BY <2>2, AppendProperties
  <2>5. sock' \in Seq(Datagram)
    BY <2>3, <2>4
  <2>6. sent' \in [Senders -> Nat]
    BY <1>1, <2>1 DEF Send
  <2> QED
    BY <1>1, <2>5, <2>6 DEF Send, acceptVars, closeVars, histVars
<1>2. CASE Recv
  <2>1. Head(sock) \in Datagram /\ Tail(sock) \in Seq(Datagram)
    BY <1>2, HeadTailProperties DEF Recv
  <2> QED
    BY <1>2, <2>1 DEF Recv, acceptVars, closeVars, histVars
<1>3. CASE ReadFails
  BY <1>3 DEF ReadFails, netVars, acceptVars, closeVars, histVars
<1>4. CASE LoopExit
  BY <1>4 DEF LoopExit, netVars, acceptVars, closeVars, histVars
<1>5. CASE LoopLock
  BY <1>5 DEF LoopLock, netVars, acceptVars, closeVars, histVars
<1>6. CASE Register
  <2>1. pkt.from \in Senders /\ pkt.data \in Seq(Nat)
    BY <1>6 DEF Register, Datagram
  <2>2. acceptChan' \in Seq(Senders)
    BY <1>6, <2>1, AppendProperties DEF Register
  <2>3. handed[pkt.from] \o pkt.data \in Seq(Nat)
    BY <2>1, ConcatProperties
  <2>4. handed' \in [Senders -> Seq(Nat)]
    BY <1>6, <2>1, <2>3 DEF Register
  <2> QED
    BY <1>6, <2>1, <2>2, <2>4 DEF Register, netVars, closeVars
<1>7. CASE PipeClosed
  BY <1>7 DEF PipeClosed, netVars, acceptVars, closeVars, histVars
<1>8. ASSUME NEW s \in Senders, PipeRead(s)
      PROVE  TypeOK' /\ PacketHeld'
  <2> DEFINE n == IF ReadBuf < Len(pkt.data) THEN ReadBuf ELSE Len(pkt.data)
             front == SubSeq(pkt.data, 1, n)
             rest == SubSeq(pkt.data, n + 1, Len(pkt.data))
  <2>1. pkt \in Datagram /\ pkt.data \in Seq(Nat)
    BY <1>8 DEF PipeRead, Datagram
  <2>2. n \in 0..Len(pkt.data) /\ Len(pkt.data) \in Nat
    BY <2>1, LenProperties, ServerAssumption
  <2> HIDE DEF n
  <2>4. front \in Seq(Nat)
    BY <2>1, <2>2, CutSeq
  <2>5. rest \in Seq(Nat)
    BY <2>1, <2>2, CutSeq
  <2>6. /\ received' = [received EXCEPT ![s] = received[s] \o front]
        /\ \/ pkt' = NoPacket /\ loop' = "read"
           \/ pkt' = [pkt EXCEPT !.data = rest] /\ loop' = loop
    BY <1>8 DEF PipeRead, n
  <2> HIDE DEF front, rest
  <2>7. received[s] \o front \in Seq(Nat)
    BY <2>4, ConcatProperties
  <2>8. received' \in [Senders -> Seq(Nat)]
    BY <2>6, <2>7
  <2>9. [pkt EXCEPT !.data = rest] \in Datagram
    BY <2>1, <2>5 DEF Datagram
  <2>10. reader' \in [Senders -> {"off", "reading", "busy", "gone"}]
    BY <1>8 DEF PipeRead
  <2>11. pkt' \in Datagram \cup {NoPacket} /\ PacketHeld'
    BY <1>8, <2>6, <2>9 DEF PipeRead
  <2> QED
    BY <1>8, <2>6, <2>8, <2>10, <2>11 DEF PipeRead, netVars, acceptVars, closeVars
<1>9. CASE Accept
  <2>1. Head(acceptChan) \in Senders /\ Tail(acceptChan) \in Seq(Senders)
    BY <1>9, HeadTailProperties DEF Accept
  <2> QED
    BY <1>9, <2>1 DEF Accept, netVars, closeVars, histVars
<1>10. CASE AcceptFails
  BY <1>10 DEF AcceptFails, netVars, closeVars, histVars
<1>11. ASSUME NEW s \in Senders, ReadAgain(s) \/ ReaderExit(s) \/ ChannelFails(s)
       PROVE  TypeOK' /\ PacketHeld'
  BY <1>11 DEF ReadAgain, ReaderExit, ChannelFails, netVars, acceptVars,
               closeVars, histVars
<1>12. CASE NodeClose \/ NodeCloseReturns \/ MarkClosed \/ SweepLock \/ SweepUnlock
  BY <1>12 DEF NodeClose, NodeCloseReturns, MarkClosed, SweepLock, SweepUnlock,
               netVars, acceptVars, histVars
<1>13. CASE CloseSocket
  BY <1>13, EmptySeq DEF CloseSocket, acceptVars, histVars
<1>14. ASSUME NEW s \in Senders, SweepClient(s)
       PROVE  TypeOK' /\ PacketHeld'
  BY <1>14 DEF SweepClient, netVars, acceptVars, closeVars, histVars
<1>15. CASE UNCHANGED vars
  BY <1>15 DEF vars, netVars, acceptVars, closeVars, histVars
<1> QED
  BY <1>1, <1>2, <1>3, <1>4, <1>5, <1>6, <1>7, <1>8, <1>9, <1>10, <1>11, <1>12,
     <1>13, <1>14, <1>15
     DEF Next, Loop, Reader, Closer, ReadAfterClose, ReadError

(* Every step keeps at most one connection waiting for Accept. *)
LEMMA OfferStep ==
  ASSUME TypeOK, PacketHeld, OneOffer, [Next]_vars
  PROVE  OneOffer'
<1> USE DEF OneOffer
<1>1. ASSUME NEW s \in Senders, NEW n \in 0..MaxLen, Send(s, n)
      PROVE  OneOffer'
  BY <1>1 DEF Send, acceptVars, closeVars
<1>2. CASE Recv
  BY <1>2 DEF Recv, acceptVars, closeVars
<1>3. CASE ReadFails
  BY <1>3 DEF ReadFails, netVars, acceptVars, closeVars
<1>4. CASE LoopExit
  BY <1>4 DEF LoopExit, netVars, acceptVars, closeVars
<1>5. CASE LoopLock
  BY <1>5 DEF LoopLock, netVars, acceptVars, closeVars
<1>6. CASE Register
  <2>1. acceptChan = << >> /\ clients = accepted
    BY <1>6 DEF Register
  <2>2. pkt.from \in Senders
    BY <1>6 DEF Register, PacketHeld, Datagram
  <2>3. CASE pkt.from \in clients
    BY <1>6, <2>1, <2>3 DEF Register, netVars, closeVars
  <2>4. CASE pkt.from \notin clients
    <3>1. acceptChan' = <<pkt.from>>
      BY <1>6, <2>1, <2>4, ServerAssumption DEF Register
    <3> QED
      BY <1>6, <2>1, <2>2, <2>4, <3>1 DEF Register, netVars, closeVars
  <2> QED
    BY <2>3, <2>4
<1>7. CASE PipeClosed
  BY <1>7 DEF PipeClosed, netVars, acceptVars, closeVars
<1>8. ASSUME NEW s \in Senders, PipeRead(s)
      PROVE  OneOffer'
  <2>1. s \in accepted /\ acceptChan = << >> /\ clients = accepted
    BY <1>8 DEF PipeRead
  <2> QED
    BY <1>8, <2>1 DEF PipeRead, TypeOK, netVars, acceptVars, closeVars
<1>9. CASE Accept
  <2> PICK s \in clients \ accepted : acceptChan = <<s>> /\ clients = accepted \cup {s}
    BY <1>9 DEF Accept
  <2>1. Head(acceptChan) = s /\ Tail(acceptChan) = << >>
    OBVIOUS
  <2> QED
    BY <1>9, <2>1 DEF Accept, TypeOK, netVars, closeVars
<1>10. CASE AcceptFails
  BY <1>10 DEF AcceptFails, netVars, closeVars
<1>11. ASSUME NEW s \in Senders, ReadAgain(s) \/ ReaderExit(s) \/ ChannelFails(s)
       PROVE  OneOffer'
  BY <1>11 DEF ReadAgain, ReaderExit, ChannelFails, TypeOK, netVars, acceptVars,
               closeVars
<1>12. CASE NodeClose \/ NodeCloseReturns \/ MarkClosed \/ SweepLock \/ SweepUnlock
  BY <1>12 DEF NodeClose, NodeCloseReturns, MarkClosed, SweepLock, SweepUnlock,
               netVars, acceptVars
<1>13. CASE CloseSocket
  BY <1>13 DEF CloseSocket, acceptVars
<1>14. ASSUME NEW s \in Senders, SweepClient(s)
       PROVE  OneOffer'
  BY <1>14 DEF SweepClient, netVars, acceptVars, closeVars
<1>15. CASE UNCHANGED vars
  BY <1>15 DEF vars, netVars, acceptVars, closeVars
<1> QED
  BY <1>1, <1>2, <1>3, <1>4, <1>5, <1>6, <1>7, <1>8, <1>9, <1>10, <1>11, <1>12,
     <1>13, <1>14, <1>15
     DEF Next, Loop, Reader, Closer, ReadAfterClose, ReadError

(* Every step keeps at most one connection open after Close. *)
LEMMA EscapeStep ==
  ASSUME TypeOK, OneOffer, OneEscapes, [Next]_vars
  PROVE  OneEscapes'
<1> USE DEF OneEscapes
<1>1. ASSUME NEW s \in Senders, NEW n \in 0..MaxLen, Send(s, n)
      PROVE  OneEscapes'
  BY <1>1 DEF Send, closeVars
<1>2. CASE Recv
  BY <1>2 DEF Recv, closeVars, OneOffer
<1>3. CASE ReadFails
  BY <1>3 DEF ReadFails, closeVars
<1>4. CASE LoopExit
  BY <1>4 DEF LoopExit, closeVars
<1>5. CASE LoopLock
  BY <1>5 DEF LoopLock, closeVars
<1>6. CASE Register
  BY <1>6 DEF Register, closeVars
<1>7. CASE PipeClosed
  BY <1>7 DEF PipeClosed, closeVars
<1>8. ASSUME NEW s \in Senders, PipeRead(s)
      PROVE  OneEscapes'
  BY <1>8 DEF PipeRead, closeVars
<1>9. CASE Accept \/ AcceptFails
  BY <1>9 DEF Accept, AcceptFails, closeVars
<1>10. ASSUME NEW s \in Senders, ReadAgain(s) \/ ReaderExit(s) \/ ChannelFails(s)
       PROVE  OneEscapes'
  BY <1>10 DEF ReadAgain, ReaderExit, ChannelFails, closeVars
<1>11. CASE NodeClose \/ NodeCloseReturns \/ MarkClosed \/ SweepLock
              \/ CloseSocket
  BY <1>11 DEF NodeClose, NodeCloseReturns, MarkClosed, SweepLock, CloseSocket
<1>12. CASE SweepUnlock
  BY <1>12 DEF SweepUnlock
<1>13. ASSUME NEW s \in Senders, SweepClient(s)
       PROVE  OneEscapes'
  BY <1>13 DEF SweepClient, closeVars
<1>14. CASE UNCHANGED vars
  BY <1>14 DEF vars, closeVars
<1> QED
  BY <1>1, <1>2, <1>3, <1>4, <1>5, <1>6, <1>7, <1>8, <1>9, <1>10, <1>11, <1>12,
     <1>13, <1>14
     DEF Next, Loop, Reader, Closer, ReadAfterClose, ReadError

------------------------------------------------------------------------------
(* What a step does to the streams, sender by sender. *)

(* A step that leaves the histories and the pipe alone, and opens no closed   *)
(* connection, keeps every stream whole.                                      *)
LEMMA SamePipe ==
  ASSUME Reassembled, handed' = handed, received' = received,
         connClosed \subseteq connClosed',
         \A s \in Senders \ connClosed' : InPipe(s)' = InPipe(s)
  PROVE  Reassembled'
<1> SUFFICES ASSUME NEW s \in Senders
             PROVE  \E rest \in Seq(Nat) :
                      /\ handed'[s] = received'[s] \o rest
                      /\ s \notin connClosed' => rest = InPipe(s)'
  BY DEF Reassembled
<1> PICK rest \in Seq(Nat) : /\ handed[s] = received[s] \o rest
                             /\ s \notin connClosed => rest = InPipe(s)
  BY DEF Reassembled
<1> QED
  OBVIOUS

(* Every step keeps the streams whole. *)
LEMMA StreamStep ==
  ASSUME TypeOK, PacketHeld, Reassembled, [Next]_vars
  PROVE  Reassembled'
<1>1. ASSUME NEW s \in Senders, NEW n \in 0..MaxLen, Send(s, n)
      PROVE  Reassembled'
  BY <1>1, SamePipe DEF Send, histVars, InPipe
<1>2. CASE Recv \/ ReadFails \/ LoopExit \/ LoopLock
  BY <1>2, SamePipe DEF Recv, ReadFails, LoopExit, LoopLock, histVars, InPipe
<1>3. CASE Register
  <2> SUFFICES ASSUME NEW s \in Senders
               PROVE  \E rest \in Seq(Nat) :
                        /\ handed'[s] = received'[s] \o rest
                        /\ s \notin connClosed' => rest = InPipe(s)'
    BY DEF Reassembled
  <2> PICK rest \in Seq(Nat) : /\ handed[s] = received[s] \o rest
                               /\ s \notin connClosed => rest = InPipe(s)
    BY DEF Reassembled
  <2>1. pkt.from \in Senders /\ pkt.data \in Seq(Nat)
    BY <1>3 DEF Register, PacketHeld, Datagram
  <2>2. received[s] \in Seq(Nat) /\ handed[s] \in Seq(Nat)
    BY DEF TypeOK
  <2>3. CASE s # pkt.from
    BY <1>3, <2>3 DEF Register, InPipe, TypeOK
  <2>4. CASE s = pkt.from
    <3>1. handed'[s] = (received[s] \o rest) \o pkt.data
      BY <1>3, <2>4 DEF Register, TypeOK
    <3>2. handed'[s] = received[s] \o (rest \o pkt.data)
      BY <3>1, <2>1, <2>2, Rebracket
    <3>3. rest \o pkt.data \in Seq(Nat)
      BY <2>1, ConcatProperties
    <3>4. s \notin connClosed => rest \o pkt.data = pkt.data
      BY <1>3, <2>1, ConcatEmptySeq DEF Register, InPipe
    <3>5. InPipe(s)' = pkt.data /\ received' = received /\ connClosed' = connClosed
      BY <1>3, <2>4 DEF Register, InPipe
    <3> QED
      BY <3>2, <3>3, <3>4, <3>5
  <2> QED
    BY <2>3, <2>4
<1>4. CASE PipeClosed
  BY <1>4, SamePipe DEF PipeClosed, histVars, InPipe
<1>5. ASSUME NEW r \in Senders, PipeRead(r)
      PROVE  Reassembled'
  <2> DEFINE n == IF ReadBuf < Len(pkt.data) THEN ReadBuf ELSE Len(pkt.data)
             front == SubSeq(pkt.data, 1, n)
             back == SubSeq(pkt.data, n + 1, Len(pkt.data))
  <2>1. pkt \in Datagram /\ pkt.data \in Seq(Nat)
    BY <1>5 DEF PipeRead, PacketHeld, Datagram
  <2>2. n \in 0..Len(pkt.data)
    BY <2>1, LenProperties, ServerAssumption
  <2>3. /\ received' = [received EXCEPT ![r] = received[r] \o front]
        /\ IF back = << >> THEN pkt' = NoPacket /\ loop' = "read"
                           ELSE pkt' = [pkt EXCEPT !.data = back] /\ loop' = loop
    BY <1>5 DEF PipeRead
  <2> HIDE DEF n
  <2>4. front \in Seq(Nat) /\ back \in Seq(Nat) /\ front \o back = pkt.data
    BY <2>1, <2>2, CutSeq
  <2> HIDE DEF front, back
  <2> SUFFICES ASSUME NEW s \in Senders
               PROVE  \E rest \in Seq(Nat) :
                        /\ handed'[s] = received'[s] \o rest
                        /\ s \notin connClosed' => rest = InPipe(s)'
    BY DEF Reassembled
  <2> PICK rest \in Seq(Nat) : /\ handed[s] = received[s] \o rest
                               /\ s \notin connClosed => rest = InPipe(s)
    BY DEF Reassembled
  <2>5. handed' = handed /\ connClosed' = connClosed /\ loop = "write" /\ pkt.from = r
    BY <1>5 DEF PipeRead
  <2>6. CASE s # r
    <3>1. received'[s] = received[s] /\ InPipe(s) = << >>
      BY <2>3, <2>5, <2>6 DEF TypeOK, InPipe
    <3>2. InPipe(s)' = << >>
      BY <2>1, <2>3, <2>5, <2>6 DEF InPipe, Datagram
    <3> QED
      BY <2>5, <3>1, <3>2
  <2>7. CASE s = r
    <3>1. received'[s] = received[s] \o front /\ received[s] \in Seq(Nat)
      BY <2>3, <2>7 DEF TypeOK
    <3>2. rest = front \o back
      BY <1>5, <2>4, <2>5, <2>7 DEF PipeRead, InPipe
    <3>3. handed'[s] = received'[s] \o back
      <4>1. (received[s] \o front) \o back = received[s] \o (front \o back)
        BY <2>4, <3>1, Rebracket
      <4> QED
        BY <2>5, <3>1, <3>2, <4>1
    <3>4. InPipe(s)' = back
      BY <2>1, <2>3, <2>5, <2>7 DEF InPipe, Datagram
    <3> QED
      BY <2>4, <3>3, <3>4
  <2> QED
    BY <2>6, <2>7
<1>6. CASE Accept \/ AcceptFails
  BY <1>6, SamePipe DEF Accept, AcceptFails, histVars, InPipe
<1>7. ASSUME NEW s \in Senders, ReadAgain(s) \/ ReaderExit(s) \/ ChannelFails(s)
      PROVE  Reassembled'
  BY <1>7, SamePipe DEF ReadAgain, ReaderExit, ChannelFails, histVars, InPipe
<1>8. CASE NodeClose \/ NodeCloseReturns \/ MarkClosed \/ CloseSocket
             \/ SweepLock \/ SweepUnlock
  BY <1>8, SamePipe DEF NodeClose, NodeCloseReturns, MarkClosed, CloseSocket,
                        SweepLock, SweepUnlock, histVars, InPipe
<1>9. ASSUME NEW s \in Senders, SweepClient(s)
      PROVE  Reassembled'
  BY <1>9, SamePipe DEF SweepClient, histVars, InPipe
<1>10. CASE UNCHANGED vars
  BY <1>10, SamePipe DEF vars, histVars, InPipe
<1> QED
  BY <1>1, <1>2, <1>3, <1>4, <1>5, <1>6, <1>7, <1>8, <1>9, <1>10
     DEF Next, Loop, Reader, Closer, ReadAfterClose, ReadError

------------------------------------------------------------------------------
(* The theorems. *)

(* The invariant holds in every reachable state. *)
THEOREM Invariant == Spec => []IInv
<1>1. Init => IInv
  BY InitIInv
<1>2. IInv /\ [Next]_vars => IInv'
  BY TypeStep, OfferStep, EscapeStep, StreamStep DEF IInv
<1> QED
  BY <1>1, <1>2, PTL DEF Spec

(* The variables have their types. *)
THEOREM TypeCorrect == Spec => []TypeOK
<1>1. IInv => TypeOK
  BY DEF IInv
<1> QED
  BY <1>1, Invariant, PTL

(* Every connection readLoop registers is offered to Accept, whatever the      *)
(* capacity of acceptChan: the branch that drops an offer is dead code.         *)
THEOREM EverySenderIsOffered == Spec => []EverySenderOffered
<1>1. IInv => EverySenderOffered
  BY DEF IInv, OneOffer, EverySenderOffered
<1> QED
  BY <1>1, Invariant, PTL

(* No two readers ever share the stream of one sender. *)
THEOREM OneReader == Spec => []OneReaderPerStream
<1>1. IInv => OneReaderPerStream
  BY DEF IInv, OneOffer, OneReaderPerStream
<1> QED
  BY <1>1, Invariant, PTL

(* However Close and readLoop interleave, Close misses at most one connection. *)
THEOREM CloseMissesAtMostOne == Spec => []AtMostOneEscapesClose
<1>1. IInv => AtMostOneEscapesClose
  BY DEF IInv, OneEscapes, AtMostOneEscapesClose
<1> QED
  BY <1>1, Invariant, PTL

(* A sequence is a prefix of any sequence that starts with it. *)
LEMMA PrefixOfConcat ==
  ASSUME NEW S, NEW s \in Seq(S), NEW t \in Seq(S)
  PROVE  IsPrefix(s, s \o t)
<1>1. Len(s) \in Nat /\ Len(t) \in Nat /\ Len(s \o t) = Len(s) + Len(t)
  BY LenProperties, ConcatProperties
<1>2. SubSeq(s, 1, Len(s)) = SubSeq(s \o t, 1, Len(s))
  <2>1. CASE Len(s) = 0
    BY <2>1, SubSeqEmpty
  <2>2. CASE Len(s) # 0
    <3>1. 1 \in 1..Len(s) /\ Len(s) \in 1..Len(s)
      BY <1>1, <2>2
    <3> QED
      BY <3>1, SubSeqOfConcat1
  <2> QED
    BY <2>1, <2>2
<1> QED
  BY <1>1, <1>2 DEF IsPrefix

(* The parser reads what each sender's datagrams held, in order and whole. *)
LEMMA WholeStreams == ASSUME TypeOK, Reassembled PROVE StreamIntegrity
<1> SUFFICES ASSUME NEW s \in Senders
             PROVE  /\ IsPrefix(received[s], handed[s])
                    /\ s \notin connClosed => received[s] \o InPipe(s) = handed[s]
  BY DEF StreamIntegrity
<1> PICK rest \in Seq(Nat) : /\ handed[s] = received[s] \o rest
                             /\ s \notin connClosed => rest = InPipe(s)
  BY DEF Reassembled
<1>1. received[s] \in Seq(Nat)
  BY DEF TypeOK
<1> QED
  BY <1>1, PrefixOfConcat

(* Every stream the parser reads is its sender's, whole and in order, however   *)
(* its datagrams are cut and whoever else sends.                                *)
THEOREM StreamsAreWhole == Spec => []StreamIntegrity
<1>1. IInv => StreamIntegrity
  BY WholeStreams DEF IInv
<1> QED
  BY <1>1, Invariant, PTL

(* The abstract module's IsPrefix is the one the server's module uses. *)
LEMMA SamePrefix ==
  ASSUME NEW s, NEW t, IsPrefix(s, t)
  PROVE  Streams!IsPrefix(s, t)
BY DEF IsPrefix, Streams!IsPrefix

(* A step of the server is a step of the abstract streams or changes nothing   *)
(* they show.                                                                  *)
LEMMA StreamsStep ==
  ASSUME IInv, [Next]_vars
  PROVE  [Streams!Next]_(Streams!vars)
<1> USE DEF IInv
<1>1. ASSUME handed' = handed, received' = received, connClosed' = connClosed
      PROVE  [Streams!Next]_(Streams!vars)
  BY <1>1 DEF Streams!vars
<1>2. CASE Register
  <2> DEFINE s == pkt.from
  <2>1. s \in Senders /\ pkt.data \in Seq(Nat)
    BY <1>2 DEF Register, PacketHeld, Datagram
  <2>2. ASSUME NEW r \in Senders \ connClosed
        PROVE  received[r] = handed[r]
    <3> PICK rest \in Seq(Nat) : /\ handed[r] = received[r] \o rest
                                 /\ r \notin connClosed => rest = InPipe(r)
      BY DEF Reassembled
    <3>1. rest = << >> /\ received[r] \in Seq(Nat)
      BY <1>2 DEF Register, InPipe, TypeOK
    <3> QED
      BY <3>1, ConcatEmptySeq
  <2>3. handed' = [handed EXCEPT ![s] = handed[s] \o pkt.data]
    BY <1>2 DEF Register
  <2>4. handed[s] \in Seq(Nat) /\ handed \in [Senders -> Seq(Nat)]
    BY <2>1 DEF TypeOK
  <2> HIDE DEF s
  <2>5. handed'[s] = handed[s] \o pkt.data
    BY <2>1, <2>3, <2>4
  <2>6. IsPrefix(handed[s], handed'[s])
    BY <2>1, <2>4, <2>5, PrefixOfConcat
  <2>7. handed' = [handed EXCEPT ![s] = handed'[s]]
    BY <2>3, <2>5
  <2>8. Streams!Extends(handed', handed, s)
    BY <2>6, <2>7, SamePrefix DEF Streams!Extends
  <2>9. UNCHANGED <<received, connClosed>>
    BY <1>2 DEF Register
  <2>10. Streams!Take(s)
    BY <2>2, <2>8, <2>9 DEF Streams!Take
  <2> QED
    BY <2>1, <2>10 DEF Streams!Next
<1>3. ASSUME NEW s \in Senders, PipeRead(s)
      PROVE  [Streams!Next]_(Streams!vars)
  <2> DEFINE n == IF ReadBuf < Len(pkt.data) THEN ReadBuf ELSE Len(pkt.data)
             front == SubSeq(pkt.data, 1, n)
             back == SubSeq(pkt.data, n + 1, Len(pkt.data))
  <2>1. pkt.data \in Seq(Nat)
    BY <1>3 DEF PipeRead, PacketHeld, Datagram
  <2>2. n \in 0..Len(pkt.data)
    BY <2>1, LenProperties, ServerAssumption
  <2>3. received' = [received EXCEPT ![s] = received[s] \o front]
    BY <1>3 DEF PipeRead
  <2> HIDE DEF n
  <2>4. front \in Seq(Nat) /\ back \in Seq(Nat) /\ front \o back = pkt.data
    BY <2>1, <2>2, CutSeq
  <2> HIDE DEF front, back
  <2>5. s \notin connClosed /\ InPipe(s) = pkt.data
    BY <1>3 DEF PipeRead, InPipe
  <2>6. handed[s] = received[s] \o (front \o back)
    BY <2>4, <2>5 DEF Reassembled
  <2>7. received[s] \in Seq(Nat) /\ received \in [Senders -> Seq(Nat)]
    BY DEF TypeOK
  <2>8. (received[s] \o front) \o back = received[s] \o (front \o back)
    BY <2>4, <2>7, Rebracket
  <2>9. received'[s] = received[s] \o front
    BY <2>3, <2>7
  <2>10. received'[s] \in Seq(Nat)
    BY <2>4, <2>7, <2>9, ConcatProperties
  <2>11. IsPrefix(received[s], received'[s])
    BY <2>4, <2>7, <2>9, PrefixOfConcat
  <2>12. handed[s] = received'[s] \o back
    BY <2>6, <2>8, <2>9
  <2>13. IsPrefix(received'[s], handed[s])
    BY <2>4, <2>10, <2>12, PrefixOfConcat
  <2>14. received' = [received EXCEPT ![s] = received'[s]]
    BY <2>3, <2>9
  <2>15. Streams!Extends(received', received, s)
    BY <2>11, <2>14, SamePrefix DEF Streams!Extends
  <2>16. UNCHANGED <<handed, connClosed>>
    BY <1>3 DEF PipeRead
  <2>17. Streams!Deliver(s)
    BY <2>5, <2>13, <2>15, <2>16, SamePrefix DEF Streams!Deliver
  <2> QED
    BY <2>17 DEF Streams!Next
<1>4. ASSUME NEW s \in Senders, SweepClient(s) \/ ChannelFails(s)
      PROVE  [Streams!Next]_(Streams!vars)
  <2>1. Streams!Close(s)
    BY <1>4 DEF SweepClient, ChannelFails, histVars, Streams!Close
  <2> QED
    BY <2>1 DEF Streams!Next
<1>5. ASSUME NEW s \in Senders, NEW n \in 0..MaxLen, Send(s, n)
      PROVE  [Streams!Next]_(Streams!vars)
  BY <1>1, <1>5 DEF Send, histVars
<1>6. CASE Recv \/ ReadFails \/ LoopExit \/ LoopLock \/ PipeClosed
  BY <1>1, <1>6 DEF Recv, ReadFails, LoopExit, LoopLock, PipeClosed, histVars
<1>7. CASE Accept \/ AcceptFails
  BY <1>1, <1>7 DEF Accept, AcceptFails, histVars
<1>8. ASSUME NEW s \in Senders, ReadAgain(s) \/ ReaderExit(s)
      PROVE  [Streams!Next]_(Streams!vars)
  BY <1>1, <1>8 DEF ReadAgain, ReaderExit, histVars
<1>9. CASE NodeClose \/ NodeCloseReturns \/ MarkClosed \/ CloseSocket
             \/ SweepLock \/ SweepUnlock
  BY <1>1, <1>9 DEF NodeClose, NodeCloseReturns, MarkClosed, CloseSocket,
                    SweepLock, SweepUnlock, histVars
<1>10. CASE UNCHANGED vars
  BY <1>1, <1>10 DEF vars, histVars
<1> QED
  BY <1>2, <1>3, <1>4, <1>5, <1>6, <1>7, <1>8, <1>9, <1>10
     DEF Next, Loop, Reader, Closer, ReadAfterClose, ReadError

(* The stream server implements one ordered byte stream per sender. *)
THEOREM Refinement == Spec => ImplementsSenderStreams
<1>1. Init => Streams!Init
  BY DEF Init, Streams!Init
<1>2. IInv /\ [Next]_vars => [Streams!Next]_(Streams!vars)
  BY StreamsStep
<1> QED
  BY <1>1, <1>2, Invariant, PTL DEF Spec, Streams!Spec, ImplementsSenderStreams
==============================================================================
