--------------------------- MODULE UdpStreamServer ---------------------------
(***************************************************************************)
(* The UDP stream server of internal/transport/udp_stream_server.go: one    *)
(* UDP socket demultiplexed into one virtual stream connection per remote   *)
(* sender.  The goroutines are                                              *)
(*                                                                         *)
(*   readLoop   the listener's only reader of the socket (variable loop)    *)
(*   Close      run once, by the node's shutdown or by readLoop itself      *)
(*   acceptor   gomavlib's goroutine that calls Accept            (external) *)
(*   reader[s]  gomavlib's goroutine that reads the connection of s (ext.)  *)
(*                                                                         *)
(* A sender numbers its bytes 1, 2, 3, ..., so a byte names its place in    *)
(* the stream its sender sent.  A key of the clients map is registered once *)
(* and never deleted, so a virtual connection is named by its sender.       *)
(***************************************************************************)
EXTENDS Naturals, Sequences, SequencesExt

CONSTANTS
  Senders,    \* remote UDP addresses
  NoSender,   \* no datagram is being handled
  AcceptCap,  \* capacity of acceptChan (16 in the code)
  ReadBuf,    \* bytes the parser asks for in one Read
  SockCap,    \* datagrams the kernel keeps for the socket
  MaxLen,     \* longest datagram, in bytes
  MaxBytes    \* bound: bytes each sender sends

ASSUME ServerAssumption ==
  /\ NoSender \notin Senders
  /\ AcceptCap \in Nat \ {0} /\ ReadBuf \in Nat \ {0}
  /\ SockCap \in Nat
  /\ MaxLen \in Nat /\ MaxBytes \in Nat

VARIABLES
  sent,        \* number of bytes each sender has sent
  sock,        \* datagrams waiting in the kernel's socket buffer
  sockOpen,    \* l.conn is open
  loop,        \* where readLoop is
  pkt,         \* the datagram readLoop handles: sender, bytes not yet read
  clients,     \* keys of l.clients
  acceptChan,  \* l.acceptChan
  accepted,    \* connections Accept has returned
  acceptor,    \* whether gomavlib still calls Accept
  reader,      \* gomavlib's reader of each connection
  connClosed,  \* virtual connections that are closed
  closing,     \* progress of the body of listener.Close
  node,        \* the node's call of listener.Close
  handed,      \* history: bytes of each sender given to its pipe
  received     \* history: bytes read from each connection

netVars    == <<sent, sock, sockOpen>>
acceptVars == <<acceptChan, accepted, acceptor>>
closeVars  == <<closing, node>>
histVars   == <<handed, received>>
vars == <<netVars, loop, pkt, clients, acceptVars, reader, connClosed,
          closeVars, histVars>>

Datagram == [from : Senders, data : Seq(Nat)]
NoPacket == [from |-> NoSender, data |-> << >>]

TypeOK ==
  /\ sent \in [Senders -> Nat]
  /\ sock \in Seq(Datagram)
  /\ sockOpen \in BOOLEAN
  /\ loop \in {"read", "got", "locked", "write", "closing", "done"}
  /\ pkt \in Datagram \cup {NoPacket}
  /\ clients \subseteq Senders
  /\ acceptChan \in Seq(Senders)
  /\ accepted \subseteq Senders
  /\ acceptor \in {"waiting", "stopped"}
  /\ reader \in [Senders -> {"off", "reading", "busy", "gone"}]
  /\ connClosed \subseteq Senders
  /\ closing \in {"open", "marked", "sockClosed", "sweep", "done"}
  /\ node \in {"up", "closing", "closed"}
  /\ handed \in [Senders -> Seq(Nat)]
  /\ received \in [Senders -> Seq(Nat)]

Init ==
  /\ sent = [s \in Senders |-> 0]
  /\ sock = << >>
  /\ sockOpen = TRUE
  /\ loop = "read"
  /\ pkt = NoPacket
  /\ clients = {}
  /\ acceptChan = << >>
  /\ accepted = {}
  /\ acceptor = "waiting"
  /\ reader = [s \in Senders |-> "off"]
  /\ connClosed = {}
  /\ closing = "open"
  /\ node = "up"
  /\ handed = [s \in Senders |-> << >>]
  /\ received = [s \in Senders |-> << >>]

------------------------------------------------------------------------------
(* The network and the kernel's socket buffer. *)

(* s sends a datagram of n bytes (n = 0 is what a subnet probe sends).  It is *)
(* lost on the way, or by the kernel when its buffer is full or closed.       *)
Send(s, n) ==
  /\ sent[s] + n <= MaxBytes
  /\ sent' = [sent EXCEPT ![s] = @ + n]
  /\ LET d == [from |-> s, data |-> [i \in 1..n |-> sent[s] + i]]
     IN  \/ sock' = sock
         \/ sockOpen /\ Len(sock) < SockCap /\ sock' = Append(sock, d)
  /\ UNCHANGED <<sockOpen, loop, pkt, clients, acceptVars, reader, connClosed,
                 closeVars, histVars>>

------------------------------------------------------------------------------
(* readLoop. *)

(* Mutant: the lock is released after Write. *)
LoopHoldsLockWhileWriting == loop \in {"locked", "write"}

(* clientsMu is held by readLoop from its lookup to the end of registration. *)
LoopHoldsLock == loop = "locked"

(* ReadFromUDP returns a datagram. *)
Recv ==
  /\ loop = "read" /\ sockOpen /\ sock # << >>
  /\ pkt' = Head(sock)
  /\ sock' = Tail(sock)
  /\ loop' = "got"
  /\ UNCHANGED <<sent, sockOpen, clients, acceptVars, reader, connClosed,
                 closeVars, histVars>>

(* ReadFromUDP fails: the loop ends if Close has begun and otherwise calls it. *)
ReadFails ==
  /\ loop = "read"
  /\ loop' = IF closing = "open" THEN "closing" ELSE "done"
  /\ UNCHANGED <<netVars, pkt, clients, acceptVars, reader, connClosed,
                 closeVars, histVars>>

ReadAfterClose == ~sockOpen /\ ReadFails   \* the socket was closed
ReadError      == sockOpen /\ ReadFails    \* any other error of the socket

(* l.Close returns to readLoop, which ends. *)
LoopExit ==
  /\ loop = "closing" /\ closing = "done"
  /\ loop' = "done"
  /\ UNCHANGED <<netVars, pkt, clients, acceptVars, reader, connClosed,
                 closeVars, histVars>>

LoopLock ==
  /\ loop = "got" /\ closing # "sweep"
  /\ loop' = "locked"
  /\ UNCHANGED <<netVars, pkt, clients, acceptVars, reader, connClosed,
                 closeVars, histVars>>

(* Mutant: every datagram offers its connection, known sender or not. *)
RegisterOffersAlways ==
  /\ loop = "locked"
  /\ clients' = clients \cup {pkt.from}
  /\ acceptChan' = IF Len(acceptChan) < AcceptCap
                   THEN Append(acceptChan, pkt.from) ELSE acceptChan
  /\ handed' = [handed EXCEPT ![pkt.from] = @ \o pkt.data]
  /\ loop' = "write"
  /\ UNCHANGED <<netVars, pkt, accepted, acceptor, reader, connClosed,
                 closeVars, received>>

(* Mutant: acceptChan counts as full one entry too early. *)
RegisterOffByOne ==
  /\ loop = "locked"
  /\ clients' = clients \cup {pkt.from}
  /\ acceptChan' = IF pkt.from \notin clients /\ Len(acceptChan) + 1 < AcceptCap
                   THEN Append(acceptChan, pkt.from) ELSE acceptChan
  /\ handed' = [handed EXCEPT ![pkt.from] = @ \o pkt.data]
  /\ loop' = "write"
  /\ UNCHANGED <<netVars, pkt, accepted, acceptor, reader, connClosed,
                 closeVars, received>>

(* Look the sender up; a new one gets a connection, which is offered to      *)
(* Accept unless acceptChan is full.  The lock is released and Write begins. *)
Register ==
  /\ loop = "locked"
  /\ LET s == pkt.from IN
       /\ clients' = clients \cup {s}
       /\ acceptChan' = IF s \notin clients /\ Len(acceptChan) < AcceptCap
                        THEN Append(acceptChan, s)
                        ELSE acceptChan
       /\ handed' = [handed EXCEPT ![s] = @ \o pkt.data]
  /\ loop' = "write"
  /\ UNCHANGED <<netVars, pkt, accepted, acceptor, reader, connClosed,
                 closeVars, received>>

------------------------------------------------------------------------------
(* The pipe of a virtual connection: Write blocks until its bytes are read. *)

(* Mutant: as a datagram socket does, a Read discards what it has no room for. *)
PipeReadTruncates(s) ==
  /\ reader[s] = "reading" /\ s \notin connClosed
  /\ loop = "write" /\ pkt.from = s
  /\ LET n == IF ReadBuf < Len(pkt.data) THEN ReadBuf ELSE Len(pkt.data)
     IN  received' = [received EXCEPT ![s] = @ \o SubSeq(pkt.data, 1, n)]
  /\ pkt' = NoPacket /\ loop' = "read"
  /\ reader' = [reader EXCEPT ![s] = "busy"]
  /\ UNCHANGED <<netVars, clients, acceptVars, connClosed, closeVars, handed>>

(* The parser's Read meets the pending Write, takes what fits its buffer, and *)
(* Write returns when nothing is left.  An empty Write meets one Read too.    *)
PipeRead(s) ==
  /\ reader[s] = "reading" /\ s \notin connClosed
  /\ loop = "write" /\ pkt.from = s
  /\ LET n == IF ReadBuf < Len(pkt.data) THEN ReadBuf ELSE Len(pkt.data)
         rest == SubSeq(pkt.data, n + 1, Len(pkt.data))
     IN  /\ received' = [received EXCEPT ![s] = @ \o SubSeq(pkt.data, 1, n)]
         /\ IF rest = << >>
            THEN pkt' = NoPacket /\ loop' = "read"
            ELSE pkt' = [pkt EXCEPT !.data = rest] /\ loop' = loop
  /\ reader' = [reader EXCEPT ![s] = "busy"]
  /\ UNCHANGED <<netVars, clients, acceptVars, connClosed, closeVars, handed>>

(* Mutant: Write gives up although nobody closed the connection. *)
WriteGivesUp ==
  /\ loop = "write"
  /\ pkt' = NoPacket
  /\ loop' = "read"
  /\ UNCHANGED <<netVars, clients, acceptVars, reader, connClosed, closeVars,
                 histVars>>

(* Mutant: Close of a virtual connection does not wake the pending Write. *)
WriteNeverWoken == FALSE

(* Write on a closed connection fails; readLoop ignores the error. *)
PipeClosed ==
  /\ loop = "write" /\ pkt.from \in connClosed
  /\ pkt' = NoPacket
  /\ loop' = "read"
  /\ UNCHANGED <<netVars, clients, acceptVars, reader, connClosed, closeVars,
                 histVars>>

------------------------------------------------------------------------------
(* gomavlib: Accept and the readers. *)

(* Accept returns a connection; gomavlib starts to read it.  When the listener *)
(* is closed too, Accept's select may take either branch.                      *)
Accept ==
  /\ acceptor = "waiting" /\ acceptChan # << >>
  /\ accepted' = accepted \cup {Head(acceptChan)}
  /\ acceptChan' = Tail(acceptChan)
  /\ reader' = [reader EXCEPT ![Head(acceptChan)] = "reading"]
  /\ UNCHANGED <<netVars, loop, pkt, clients, acceptor, connClosed, closeVars,
                 histVars>>

(* Mutant: Accept returns a nil connection when the listener is closed. *)
AcceptReturnsNil ==
  /\ acceptor = "waiting" /\ closing # "open"
  /\ acceptor' = "stopped"
  /\ accepted' = accepted \cup {NoSender}
  /\ UNCHANGED <<netVars, loop, pkt, clients, acceptChan, reader,
                 connClosed, closeVars, histVars>>

(* Accept returns "listener closed", and gomavlib does not call it again. *)
AcceptFails ==
  /\ acceptor = "waiting" /\ closing # "open"
  /\ acceptor' = "stopped"
  /\ UNCHANGED <<netVars, loop, pkt, clients, acceptChan, accepted, reader,
                 connClosed, closeVars, histVars>>

(* The events of the last Read have been taken by the application. *)
ReadAgain(s) ==
  /\ reader[s] = "busy"
  /\ reader' = [reader EXCEPT ![s] = "reading"]
  /\ UNCHANGED <<netVars, loop, pkt, clients, acceptVars, connClosed,
                 closeVars, histVars>>

(* Read on a closed connection fails and its reader ends. *)
ReaderExit(s) ==
  /\ reader[s] = "reading" /\ s \in connClosed
  /\ reader' = [reader EXCEPT ![s] = "gone"]
  /\ UNCHANGED <<netVars, loop, pkt, clients, acceptVars, connClosed,
                 closeVars, histVars>>

(* gomavlib gives the channel up (a failed Write, or the node stops) and      *)
(* closes the connection.  The clients map keeps its entry.                    *)
ChannelFails(s) ==
  /\ reader[s] \in {"reading", "busy"}
  /\ connClosed' = connClosed \cup {s}
  /\ reader' = [reader EXCEPT ![s] = "gone"]
  /\ UNCHANGED <<netVars, loop, pkt, clients, acceptVars, closeVars, histVars>>

------------------------------------------------------------------------------
(* listener.Close. *)

(* The node shuts down and calls Close. *)
NodeClose ==
  /\ node = "up"
  /\ node' = "closing"
  /\ UNCHANGED <<netVars, loop, pkt, clients, acceptVars, reader, connClosed,
                 closing, histVars>>

NodeCloseReturns ==
  /\ node = "closing" /\ closing = "done"
  /\ node' = "closed"
  /\ UNCHANGED <<netVars, loop, pkt, clients, acceptVars, reader, connClosed,
                 closing, histVars>>

(* closeOnce lets the first caller in, which closes l.closed. *)
MarkClosed ==
  /\ closing = "open" /\ (node = "closing" \/ loop = "closing")
  /\ closing' = "marked"
  /\ UNCHANGED <<netVars, loop, pkt, clients, acceptVars, reader, connClosed,
                 node, histVars>>

(* Mutant: Close does not close the socket. *)
LeaveSocketOpen ==
  /\ closing = "marked"
  /\ closing' = "sockClosed"
  /\ UNCHANGED <<netVars, loop, pkt, clients, acceptVars, reader, connClosed,
                 node, histVars>>

(* l.conn.Close: the kernel drops what the socket still holds. *)
CloseSocket ==
  /\ closing = "marked"
  /\ closing' = "sockClosed"
  /\ sockOpen' = FALSE
  /\ sock' = << >>
  /\ UNCHANGED <<sent, loop, pkt, clients, acceptVars, reader, connClosed,
                 node, histVars>>

SweepLock ==
  /\ closing = "sockClosed" /\ ~LoopHoldsLock
  /\ closing' = "sweep"
  /\ UNCHANGED <<netVars, loop, pkt, clients, acceptVars, reader, connClosed,
                 node, histVars>>

SweepClient(s) ==
  /\ closing = "sweep" /\ s \in clients \ connClosed
  /\ connClosed' = connClosed \cup {s}
  /\ UNCHANGED <<netVars, loop, pkt, clients, acceptVars, reader, closeVars,
                 histVars>>

SweepUnlock ==
  /\ closing = "sweep" /\ clients \subseteq connClosed
  /\ closing' = "done"
  /\ UNCHANGED <<netVars, loop, pkt, clients, acceptVars, reader, connClosed,
                 node, histVars>>

------------------------------------------------------------------------------
Loop == Recv \/ ReadAfterClose \/ LoopExit \/ LoopLock \/ Register \/ PipeClosed

Closer == MarkClosed \/ CloseSocket \/ SweepLock \/ SweepUnlock
            \/ NodeCloseReturns \/ \E s \in Senders : SweepClient(s)

Reader(s) == PipeRead(s) \/ ReadAgain(s) \/ ReaderExit(s)

Next ==
  \/ \E s \in Senders, n \in 0..MaxLen : Send(s, n)
  \/ Loop \/ ReadError
  \/ \E s \in Senders : Reader(s) \/ ChannelFails(s)
  \/ Accept \/ AcceptFails
  \/ NodeClose \/ Closer

(* Goroutines that can run do run.  Nothing obliges a sender to send, the     *)
(* socket or a channel to fail, or the application to shut the node down.     *)
Fairness ==
  /\ WF_vars(Loop)
  /\ WF_vars(Closer)
  /\ WF_vars(Accept \/ AcceptFails)
  /\ \A s \in Senders : WF_vars(Reader(s))

Spec == Init /\ [][Next]_vars
FairSpec == Spec /\ Fairness
------------------------------------------------------------------------------
(* Properties. *)

(* The bytes of s that readLoop has begun to write and nobody has read. *)
InPipe(s) == IF loop = "write" /\ pkt.from = s THEN pkt.data ELSE << >>

(* Reassembly: what the parser reads from the connection of a sender is what   *)
(* that sender's datagrams held, in order, without a hole, a repetition or a   *)
(* byte of another sender, however reads cut the datagrams.  Bytes are missing *)
(* only at the end, and only from a connection that was closed.                *)
StreamIntegrity ==
  \A s \in Senders :
    /\ IsPrefix(received[s], handed[s])
    /\ s \notin connClosed => received[s] \o InPipe(s) = handed[s]

(* One parser per stream: a connection is offered to Accept once, so no two    *)
(* readers split the bytes of one sender between them.                         *)
OneReaderPerStream ==
  /\ \A i, j \in DOMAIN acceptChan : acceptChan[i] = acceptChan[j] => i = j
  /\ \A i \in DOMAIN acceptChan : acceptChan[i] \in clients \ accepted
  /\ accepted \subseteq clients
  /\ \A s \in Senders : reader[s] # "off" <=> s \in accepted

(* No sender is forgotten: every registered connection was offered to Accept.  *)
(* The "default:" branch that drops the offer when acceptChan is full is never *)
(* taken, because readLoop blocks in the pipe of a new connection until it has *)
(* been accepted and so never registers a second one behind it.                *)
EverySenderOffered ==
  \A s \in clients : s \in accepted \/ \E i \in DOMAIN acceptChan : acceptChan[i] = s

(* Close races with a datagram that readLoop has already taken off the socket: *)
(* the connection registered for it may escape the sweep, but it is the only   *)
(* one that can.                                                               *)
AtMostOneEscapesClose ==
  closing = "done" => \A r, s \in clients \ connClosed : r = s

(* The stream server implements one byte stream per sender. *)
Streams == INSTANCE SenderStreams
             WITH taken <- handed, delivered <- received, dead <- connClosed
ImplementsSenderStreams == Streams!Spec

(* Shutdown: Close returns to the node whatever readLoop is doing, blocked in  *)
(* the pipe of a connection nobody reads included.                             *)
CloseReturns == node = "closing" ~> node = "closed"

(* Every datagram taken off the socket is read to its end and readLoop gets    *)
(* back to the socket, so no sender waits for ever behind another one.         *)
LoopReturnsToSocket ==
  loop = "write" ~> (loop = "read" \/ closing # "open")

(* After Close, readLoop ends unless it holds a datagram whose connection the  *)
(* sweep did not close.                                                        *)
SweptLoopEnds ==
  (closing = "done" /\ (loop \in {"read", "closing"} \/ pkt.from \in connClosed))
    ~> loop = "done"
==============================================================================
