--------------------------- MODULE UdpStreamReopen ---------------------------
(* The stream server with a history of when each sender's connection was       *)
(* closed, to tell the datagrams sent before from those sent after.  The       *)
(* server itself is UdpStreamServer, unchanged.                                *)
EXTENDS UdpStreamServer

VARIABLE
  sentAtClose  \* history: bytes a sender had sent when its connection closed

ReopenInit == Init /\ sentAtClose = [s \in Senders |-> MaxBytes]

ReopenNext ==
  /\ Next
  /\ sentAtClose' = [s \in Senders |-> IF s \in connClosed' \ connClosed
                                        THEN sent[s] ELSE sentAtClose[s]]

ReopenSpec == ReopenInit /\ [][ReopenNext]_<<vars, sentAtClose>>

(* Every byte of the datagram readLoop handles was sent after the connection   *)
(* of its sender had been closed.                                              *)
SentAfterClose ==
  pkt.data # << >> /\ Head(pkt.data) > sentAtClose[pkt.from]

(* A sender that goes on sending after its connection was closed is heard      *)
(* again while the listener is open: a datagram it sent after the close leaves *)
(* readLoop only by being read to its end ("demux packets per remote sender    *)
(* and reassemble continuous byte streams", docs/ARCHITECTURE.md:42).  What    *)
(* was pending when the connection closed may be lost.                         *)
LaterDatagramsDelivered ==
  [][loop = "write" /\ loop' = "read" /\ closing = "open" /\ SentAfterClose
       => received'[pkt.from] = handed[pkt.from]]_<<vars, sentAtClose>>
==============================================================================
