---------------------------- MODULE SenderStreams ----------------------------
(***************************************************************************)
(* What the UDP stream server promises the MAVLink parser, without sockets, *)
(* goroutines or locks: one ordered byte stream per remote sender.          *)
(*                                                                         *)
(* taken[s]      every byte of s the server has taken off the UDP socket    *)
(* delivered[s]  the bytes the parser has read from the stream of s         *)
(* dead          the senders whose stream is closed                         *)
(***************************************************************************)
EXTENDS Sequences, SequencesExt

CONSTANT Senders

VARIABLES taken, delivered, dead

vars == <<taken, delivered, dead>>

Init ==
  /\ taken     = [s \in Senders |-> << >>]
  /\ delivered = [s \in Senders |-> << >>]
  /\ dead      = {}

(* Only the stream of s changes, and it only grows. *)
Extends(new, old, s) ==
  /\ IsPrefix(old[s], new[s])
  /\ new = [old EXCEPT ![s] = new[s]]

(* A datagram of s is taken off the socket.  The server never holds a second *)
(* datagram: every stream that is still open has been read to its end.       *)
Take(s) ==
  /\ \A r \in Senders \ dead : delivered[r] = taken[r]
  /\ Extends(taken', taken, s)
  /\ UNCHANGED <<delivered, dead>>

(* The parser reads the next bytes of an open stream, and no others. *)
Deliver(s) ==
  /\ s \notin dead
  /\ Extends(delivered', delivered, s)
  /\ IsPrefix(delivered'[s], taken[s])
  /\ UNCHANGED <<taken, dead>>

(* The stream of s is closed; what was not read is lost. *)
Close(s) ==
  /\ dead' = dead \cup {s}
  /\ UNCHANGED <<taken, delivered>>

Next == \E s \in Senders : Take(s) \/ Deliver(s) \/ Close(s)

Spec == Init /\ [][Next]_vars
==============================================================================
