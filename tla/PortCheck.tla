------------------------------ MODULE PortCheck ------------------------------
(***************************************************************************)
(* CheckPort of internal/discovery/port_check.go: the local port is looked   *)
(* up in the table of UDP sockets, which is text, and bound for a test.      *)
(*                                                                         *)
(* A port number is the sequence of its digits, empty for the "*" of a       *)
(* socket that has no peer.                                                  *)
(***************************************************************************)
EXTENDS Naturals, Sequences, SequencesExt

CONSTANTS
  OurPort,     \* -port
  ListenIP,    \* -listen-address
  AnyIP        \* 0.0.0.0

ASSUME PortAssumption == OurPort \in Seq(0..9) /\ OurPort # << >>

(* s.LocalAddr or s.Raw, the line with both addresses, contains ":<port>": a     *)
(* number that begins with ours matches too, and so does a peer's.              *)
ContainsPort(s) ==
  IsPrefix(OurPort, s.local.port) \/ IsPrefix(OurPort, s.peer.port)

(* A socket of the host that keeps ours from being bound. *)
InTheWay(s) ==
  /\ s.local.port = OurPort
  /\ s.local.ip = ListenIP \/ AnyIP \in {s.local.ip, ListenIP}

CanBind(sockets) == \A s \in sockets : ~InTheWay(s)

(* The sockets with our port, each at its position in the table. *)
BoundSockets(table) == Restrict(table, {i \in DOMAIN table : ContainsPort(table[i])})

(* Mutant: the test bind alone decides. *)
CheckPortTrustsBind(table, sockets) ==
  [available |-> CanBind(sockets), bindOk |-> CanBind(sockets),
   bound |-> BoundSockets(table)]

(* table is what ScanUDPSockets found, sockets what there is. *)
CheckPort(table, sockets) ==
  LET bound == BoundSockets(table)
  IN  [available |-> DOMAIN bound = {} /\ CanBind(sockets),
       bindOk |-> CanBind(sockets), bound |-> bound]
==============================================================================
