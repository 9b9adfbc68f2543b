------------------------------- MODULE MCSurvey -------------------------------
(* The survey on small instances, for TLC.  Network 1 is loopback. *)
EXTENDS Survey

Port   == <<1, 4>>
Zero   == <<0, 0>>
Local  == <<2, 1>>
NoPeer == [ip |-> Zero, port |-> << >>]
At2(ip, port) == [local |-> [ip |-> ip, port |-> port], peer |-> NoPeer]

(* Our port on our address and on another, one whose number begins with it, a    *)
(* client of our port elsewhere, and an unrelated socket.                        *)
SomeSockets ==
  {At2(Local, Port), At2(<<1, 1>>, Port), At2(Zero, <<1, 4, 5>>),
   [local |-> [ip |-> Local, port |-> <<2>>], peer |-> [ip |-> <<3, 2>>, port |-> Port]],
   At2(Zero, <<2>>)}
Tables == {<< >>} \cup {<<s>> : s \in SomeSockets}
            \cup {<<At2(Zero, <<2>>), s>> : s \in SomeSockets}

Plain == [udp |-> TRUE, address |-> TRUE, table |-> << >>, listed |-> TRUE, probe |-> FALSE,
          skip |-> TRUE, json |-> FALSE, redact |-> FALSE, export |-> "none"]

TwoSockets == <<At2(<<1, 1>>, Port), At2(<<3, 2>>, <<2>>)>>

(* A probe whose result is reported; every table of sockets, listed or not; every  *)
(* form of report; and all that sniffer and monitor find, where it is redacted.   *)
Outputs == {[Plain EXCEPT !.json = j, !.redact = r, !.export = e] :
              j, r \in BOOLEAN, e \in {"none", "writable", "unwritable"}}
AllJobs ==
  {[Plain EXCEPT !.udp = FALSE, !.probe = TRUE, !.redact = TRUE, !.export = "writable"]}
    \cup {[Plain EXCEPT !.address = FALSE, !.table = t, !.listed = l] :
            t \in Tables, l \in BOOLEAN}
    \cup {[o EXCEPT !.skip = FALSE, !.table = TwoSockets] : o \in Outputs}
    \cup {[o EXCEPT !.address = FALSE, !.skip = FALSE, !.table = TwoSockets] :
            o \in {o \in Outputs : o.json /\ o.redact}}

(* Every network of 16 addresses, given by its first address or another. *)
AllNetworks ==
  {[ip |-> a, mask |-> m, valid |-> TRUE] :
     a \in Address, m \in {<<1, 1>>, <<1, 2>>, <<1, 4>>, <<2, 4>>, <<4, 4>>}}
    \cup {[ip |-> Zero, mask |-> <<1, 1>>, valid |-> FALSE]}
Interfaces == <<<<1, 1>>, Local, <<2>>>>
Route      == <<<<3, 1>>, <<2, 0>>>>
TwoSenders == {<<2, 2>>, <<1, 1>>}

(* A redacted report of a host whose port is taken. *)
RedactedConflict ==
  {[Plain EXCEPT !.table = <<At2(Local, Port)>>, !.redact = TRUE, !.export = "writable"]}
==============================================================================
