------------------------------ MODULE MCDoctor ------------------------------
(* Runs of the program on sets of command lines, for TLC. *)
EXTENDS Doctor

(* Every combination of the options that choose a path.  The stream server, the *)
(* listen address and the report options are varied one at a time.              *)
Plain == {a \in CommandLine : a.streamServer /\ a.report = "none" /\ ~a.json
                              /\ a.listen = "own"}
Typical == [transport |-> "udp", mode |-> "auto", address |-> FALSE,
            serial |-> FALSE, streamServer |-> TRUE, skip |-> FALSE,
            report |-> "writable", json |-> FALSE, listen |-> "own"]
Reports == {[Typical EXCEPT !.report = r, !.json = j] :
              r \in {"none", "writable", "unwritable"}, j \in BOOLEAN}
Listens == {[Typical EXCEPT !.listen = l, !.transport = t, !.streamServer = s] :
              l \in {"own", "foreign", "name", "wrong"},
              t \in {"udp", "tcp", "broadcast"}, s \in BOOLEAN}
AllLines == Plain \cup Reports \cup Listens

SerialLine == {[Typical EXCEPT !.transport = "serial", !.serial = TRUE]}
==============================================================================
