-------------------------------- MODULE Doctor --------------------------------
(***************************************************************************)
(* One run of the mavlink-doctor command: cmd/mavlink-doctor/main.go with    *)
(* the flags it parses, the raw sniffer it runs first, the endpoint it       *)
(* creates, the event loop and the report.  The program's goroutine moves    *)
(* through the phases; beside it other processes bind and release the local  *)
(* UDP port, packets and frames arrive, timers fire and the user interrupts. *)
(*                                                                         *)
(* What the frames do to the metrics is the business of Monitor, how the     *)
(* stream server feeds and closes, of UdpStreamServer.  Here they are counts. *)
(***************************************************************************)
EXTENDS Naturals, FiniteSets

CONSTANTS
  ArgSets,     \* the command lines the program is started with
  MaxPackets,  \* bound: datagrams the sniffer counts
  MaxFrames    \* bound: frames the monitor counts

(* A command line that asks for neither help nor the version: -address and      *)
(* -serial are given or not, and the report file is "none", "writable" or       *)
(* "unwritable".  -listen-address is an address this computer has, or the        *)
(* wildcard ("own"), an address it does not have ("foreign"), no address but a    *)
(* name of an own one ("name"), or neither address nor such a name ("wrong").     *)
(* -dialect is left out: ParseFlags accepts exactly the names GetDialect knows.   *)
CommandLine ==
  [transport : {"auto", "udp", "tcp", "serial", "broadcast"},
   mode      : {"auto", "server", "client"},
   address   : BOOLEAN, serial : BOOLEAN, streamServer : BOOLEAN,
   skip      : BOOLEAN, report : {"none", "writable", "unwritable"},
   json      : BOOLEAN, listen : {"own", "foreign", "name", "wrong"}]

ASSUME DoctorAssumption ==
  /\ ArgSets \subseteq CommandLine
  /\ MaxPackets \in Nat /\ MaxFrames \in Nat

VARIABLES
  args,         \* the command line
  phase,        \* where main is
  owner,        \* who has the local UDP port bound
  listed,       \* ScanUDPSockets found the port in use
  portStatus,   \* discReport.PortStatus
  raw,          \* rawSummary: "none" for nil
  rawPackets,   \* rawSummary.TotalPackets
  endpoint,     \* the endpoint CreateEndpoint made
  frames,       \* TotalFrames
  timerFired,   \* testTimer.C is ready
  interrupted,  \* ctx is done
  written,      \* the report file was written
  shown,        \* what the terminal reported
  disturbed     \* history: another process took the port since CheckPort

portVars   == <<owner, listed, portStatus, disturbed>>
testVars   == <<endpoint, frames, timerFired>>
reportVars == <<written, shown>>
vars == <<args, phase, portVars, raw, rawPackets, testVars, interrupted,
          reportVars>>

UdpServers == {"udpStreamServer", "udpServer"}
Servers    == UdpServers \cup {"tcpServer"}
Clients    == {"udpStreamClient", "tcpClient"}
Endpoints  == Servers \cup Clients \cup {"serial", "broadcast"}

Init ==
  /\ args \in ArgSets
  /\ phase = "parse"
  /\ owner \in {"free", "other"}
  /\ listed = FALSE
  /\ portStatus = "none"
  /\ raw = "none"
  /\ rawPackets = 0
  /\ endpoint = "none"
  /\ frames = 0
  /\ timerFired = FALSE
  /\ interrupted = FALSE
  /\ written = FALSE
  /\ shown = {}
  /\ disturbed = FALSE

TypeOK ==
  /\ args \in ArgSets
  /\ phase \in {"parse", "scan", "check", "bindRaw", "sniff", "configure",
                "initialize", "monitor", "closing", "export", "print", "exited"}
  /\ owner \in {"free", "other", "sniffer", "node"}
  /\ portStatus \in {"none", "available", "conflict"}
  /\ raw \in {"none", "failed", "listening", "done"}
  /\ rawPackets \in 0..MaxPackets
  /\ endpoint \in Endpoints \cup {"none"}
  /\ frames \in 0..MaxFrames
  /\ listed \in BOOLEAN /\ disturbed \in BOOLEAN
  /\ timerFired \in BOOLEAN /\ interrupted \in BOOLEAN /\ written \in BOOLEAN
  /\ shown \subseteq {"endpoint failed", "node failed", "export failed",
                "saved", "exported"}

Show(what) == shown' = IF args.json THEN shown ELSE shown \cup {what}

------------------------------------------------------------------------------
(* ParseFlags and the discovery phase. *)

(* Mutant: an explicit client is accepted without an address. *)
AcceptsClientWithoutAddress(a) == ~(a.transport = "serial" /\ a.mode = "server")

Accepts(a) ==
  /\ ~(a.transport = "serial" /\ a.mode = "server")
  /\ ~(a.transport \in {"tcp", "udp"} /\ a.mode = "client" /\ ~a.address)

ParseFlags ==
  /\ phase = "parse"
  /\ phase' = IF Accepts(args) THEN "scan" ELSE "exited"
  /\ UNCHANGED <<args, portVars, raw, rawPackets, testVars, interrupted, reportVars>>

(* The table of sockets is text: it may be missing, and a port whose number     *)
(* begins with ours matches too, so what it says of the port is no more than a  *)
(* hint.                                                                        *)
ScanUDPSockets ==
  /\ phase = "scan"
  /\ listed' \in BOOLEAN
  /\ phase' = IF args.transport \in {"auto", "udp"} THEN "check" ELSE "bindRaw"
  /\ UNCHANGED <<args, owner, portStatus, disturbed, raw, rawPackets, testVars,
                 interrupted, reportVars>>

(* Mutant: the table is trusted, no socket is bound. *)
CheckPortTrustsTable ==
  /\ phase = "check"
  /\ portStatus' = IF listed THEN "conflict" ELSE "available"
  /\ disturbed' = FALSE
  /\ phase' = "bindRaw"
  /\ UNCHANGED <<args, owner, listed, raw, rawPackets, testVars, interrupted,
                 reportVars>>

(* The sniffer and the test bind of CheckPort take what does not parse as an IP  *)
(* address for the wildcard address.                                            *)
WildcardOrOwn(a) == a.listen # "foreign"

(* The port is available when no socket was listed on it and a test bind, which *)
(* is undone at once, succeeds now.                                            *)
CheckPort ==
  /\ phase = "check"
  /\ portStatus' = IF ~listed /\ owner = "free" /\ WildcardOrOwn(args)
                   THEN "available" ELSE "conflict"
  /\ disturbed' = FALSE
  /\ phase' = "bindRaw"
  /\ UNCHANGED <<args, owner, listed, raw, rawPackets, testVars, interrupted,
                 reportVars>>

------------------------------------------------------------------------------
(* ListenRawUDP. *)

AfterSniffer == IF args.skip THEN "export" ELSE "configure"

(* A failure to bind is kept in the summary; main discards the error. *)
BindRaw ==
  /\ phase = "bindRaw"
  /\ IF args.transport \in {"auto", "udp"} /\ ~args.address
     THEN IF owner = "free" /\ WildcardOrOwn(args)
          THEN owner' = "sniffer" /\ raw' = "listening" /\ phase' = "sniff"
          ELSE owner' = owner /\ raw' = "failed" /\ phase' = AfterSniffer
     ELSE owner' = owner /\ raw' = raw /\ phase' = AfterSniffer
  /\ UNCHANGED <<args, listed, portStatus, disturbed, rawPackets, testVars,
                 interrupted, reportVars>>

SniffPacket ==
  /\ phase = "sniff" /\ rawPackets < MaxPackets
  /\ rawPackets' = rawPackets + 1
  /\ UNCHANGED <<args, phase, portVars, raw, testVars, interrupted, reportVars>>

(* Mutant: the socket of the sniffer is not closed. *)
SniffEndsLeaky ==
  /\ phase = "sniff"
  /\ raw' = "done"
  /\ phase' = AfterSniffer
  /\ UNCHANGED <<args, portVars, rawPackets, testVars, interrupted, reportVars>>

(* The read deadline passes, or the socket fails; an interrupt is not noticed. *)
SniffEnds ==
  /\ phase = "sniff"
  /\ owner' = "free"
  /\ raw' = "done"
  /\ phase' = AfterSniffer
  /\ UNCHANGED <<args, listed, portStatus, disturbed, rawPackets, testVars,
                 interrupted, reportVars>>

------------------------------------------------------------------------------
(* runMavlinkTest. *)

(* Mutant: with an address the program is a client, whatever -mode says. *)
ResolvedModeIgnoresFlag(a) == IF a.address THEN "client" ELSE "server"

ResolvedMode(a) ==
  IF a.transport = "auto" \/ a.mode = "auto"
  THEN IF a.address THEN "client" ELSE "server"
  ELSE a.mode

(* Mutant: the transport names the endpoint. *)
EndpointByTransport(a) ==
  IF a.transport = "serial" /\ ~a.serial THEN "none" ELSE a.transport

(* CreateEndpoint, or "none" where it returns an error. *)
EndpointFor(a) ==
  LET mode == ResolvedMode(a)
  IN  CASE a.transport \in {"auto", "udp"} /\ mode = "server" ->
             IF a.streamServer THEN "udpStreamServer" ELSE "udpServer"
        [] a.transport \in {"auto", "udp"} /\ mode = "client" -> "udpStreamClient"
        [] a.transport = "tcp" ->
             IF mode = "server" THEN "tcpServer" ELSE "tcpClient"
        [] a.transport = "serial" ->
             IF mode = "client" /\ a.serial THEN "serial" ELSE "none"
        [] a.transport = "broadcast" -> "broadcast"

CreateEndpoint ==
  /\ phase = "configure"
  /\ endpoint' = EndpointFor(args)
  /\ IF endpoint' = "none"
     THEN phase' = "export" /\ Show("endpoint failed")
     ELSE phase' = "initialize" /\ UNCHANGED shown
  /\ UNCHANGED <<args, portVars, raw, rawPackets, frames, timerFired,
                 interrupted, written>>

(* Endpoints that bind the local UDP port. *)
BindsPort(e) == e \in UdpServers \cup {"broadcast"}

(* A server resolves the listen address, by name if need be, and binds that.   *)
ResolvesToOwn(a) == a.listen \in {"own", "name"}

(* node.Initialize: it binds the port, or opens what is not modelled here, the *)
(* serial device and the TCP port, which may fail.                             *)
InitializeNode ==
  /\ phase = "initialize"
  /\ \/ /\ endpoint \in Servers \cup {"broadcast"} => ResolvesToOwn(args)
        /\ BindsPort(endpoint) => owner = "free"
        /\ owner' = IF BindsPort(endpoint) THEN "node" ELSE owner
        /\ phase' = "monitor"
        /\ UNCHANGED shown
     \/ /\ endpoint \in UdpServers => owner # "free" \/ ~ResolvesToOwn(args)
        /\ phase' = "export"
        /\ Show("node failed")
        /\ UNCHANGED owner
  /\ UNCHANGED <<args, listed, portStatus, disturbed, raw, rawPackets, testVars,
                 interrupted, written>>

MonitorFrame ==
  /\ phase = "monitor" /\ frames < MaxFrames
  /\ frames' = frames + 1
  /\ UNCHANGED <<args, phase, portVars, raw, rawPackets, endpoint, timerFired,
                 interrupted, reportVars>>

(* Mutant: the loop waits for the timer alone. *)
MonitorEndsDeaf ==
  /\ phase = "monitor" /\ timerFired
  /\ phase' = "closing"
  /\ UNCHANGED <<args, portVars, raw, rawPackets, testVars, interrupted, reportVars>>

(* Mutant: the loop has no timer. *)
MonitorEndsUntimed ==
  /\ phase = "monitor" /\ interrupted
  /\ phase' = "closing"
  /\ UNCHANGED <<args, portVars, raw, rawPackets, testVars, interrupted, reportVars>>

(* select takes testTimer.C or ctx.Done(); the node closes its events only when *)
(* it is closed.                                                               *)
MonitorEnds ==
  /\ phase = "monitor" /\ (timerFired \/ interrupted)
  /\ phase' = "closing"
  /\ UNCHANGED <<args, portVars, raw, rawPackets, testVars, interrupted, reportVars>>

(* The deferred node.Close. *)
CloseNode ==
  /\ phase = "closing"
  /\ owner' = IF owner = "node" THEN "free" ELSE owner
  /\ phase' = "export"
  /\ UNCHANGED <<args, listed, portStatus, disturbed, raw, rawPackets, testVars,
                 interrupted, reportVars>>

------------------------------------------------------------------------------
(* The report. *)

ExportSupportReport ==
  /\ phase = "export"
  /\ written' = (args.report = "writable")
  /\ IF args.report = "unwritable" THEN Show("export failed") ELSE UNCHANGED shown
  /\ phase' = "print"
  /\ UNCHANGED <<args, portVars, raw, rawPackets, testVars, interrupted>>

(* PrintJSON, or PrintMAVLinkSummary, which names the report file on both its   *)
(* paths, the early return when no frame came and the full summary.            *)
PrintSummary ==
  /\ phase = "print"
  /\ IF args.report # "none"
     THEN Show(IF frames = 0 THEN "saved" ELSE "exported")
     ELSE UNCHANGED shown
  /\ phase' = "exited"
  /\ UNCHANGED <<args, portVars, raw, rawPackets, testVars, interrupted, written>>

------------------------------------------------------------------------------
(* The world around the program. *)

OtherBinds ==
  /\ owner = "free"
  /\ owner' = "other"
  /\ disturbed' = TRUE
  /\ UNCHANGED <<args, phase, listed, portStatus, raw, rawPackets, testVars,
                 interrupted, reportVars>>

OtherReleases ==
  /\ owner = "other"
  /\ owner' = "free"
  /\ UNCHANGED <<args, phase, listed, portStatus, disturbed, raw, rawPackets,
                 testVars, interrupted, reportVars>>

TimerFires ==
  /\ phase = "monitor" /\ ~timerFired
  /\ timerFired' = TRUE
  /\ UNCHANGED <<args, phase, portVars, raw, rawPackets, endpoint, frames,
                 interrupted, reportVars>>

(* SIGINT or SIGTERM, once NotifyContext catches them. *)
Interrupt ==
  /\ phase \notin {"parse", "exited"} /\ ~interrupted
  /\ interrupted' = TRUE
  /\ UNCHANGED <<args, phase, portVars, raw, rawPackets, testVars, reportVars>>

Main ==
  \/ ParseFlags \/ ScanUDPSockets \/ CheckPort \/ BindRaw \/ SniffEnds
  \/ CreateEndpoint \/ InitializeNode \/ MonitorEnds \/ CloseNode
  \/ ExportSupportReport \/ PrintSummary

Next ==
  \/ Main \/ SniffPacket \/ MonitorFrame
  \/ TimerFires \/ Interrupt \/ OtherBinds \/ OtherReleases

Spec == Init /\ [][Next]_vars

(* main goes on when it can: its system calls return, the deadline of the       *)
(* sniffer passes, and select, which chooses at random, does not prefer frames  *)
(* to a ready timer or context for ever.  node.Close returns: UdpStreamServer   *)
(* shows it of the listener (CloseReturns).                                     *)
FairSpec == Spec /\ WF_vars(Main)
------------------------------------------------------------------------------
(* Properties. *)

(* The sniffer and the node hold the port only while they run, on every path    *)
(* out of them, so the program never stands in its own way and leaves no        *)
(* socket behind.                                                              *)
PortReleased ==
  /\ owner = "sniffer" => phase = "sniff"
  /\ owner = "node" => phase \in {"monitor", "closing"} /\ BindsPort(endpoint)

(* "Available (No socket conflicts)" means what it says: unless another process *)
(* took the port since, the sniffer could bind it, and so could the server       *)
(* after it, given a listen address that is one.  Nothing is said of the server   *)
(* for what is neither an address nor a name of this computer: CheckPort tries    *)
(* the wildcard address in its place, and the server cannot start.               *)
AvailableMeansBindable ==
  portStatus = "available" /\ ~disturbed =>
    /\ raw # "failed"
    /\ endpoint \in UdpServers /\ args.listen # "wrong" => "node failed" \notin shown

(* The sniffer runs in local server mode: what it hears on the port is what the *)
(* monitor will serve, never the port of a client, because ParseFlags rejects   *)
(* what the mode resolution of runMavlinkTest would get wrong.                  *)
SniffsWhatItServes ==
  raw # "none" /\ endpoint # "none" => endpoint \in UdpServers

(* -mode is obeyed where -transport is udp or tcp, and no client is started      *)
(* without an address to connect to.                                            *)
ModeObeyed ==
  /\ args.transport \in {"udp", "tcp"} /\ args.mode # "auto" /\ endpoint # "none" =>
       endpoint \in IF args.mode = "server" THEN Servers ELSE Clients
  /\ endpoint \in Clients => args.address

(* Every run ends if time passes: no failure of a phase, no traffic and no       *)
(* other process keeps the program from its report and its end.                 *)
TimePasses == WF_vars(TimerFires)
EveryRunEnds == TimePasses => <>(phase = "exited")

(* An interrupt ends the run however long -listen is and however many frames    *)
(* arrive, once the sniffer, which does not notice it, is done.                 *)
InterruptEndsRun == interrupted ~> phase = "exited"

(* "mavlink-doctor -transport serial -serial /dev/ttyUSB0 -baud 57600"          *)
(* (README.md:81, docs/HARDWARE_GUIDE.md:39 and terminal.go:218): the command   *)
(* the documents give for a serial radio gets an endpoint.                      *)
SerialCommandWorks ==
  args.transport = "serial" /\ args.mode = "auto" /\ args.serial =>
    "endpoint failed" \notin shown

(* "Detailed diagnostic report saved to: ..." (terminal.go:149) when no frame     *)
(* came, "Full diagnostic report exported to: ..." (terminal.go:205) otherwise:   *)
(* the file the terminal names was written.                                      *)
ReportedExportExists == shown \cap {"saved", "exported"} # {} => written
==============================================================================
