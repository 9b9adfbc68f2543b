----------------------------- MODULE DoctorProofs -----------------------------
(***************************************************************************)
(* Proofs of the safety properties of Doctor for every set of command lines *)
(* and every number of packets and frames.  PortReleased is inductive; the   *)
(* others need to know which command lines get as far as they got (Reached), *)
(* what has not happened yet (NotYet), and that a port found available stays  *)
(* so while no other process takes it, on an address the sniffer can bind     *)
(* (PortKept).                                                               *)
(***************************************************************************)
EXTENDS Doctor, TLAPS

Before    == {"parse", "scan", "check", "bindRaw"}
BeforeCfg == Before \cup {"sniff", "configure"}

NotYet ==
  /\ phase \in Before => raw = "none"
  /\ phase = "sniff" => raw = "listening"
  /\ phase \in BeforeCfg => endpoint = "none"
  /\ phase \in BeforeCfg \cup {"initialize"} => "node failed" \notin shown

Reached ==
  /\ phase \notin {"parse", "exited"} => Accepts(args)
  /\ raw # "none" => args.transport \in {"auto", "udp"} /\ ~args.address
  /\ endpoint # "none" => Accepts(args) /\ endpoint = EndpointFor(args)

PortKept ==
  portStatus = "available" /\ ~disturbed => owner # "other" /\ WildcardOrOwn(args)

IInv ==
  /\ TypeOK /\ PortReleased /\ NotYet /\ Reached /\ PortKept
  /\ AvailableMeansBindable

------------------------------------------------------------------------------
(* CreateEndpoint makes one of the known endpoints or none. *)
LEMMA EndpointKinds ==
  ASSUME NEW a \in CommandLine
  PROVE  EndpointFor(a) \in Endpoints \cup {"none"}
<1>1. a.transport \in {"auto", "udp", "tcp", "serial", "broadcast"}
      /\ a.mode \in {"auto", "server", "client"}
  BY DEF CommandLine
<1>2. ResolvedMode(a) \in {"server", "client"}
  BY <1>1 DEF ResolvedMode
<1> QED
  BY <1>1, <1>2 DEF EndpointFor, Endpoints, Servers, UdpServers, Clients

(* A command line that sniffs and is accepted serves the port. *)
LEMMA SnifferServes ==
  ASSUME NEW a \in CommandLine, Accepts(a),
         a.transport \in {"auto", "udp"}, ~a.address
  PROVE  EndpointFor(a) \in UdpServers
<1>1. a.mode \in {"auto", "server", "client"}
  BY DEF CommandLine
<1>2. ResolvedMode(a) = "server"
  BY <1>1 DEF ResolvedMode, Accepts
<1> QED
  BY <1>2 DEF EndpointFor, UdpServers

(* An accepted command line gets the mode it asks for, and an address for a     *)
(* client.                                                                      *)
LEMMA AcceptedMode ==
  ASSUME NEW a \in CommandLine, Accepts(a)
  PROVE  /\ a.transport \in {"udp", "tcp"} /\ a.mode # "auto" /\ EndpointFor(a) # "none" =>
              EndpointFor(a) \in IF a.mode = "server" THEN Servers ELSE Clients
         /\ EndpointFor(a) \in Clients => a.address
<1>1. a.transport \in {"auto", "udp", "tcp", "serial", "broadcast"}
      /\ a.mode \in {"auto", "server", "client"}
      /\ a.address \in BOOLEAN
  BY DEF CommandLine
<1>2. ResolvedMode(a) \in {"server", "client"}
  BY <1>1 DEF ResolvedMode
<1>3. ResolvedMode(a) = "client" => a.address \/ (a.mode = "client" /\ a.transport # "auto")
  BY <1>1 DEF ResolvedMode
<1>4. EndpointFor(a) \in Clients => a.transport \in {"auto", "udp", "tcp"}
                                    /\ ResolvedMode(a) = "client"
  BY <1>1, <1>2 DEF EndpointFor, Clients
<1>5. EndpointFor(a) \in Clients => a.address
  BY <1>1, <1>3, <1>4 DEF Accepts
<1>6. ASSUME a.transport \in {"udp", "tcp"}, a.mode # "auto"
      PROVE  EndpointFor(a) \in IF a.mode = "server" THEN Servers ELSE Clients
  <2>1. ResolvedMode(a) = a.mode
    BY <1>6 DEF ResolvedMode
  <2> QED
    BY <1>1, <1>6, <2>1 DEF EndpointFor, Servers, UdpServers, Clients
<1> QED
  BY <1>5, <1>6

------------------------------------------------------------------------------
(* TypeOK in two parts, the one that says where the run is and the rest. *)
ControlType ==
  /\ args \in ArgSets
  /\ phase \in {"parse", "scan", "check", "bindRaw", "sniff", "configure",
                "initialize", "monitor", "closing", "export", "print", "exited"}
  /\ owner \in {"free", "other", "sniffer", "node"}
  /\ portStatus \in {"none", "available", "conflict"}
  /\ raw \in {"none", "failed", "listening", "done"}
  /\ endpoint \in Endpoints \cup {"none"}
  /\ shown \subseteq {"endpoint failed", "node failed", "export failed",
                "saved", "exported"}

DataType ==
  /\ rawPackets \in 0..MaxPackets
  /\ frames \in 0..MaxFrames
  /\ listed \in BOOLEAN /\ disturbed \in BOOLEAN
  /\ timerFired \in BOOLEAN /\ interrupted \in BOOLEAN /\ written \in BOOLEAN

LEMMA TypeParts == TypeOK <=> ControlType /\ DataType
BY DEF TypeOK, ControlType, DataType

LEMMA InitIInv == Init => IInv
<1> SUFFICES ASSUME Init PROVE IInv
  OBVIOUS
<1>1. TypeOK
  <2>1. /\ args \in ArgSets /\ phase = "parse" /\ owner \in {"free", "other"}
        /\ portStatus = "none" /\ raw = "none" /\ endpoint = "none" /\ shown = {}
    BY DEF Init
  <2>2. rawPackets \in 0..MaxPackets /\ frames \in 0..MaxFrames
    BY DoctorAssumption DEF Init
  <2>3. /\ listed \in BOOLEAN /\ disturbed \in BOOLEAN
        /\ timerFired \in BOOLEAN /\ interrupted \in BOOLEAN /\ written \in BOOLEAN
    BY DEF Init
  <2> QED
    BY <2>1, <2>2, <2>3 DEF TypeOK
<1>2. PortReleased /\ NotYet /\ Reached /\ PortKept /\ AvailableMeansBindable
  BY DEF Init, PortReleased, NotYet, Before, BeforeCfg, Reached, PortKept,
         AvailableMeansBindable
<1> QED
  BY <1>1, <1>2 DEF IInv

LEMMA ControlStep ==
  ASSUME ControlType, [Next]_vars
  PROVE  ControlType'
<1> USE DEF ControlType, portVars, testVars, reportVars
<1>1. CASE ParseFlags
  BY <1>1 DEF ParseFlags
<1>2. CASE ScanUDPSockets
  BY <1>2 DEF ScanUDPSockets
<1>3. CASE CheckPort
  BY <1>3 DEF CheckPort
<1>4. CASE BindRaw
  BY <1>4 DEF BindRaw, AfterSniffer
<1>5. CASE SniffEnds
  BY <1>5 DEF SniffEnds, AfterSniffer
<1>6. CASE CreateEndpoint
  BY <1>6, EndpointKinds, DoctorAssumption DEF CreateEndpoint, Show
<1>7. CASE InitializeNode
  BY <1>7 DEF InitializeNode, Show, BindsPort
<1>8. CASE MonitorEnds
  BY <1>8 DEF MonitorEnds
<1>9. CASE CloseNode
  BY <1>9 DEF CloseNode
<1>10. CASE ExportSupportReport
  BY <1>10 DEF ExportSupportReport, Show
<1>11. CASE PrintSummary
  BY <1>11 DEF PrintSummary, Show
<1>12. CASE SniffPacket
  BY <1>12 DEF SniffPacket
<1>13. CASE MonitorFrame
  BY <1>13 DEF MonitorFrame
<1>14. CASE TimerFires
  BY <1>14 DEF TimerFires
<1>15. CASE Interrupt
  BY <1>15 DEF Interrupt
<1>16. CASE OtherBinds
  BY <1>16 DEF OtherBinds
<1>17. CASE OtherReleases
  BY <1>17 DEF OtherReleases
<1>18. CASE UNCHANGED vars
  BY <1>18 DEF vars
<1> QED
  BY <1>1, <1>2, <1>3, <1>4, <1>5, <1>6, <1>7, <1>8, <1>9, <1>10, <1>11,
     <1>12, <1>13, <1>14, <1>15, <1>16, <1>17, <1>18 DEF Next, Main

LEMMA DataStep ==
  ASSUME DataType, [Next]_vars
  PROVE  DataType'
<1> USE DoctorAssumption DEF DataType, portVars, testVars, reportVars
<1>1. CASE ParseFlags
  BY <1>1 DEF ParseFlags
<1>2. CASE ScanUDPSockets
  BY <1>2 DEF ScanUDPSockets
<1>3. CASE CheckPort
  BY <1>3 DEF CheckPort
<1>4. CASE BindRaw
  BY <1>4 DEF BindRaw, AfterSniffer
<1>5. CASE SniffEnds
  BY <1>5 DEF SniffEnds, AfterSniffer
<1>6. CASE CreateEndpoint
  BY <1>6 DEF CreateEndpoint, Show
<1>7. CASE InitializeNode
  BY <1>7 DEF InitializeNode, Show, BindsPort
<1>8. CASE MonitorEnds
  BY <1>8 DEF MonitorEnds
<1>9. CASE CloseNode
  BY <1>9 DEF CloseNode
<1>10. CASE ExportSupportReport
  BY <1>10 DEF ExportSupportReport, Show
<1>11. CASE PrintSummary
  BY <1>11 DEF PrintSummary, Show
<1>12. CASE SniffPacket
  BY <1>12 DEF SniffPacket
<1>13. CASE MonitorFrame
  BY <1>13 DEF MonitorFrame
<1>14. CASE TimerFires
  BY <1>14 DEF TimerFires
<1>15. CASE Interrupt
  BY <1>15 DEF Interrupt
<1>16. CASE OtherBinds
  BY <1>16 DEF OtherBinds
<1>17. CASE OtherReleases
  BY <1>17 DEF OtherReleases
<1>18. CASE UNCHANGED vars
  BY <1>18 DEF vars
<1> QED
  BY <1>1, <1>2, <1>3, <1>4, <1>5, <1>6, <1>7, <1>8, <1>9, <1>10, <1>11,
     <1>12, <1>13, <1>14, <1>15, <1>16, <1>17, <1>18 DEF Next, Main

LEMMA ReleasedStep ==
  ASSUME TypeOK, NotYet, PortReleased, [Next]_vars
  PROVE  PortReleased'
<1> USE DEF PortReleased, portVars, testVars, reportVars
<1>1. CASE ParseFlags
  BY <1>1 DEF ParseFlags
<1>2. CASE ScanUDPSockets
  BY <1>2 DEF ScanUDPSockets
<1>3. CASE CheckPort
  BY <1>3 DEF CheckPort
<1>4. CASE BindRaw
  BY <1>4 DEF BindRaw, AfterSniffer
<1>5. CASE SniffEnds
  BY <1>5 DEF SniffEnds, AfterSniffer
<1>6. CASE CreateEndpoint
  BY <1>6 DEF CreateEndpoint, Show
<1>7. CASE InitializeNode
  BY <1>7 DEF InitializeNode, Show, BindsPort
<1>8. CASE MonitorEnds
  BY <1>8 DEF MonitorEnds
<1>9. CASE CloseNode
  BY <1>9 DEF CloseNode
<1>10. CASE ExportSupportReport
  BY <1>10 DEF ExportSupportReport, Show
<1>11. CASE PrintSummary
  BY <1>11 DEF PrintSummary, Show
<1>12. CASE SniffPacket
  BY <1>12 DEF SniffPacket
<1>13. CASE MonitorFrame
  BY <1>13 DEF MonitorFrame
<1>14. CASE TimerFires
  BY <1>14 DEF TimerFires
<1>15. CASE Interrupt
  BY <1>15 DEF Interrupt
<1>16. CASE OtherBinds
  BY <1>16 DEF OtherBinds
<1>17. CASE OtherReleases
  BY <1>17 DEF OtherReleases
<1>18. CASE UNCHANGED vars
  BY <1>18 DEF vars
<1> QED
  BY <1>1, <1>2, <1>3, <1>4, <1>5, <1>6, <1>7, <1>8, <1>9, <1>10, <1>11,
     <1>12, <1>13, <1>14, <1>15, <1>16, <1>17, <1>18 DEF Next, Main

LEMMA NotYetStep ==
  ASSUME NotYet, [Next]_vars
  PROVE  NotYet'
<1> USE DEF NotYet, Before, BeforeCfg, portVars, testVars, reportVars
<1>1. CASE ParseFlags
  BY <1>1 DEF ParseFlags
<1>2. CASE ScanUDPSockets
  BY <1>2 DEF ScanUDPSockets
<1>3. CASE CheckPort
  BY <1>3 DEF CheckPort
<1>4. CASE BindRaw
  BY <1>4 DEF BindRaw, AfterSniffer
<1>5. CASE SniffEnds
  BY <1>5 DEF SniffEnds, AfterSniffer
<1>6. CASE CreateEndpoint
  BY <1>6 DEF CreateEndpoint, Show
<1>7. CASE InitializeNode
  BY <1>7 DEF InitializeNode, Show, BindsPort
<1>8. CASE MonitorEnds
  BY <1>8 DEF MonitorEnds
<1>9. CASE CloseNode
  BY <1>9 DEF CloseNode
<1>10. CASE ExportSupportReport
  BY <1>10 DEF ExportSupportReport, Show
<1>11. CASE PrintSummary
  BY <1>11 DEF PrintSummary, Show
<1>12. CASE SniffPacket
  BY <1>12 DEF SniffPacket
<1>13. CASE MonitorFrame
  BY <1>13 DEF MonitorFrame
<1>14. CASE TimerFires
  BY <1>14 DEF TimerFires
<1>15. CASE Interrupt
  BY <1>15 DEF Interrupt
<1>16. CASE OtherBinds
  BY <1>16 DEF OtherBinds
<1>17. CASE OtherReleases
  BY <1>17 DEF OtherReleases
<1>18. CASE UNCHANGED vars
  BY <1>18 DEF vars
<1> QED
  BY <1>1, <1>2, <1>3, <1>4, <1>5, <1>6, <1>7, <1>8, <1>9, <1>10, <1>11,
     <1>12, <1>13, <1>14, <1>15, <1>16, <1>17, <1>18 DEF Next, Main

LEMMA ReachedStep ==
  ASSUME NotYet, Reached, [Next]_vars
  PROVE  Reached'
<1> USE DEF NotYet, Before, BeforeCfg, Reached, portVars, testVars, reportVars
<1>1. CASE ParseFlags
  BY <1>1 DEF ParseFlags
<1>2. CASE ScanUDPSockets
  BY <1>2 DEF ScanUDPSockets
<1>3. CASE CheckPort
  BY <1>3 DEF CheckPort
<1>4. CASE BindRaw
  BY <1>4 DEF BindRaw, AfterSniffer
<1>5. CASE SniffEnds
  BY <1>5 DEF SniffEnds, AfterSniffer
<1>6. CASE CreateEndpoint
  BY <1>6 DEF CreateEndpoint, Show
<1>7. CASE InitializeNode
  BY <1>7 DEF InitializeNode, Show, BindsPort
<1>8. CASE MonitorEnds
  BY <1>8 DEF MonitorEnds
<1>9. CASE CloseNode
  BY <1>9 DEF CloseNode
<1>10. CASE ExportSupportReport
  BY <1>10 DEF ExportSupportReport, Show
<1>11. CASE PrintSummary
  BY <1>11 DEF PrintSummary, Show
<1>12. CASE SniffPacket
  BY <1>12 DEF SniffPacket
<1>13. CASE MonitorFrame
  BY <1>13 DEF MonitorFrame
<1>14. CASE TimerFires
  BY <1>14 DEF TimerFires
<1>15. CASE Interrupt
  BY <1>15 DEF Interrupt
<1>16. CASE OtherBinds
  BY <1>16 DEF OtherBinds
<1>17. CASE OtherReleases
  BY <1>17 DEF OtherReleases
<1>18. CASE UNCHANGED vars
  BY <1>18 DEF vars
<1> QED
  BY <1>1, <1>2, <1>3, <1>4, <1>5, <1>6, <1>7, <1>8, <1>9, <1>10, <1>11,
     <1>12, <1>13, <1>14, <1>15, <1>16, <1>17, <1>18 DEF Next, Main

LEMMA KeptStep ==
  ASSUME PortKept, [Next]_vars
  PROVE  PortKept'
<1> USE DEF PortKept, portVars, testVars, reportVars
<1>1. CASE ParseFlags
  BY <1>1 DEF ParseFlags
<1>2. CASE ScanUDPSockets
  BY <1>2 DEF ScanUDPSockets
<1>3. CASE CheckPort
  BY <1>3 DEF CheckPort
<1>4. CASE BindRaw
  BY <1>4 DEF BindRaw, AfterSniffer
<1>5. CASE SniffEnds
  BY <1>5 DEF SniffEnds, AfterSniffer
<1>6. CASE CreateEndpoint
  BY <1>6 DEF CreateEndpoint, Show
<1>7. CASE InitializeNode
  BY <1>7 DEF InitializeNode, Show, BindsPort
<1>8. CASE MonitorEnds
  BY <1>8 DEF MonitorEnds
<1>9. CASE CloseNode
  BY <1>9 DEF CloseNode
<1>10. CASE ExportSupportReport
  BY <1>10 DEF ExportSupportReport, Show
<1>11. CASE PrintSummary
  BY <1>11 DEF PrintSummary, Show
<1>12. CASE SniffPacket
  BY <1>12 DEF SniffPacket
<1>13. CASE MonitorFrame
  BY <1>13 DEF MonitorFrame
<1>14. CASE TimerFires
  BY <1>14 DEF TimerFires
<1>15. CASE Interrupt
  BY <1>15 DEF Interrupt
<1>16. CASE OtherBinds
  BY <1>16 DEF OtherBinds
<1>17. CASE OtherReleases
  BY <1>17 DEF OtherReleases
<1>18. CASE UNCHANGED vars
  BY <1>18 DEF vars
<1> QED
  BY <1>1, <1>2, <1>3, <1>4, <1>5, <1>6, <1>7, <1>8, <1>9, <1>10, <1>11,
     <1>12, <1>13, <1>14, <1>15, <1>16, <1>17, <1>18 DEF Next, Main

(* Reporting anything else does not report that the node failed. *)
LEMMA ShowOther ==
  ASSUME NEW what, what # "node failed", Show(what)
  PROVE  "node failed" \in shown' => "node failed" \in shown
BY DEF Show

LEMMA AvailableStep ==
  ASSUME ControlType, PortReleased, NotYet, PortKept, AvailableMeansBindable,
         [Next]_vars
  PROVE  AvailableMeansBindable'
<1> USE DEF AvailableMeansBindable, ControlType, PortReleased, NotYet, Before, BeforeCfg, PortKept, portVars, testVars, reportVars
<1>1. CASE ParseFlags
  BY <1>1 DEF ParseFlags
<1>2. CASE ScanUDPSockets
  BY <1>2 DEF ScanUDPSockets
<1>3. CASE CheckPort
  BY <1>3 DEF CheckPort
<1>4. CASE BindRaw
  BY <1>4 DEF BindRaw, AfterSniffer
<1>5. CASE SniffEnds
  BY <1>5 DEF SniffEnds, AfterSniffer
<1>6. CASE CreateEndpoint
  <2>1. "node failed" \in shown' => "node failed" \in shown
    BY <1>6, ShowOther DEF CreateEndpoint
  <2>2. UNCHANGED <<args, portStatus, disturbed, raw>> /\ phase = "configure"
    BY <1>6 DEF CreateEndpoint
  <2> QED
    BY <2>1, <2>2
<1>7. CASE InitializeNode
  <2>1. UNCHANGED <<args, portStatus, disturbed, raw, endpoint>> /\ phase = "initialize"
    BY <1>7 DEF InitializeNode
  <2>2. CASE UNCHANGED shown
    BY <2>1, <2>2
  <2>3. CASE shown' # shown
    <3>1. endpoint \in UdpServers => owner # "free" \/ ~ResolvesToOwn(args)
      BY <1>7, <2>3 DEF InitializeNode
    <3>2. args.listen \in {"own", "foreign", "name", "wrong"}
      BY DoctorAssumption DEF CommandLine
    <3> QED
      BY <2>1, <3>1, <3>2 DEF ResolvesToOwn, WildcardOrOwn
  <2> QED
    BY <2>2, <2>3
<1>8. CASE MonitorEnds
  BY <1>8 DEF MonitorEnds
<1>9. CASE CloseNode
  BY <1>9 DEF CloseNode
<1>10. CASE ExportSupportReport
  <2>1. "node failed" \in shown' => "node failed" \in shown
    BY <1>10, ShowOther DEF ExportSupportReport
  <2>2. UNCHANGED <<args, portStatus, disturbed, raw>> /\ UNCHANGED endpoint
    BY <1>10 DEF ExportSupportReport
  <2> QED
    BY <2>1, <2>2
<1>11. CASE PrintSummary
  <2>1. "node failed" \in shown' => "node failed" \in shown
    BY <1>11, ShowOther DEF PrintSummary
  <2>2. UNCHANGED <<args, portStatus, disturbed, raw>> /\ UNCHANGED endpoint
    BY <1>11 DEF PrintSummary
  <2> QED
    BY <2>1, <2>2
<1>12. CASE SniffPacket
  BY <1>12 DEF SniffPacket
<1>13. CASE MonitorFrame
  BY <1>13 DEF MonitorFrame
<1>14. CASE TimerFires
  BY <1>14 DEF TimerFires
<1>15. CASE Interrupt
  BY <1>15 DEF Interrupt
<1>16. CASE OtherBinds
  BY <1>16 DEF OtherBinds
<1>17. CASE OtherReleases
  BY <1>17 DEF OtherReleases
<1>18. CASE UNCHANGED vars
  BY <1>18 DEF vars
<1> QED
  BY <1>1, <1>2, <1>3, <1>4, <1>5, <1>6, <1>7, <1>8, <1>9, <1>10, <1>11,
     <1>12, <1>13, <1>14, <1>15, <1>16, <1>17, <1>18 DEF Next, Main

LEMMA StepIInv == IInv /\ [Next]_vars => IInv'
<1> SUFFICES ASSUME IInv, [Next]_vars PROVE IInv'
  OBVIOUS
<1>1. ControlType /\ DataType
  BY TypeParts DEF IInv
<1>2. TypeOK'
  <2>1. ControlType' /\ DataType'
    BY <1>1, ControlStep, DataStep
  <2> QED
    BY <2>1 DEF TypeOK, ControlType, DataType
<1>3. PortReleased' /\ NotYet' /\ Reached' /\ PortKept'
  BY ReleasedStep, NotYetStep, ReachedStep, KeptStep DEF IInv
<1>4. AvailableMeansBindable'
  BY <1>1, AvailableStep DEF IInv
<1> QED
  BY <1>2, <1>3, <1>4 DEF IInv

(* The invariant of every run of the program. *)
THEOREM Invariant == Spec => []IInv
BY InitIInv, StepIInv, PTL DEF Spec

(* Every variable keeps its type. *)
THEOREM TypeCorrect == Spec => []TypeOK
BY Invariant, PTL DEF IInv

(* The sniffer and the node hold the port only while they run (main.go:92-116,  *)
(* raw_listener.go:46, the deferred node.Close of main.go:209).                  *)
THEOREM PortIsReleased == Spec => []PortReleased
BY Invariant, PTL DEF IInv

(* A port CheckPort found available can be bound by the sniffer, and by the       *)
(* server after it where the listen address is an address or a name of this       *)
(* computer, unless another process took it in between (port_check.go:27-55,      *)
(* raw_listener.go:38-46, udp_stream_server.go:83-92).                            *)
THEOREM AvailableIsBindable == Spec => []AvailableMeansBindable
BY Invariant, PTL DEF IInv

(* Where the raw sniffer ran, the monitor serves the same port: the conditions    *)
(* of main.go:92 and the mode resolution of main.go:147-163 agree on every        *)
(* command line ParseFlags accepts.                                              *)
THEOREM SniffedIsServed == Spec => []SniffsWhatItServes
<1>1. IInv => SniffsWhatItServes
  BY SnifferServes, DoctorAssumption DEF IInv, TypeOK, Reached, SniffsWhatItServes
<1> QED
  BY <1>1, Invariant, PTL

(* An explicit -mode is obeyed and a client has an address. *)
THEOREM ModeIsObeyed == Spec => []ModeObeyed
<1>1. IInv => ModeObeyed
  <2> SUFFICES ASSUME IInv, endpoint # "none" PROVE ModeObeyed
    BY DEF ModeObeyed, Clients
  <2>1. args \in CommandLine /\ Accepts(args) /\ endpoint = EndpointFor(args)
    BY DoctorAssumption DEF IInv, TypeOK, Reached
  <2> QED
    BY <2>1, AcceptedMode DEF ModeObeyed
<1> QED
  BY <1>1, Invariant, PTL
==============================================================================
