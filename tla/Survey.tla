-------------------------------- MODULE Survey --------------------------------
(***************************************************************************)
(* What a run of mavlink-doctor collects and how it ends in the report:       *)
(* main of cmd/mavlink-doctor/main.go with the port check, the subnet probe,  *)
(* the raw sniffer, the outcome of the live monitor, BuildResult,             *)
(* ExportSupportReport with its redaction, and the JSON output.  Doctor says  *)
(* which phases a command line leads through and who holds the port; here the *)
(* phases are short and what they find is in the foreground.                 *)
(*                                                                         *)
(* A text is the addresses in it, each at its position.                      *)
(***************************************************************************)
EXTENDS SubnetProbe, PortCheck, RawSniffer

CONSTANTS
  Jobs,         \* command lines and the hosts they run on
  OwnIPs,       \* addresses of the interfaces
  RouteIPs,     \* addresses in the route to -address
  LoopbackNet   \* first octet of a loopback address, 127

(* An IPv6 address is one value, of which nothing is told apart. *)
Address6 == {<<v>> : v \in Octet}
IP       == Address \cup Address6

Endpoint == [ip : IP, port : Seq(0..9)]
Socket   == [local : Endpoint, peer : Endpoint]

(* udp: transport udp or auto; address: -address is given; table: the sockets of  *)
(* the host, in order; listed: the tool that lists them works; probe: the flag     *)
(* -probe-subnet is given; skip: -no-gomavlib.                                 *)
Job == [udp : BOOLEAN, address : BOOLEAN, table : Seq(Socket), listed : BOOLEAN,
        probe : BOOLEAN, skip : BOOLEAN, json : BOOLEAN, redact : BOOLEAN,
        export : {"none", "writable", "unwritable"}]

ASSUME SurveyAssumption ==
  /\ Jobs \subseteq Job
  /\ OwnIPs \in Seq(IP) /\ RouteIPs \in Seq(IP)
  /\ LoopbackNet \in Octet
  /\ {ListenIP, AnyIP} \cup Senders \subseteq IP

VARIABLES
  job,          \* the command line and the host
  stage,        \* where main is
  portStatus,   \* discReport.PortStatus
  heard,        \* what the monitor saw
  report,       \* what main's result holds or points to
  collected,    \* history: the same when BuildResult made it
  file,         \* the exported file, empty if there is none
  printed       \* JSON on standard output, empty if there is none

surveyVars == <<job, stage, portStatus, heard, report, collected, file, printed>>
allVars    == <<surveyVars, probeVars, snifferVars>>

Outcomes == {o \in [frames : BOOLEAN, healthy : BOOLEAN, gimbal : BOOLEAN] :
               o.healthy \/ o.gimbal => o.frames}
Silence  == [frames |-> FALSE, healthy |-> FALSE, gimbal |-> FALSE]

NoStatus == [available |-> TRUE, bindOk |-> TRUE, bound |-> << >>]

SurveyInit ==
  /\ ProbeInit /\ SnifferInit
  /\ job \in Jobs
  /\ job.probe \/ cidr = CHOOSE n \in Networks : TRUE
  /\ stage = "check"
  /\ portStatus = NoStatus
  /\ heard = Silence
  /\ report = << >> /\ collected = << >> /\ file = << >> /\ printed = << >>

Sockets == Range(job.table)
Listed  == IF job.listed THEN job.table ELSE << >>

------------------------------------------------------------------------------
(* Discovery. *)

CheckLocalPort ==
  /\ stage = "check"
  /\ portStatus' = IF job.udp THEN CheckPort(Listed, Sockets) ELSE NoStatus
  /\ stage' = IF job.probe THEN "probe" ELSE "listen"
  /\ UNCHANGED <<job, heard, report, collected, file, printed, probeVars, snifferVars>>

ProbeStep ==
  /\ stage = "probe"
  /\ ProbeNext
  /\ UNCHANGED <<surveyVars, snifferVars>>

(* An error of ProbeSubnet is discarded with its result. *)
ProbeSubnetReturns ==
  /\ stage = "probe" /\ probe \in {"returned", "failed"}
  /\ stage' = "listen"
  /\ UNCHANGED <<job, portStatus, heard, report, collected, file, printed, probeVars,
                 snifferVars>>

------------------------------------------------------------------------------
(* The sniffer and the monitor. *)

Sniffs == job.udp /\ ~job.address
AfterListen == IF job.skip THEN "build" ELSE "monitor"

Listen ==
  /\ stage = "listen"
  /\ IF Sniffs /\ CanBind(Sockets)
     THEN stage' = "sniff" /\ UNCHANGED snifferVars
     ELSE stage' = AfterListen /\ IF Sniffs THEN ListenFails ELSE UNCHANGED snifferVars
  /\ UNCHANGED <<job, portStatus, heard, report, collected, file, printed, probeVars>>

Sniff ==
  /\ stage = "sniff"
  /\ \E d \in Datagram : Receive(d)
  /\ UNCHANGED <<surveyVars, probeVars>>

(* The deadline passes, or the socket fails. *)
ListenEnds ==
  /\ stage = "sniff"
  /\ \E f \in BOOLEAN : summary' = [summary EXCEPT !.failed = f]
  /\ stage' = AfterListen
  /\ UNCHANGED <<job, portStatus, heard, report, collected, file, printed, probeVars,
                 sniffed>>

(* runMavlinkTest, of which Monitor tells the rest. *)
RunMavlinkTest ==
  /\ stage = "monitor"
  /\ heard' \in Outcomes
  /\ stage' = "build"
  /\ UNCHANGED <<job, portStatus, report, collected, file, printed, probeVars,
                 snifferVars>>

------------------------------------------------------------------------------
(* The report: BuildResult. *)

Verdict ==
  IF heard.frames THEN "MAVLINK_CONNECTED"
  ELSE IF summary.total > 0 THEN "PACKETS_WITHOUT_MAVLINK" ELSE "NO_TRAFFIC"

Notes ==
  (CASE Verdict = "MAVLINK_CONNECTED" ->
          <<"frames", IF heard.healthy THEN "healthy" ELSE "unstable">>
     [] Verdict = "PACKETS_WITHOUT_MAVLINK" -> <<"packets">>
     [] Verdict = "NO_TRAFFIC" -> <<"silence">>)
  \o IF heard.gimbal THEN <<"gimbal">> ELSE << >>

(* The addresses of a socket: LocalAddr, ForeignAddr and Raw, which has both.     *)
TextOf(s) == <<s.local.ip, s.peer.ip, s.local.ip, s.peer.ip>>
TextsOf(table) == [p \in (DOMAIN table) \X (1..4) |-> TextOf(table[p[1]])[p[2]]]
If(condition, text) == IF condition THEN text ELSE << >>

(* Every text of the result that may hold an address.  The sockets of the port   *)
(* status are copies; the errors of a bind name the address.                     *)
Texts ==
  [interfaces    |-> OwnIPs,
   udp_sockets   |-> TextsOf(Listed),
   route         |-> If(job.address, RouteIPs),
   raw_listen    |-> If(Sniffs, <<ListenIP>>),
   raw_senders   |-> summary.senders,
   bound_sockets |-> TextsOf(portStatus.bound),
   bind_error    |-> If(~portStatus.bindOk, <<ListenIP>>),
   raw_error     |-> If(summary.failed, <<ListenIP>>),
   subnet_probe  |-> If(probe = "returned", found)]

BuildResult ==
  /\ stage = "build"
  /\ report' = <<[status |-> Verdict, notes |-> Notes, texts |-> Texts]>>
  /\ collected' = report'
  /\ stage' = "export"
  /\ UNCHANGED <<job, portStatus, heard, file, printed, probeVars, snifferVars>>

------------------------------------------------------------------------------
(* ExportSupportReport and PrintJSON. *)

Hidden == Byte   \* "xxx" in place of an octet

(* ipRegex finds IPv4 addresses only, and loopback is left as it is. *)
maskIP(a) == IF a \in Address /\ a[1] # LoopbackNet THEN <<a[1], Hidden>> ELSE a

(* Mutant: the senders of the raw test are forgotten. *)
CoveredButSenders == {"interfaces", "udp_sockets", "route", "raw_listen"}

(* The texts redactResult masks. *)
Covered == {"interfaces", "udp_sockets", "route", "raw_listen", "raw_senders"}

redactResult(res) ==
  LET masked(text) == [i \in DOMAIN text |-> maskIP(text[i])]
  IN  [res EXCEPT !.texts = [f \in DOMAIN @ |-> IF f \in Covered THEN masked(@[f])
                                                                ELSE @[f]]]

(* redactResult gets the result by value and writes through its slices and       *)
(* pointers, so main's result is redacted with it, also when the file cannot be  *)
(* written after.                                                               *)
ExportSupportReport ==
  /\ stage = "export"
  /\ report' = IF job.export # "none" /\ job.redact
               THEN <<redactResult(report[1])>> ELSE report
  /\ file' = IF job.export = "writable" THEN report' ELSE << >>
  /\ stage' = "print"
  /\ UNCHANGED <<job, portStatus, heard, collected, printed, probeVars, snifferVars>>

PrintJSON ==
  /\ stage = "print"
  /\ printed' = IF job.json THEN report ELSE << >>
  /\ stage' = "ended"
  /\ UNCHANGED <<job, portStatus, heard, report, collected, file, probeVars,
                 snifferVars>>

Main ==
  \/ CheckLocalPort \/ ProbeSubnetReturns \/ Listen \/ ListenEnds
  \/ RunMavlinkTest \/ BuildResult \/ ExportSupportReport \/ PrintJSON

SurveyNext == Main \/ ProbeStep \/ Sniff

SurveySpec == SurveyInit /\ [][SurveyNext]_allVars

(* main and the goroutines of the probe go on when they can: a dial ends after    *)
(* 300 ms, the sniffer at its deadline.                                         *)
MainProbes == stage = "probe" /\ ProbeMain /\ UNCHANGED <<surveyVars, snifferVars>>
WorkerProbes(w) == stage = "probe" /\ Probing(w) /\ UNCHANGED <<surveyVars, snifferVars>>
FairSurvey ==
  /\ SurveySpec
  /\ WF_allVars(Main) /\ WF_allVars(MainProbes)
  /\ \A w \in Workers : WF_allVars(WorkerProbes(w))
------------------------------------------------------------------------------
(* Properties. *)

SurveyTypeOK ==
  /\ ProbeTypeOK /\ SnifferTypeOK
  /\ job \in Jobs
  /\ stage \in {"check", "probe", "listen", "sniff", "monitor", "build", "export",
                "print", "ended"}
  /\ heard \in Outcomes
  /\ \A r \in {report, collected, file, printed} : Len(r) <= 1

(* "Available (No socket conflicts)" (terminal.go:61) is said only when no socket *)
(* is listed on our port and none is in the way of a bind, whether or not it is   *)
(* listed; a socket on our port is always among those shown, and a conflict has   *)
(* a socket or an error to show for it.                                         *)
PortVerdict ==
  stage # "check" /\ job.udp =>
    LET onPort == {s \in Range(Listed) : s.local.port = OurPort}
    IN  /\ portStatus.available => onPort = {} /\ CanBind(Sockets)
        /\ onPort \subseteq Range(portStatus.bound)
        /\ ~portStatus.available => DOMAIN portStatus.bound # {} \/ ~portStatus.bindOk

(* The datagrams that arrived while the sniffer listened are those its summary    *)
(* tells of, and no report that follows says that there was no traffic.          *)
TrafficReported ==
  /\ SummaryExact
  /\ report # << >> /\ sniffed # << >> => report[1].status # "NO_TRAFFIC"

(* A redacted file keeps the verdict and the notes, and in the texts that          *)
(* redactResult covers no IPv4 address but loopback is shown in full.            *)
RedactedReport ==
  file # << >> /\ job.redact =>
    LET before == collected[1].texts
        after  == file[1].texts
    IN  /\ [file[1] EXCEPT !.texts = before] = collected[1]
        /\ \A f \in {"interfaces", "udp_sockets", "route", "raw_listen", "raw_senders"} :
             \A i \in DOMAIN before[f] :
               before[f][i] \in Address /\ before[f][i][1] # LoopbackNet =>
                 after[f][i] \notin Address

(* "Sanitize IP and MAC addresses in exported support report." (README.md:136): no  *)
(* text of a redacted file shows an IPv4 address in full, unless it is loopback.  *)
RedactedFileMasked ==
  file # << >> /\ job.redact =>
    \A f \in DOMAIN file[1].texts : \A i \in DOMAIN file[1].texts[f] :
      file[1].texts[f][i] \in Address => file[1].texts[f][i][1] = LoopbackNet

(* Every survey ends: the probe's loop gets its permits back and its goroutines   *)
(* are waited for no longer than they run.                                      *)
SurveyEnds == <>(stage = "ended")
==============================================================================
