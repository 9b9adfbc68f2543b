# A TLA+ model of mavlink-doctor

`mavlink-doctor` is a command that tells whether MAVLink telemetry reaches a
computer and how healthy it is. One run goes through four phases: discovery of
the environment, a raw UDP sniffer, a live MAVLink monitor, and a report. This
directory models the parts of it that decide whether what it says is true.

## The system

| Component | State it keeps | Operations | Hard because |
| :-- | :-- | :-- | :-- |
| UDP stream server `transport/udp_stream_server.go` | socket, `clients` map, `acceptChan`, pipe per sender, `closed` channels | `readLoop`, `Accept`, `Close`, `Read`/`Close` of a connection | four kinds of goroutines, one lock, unbuffered pipes, close while a datagram is in hand |
| Telemetry tracker `metrics/tracker.go` | counts, sources, last sequence number of each system, heartbeat statistics | `RecordFrame`, `RecordHeartbeat`, `RecordParseError`, `Snapshot` | 8-bit sequence numbers, running statistics, sources of one system interleaved |
| Gimbal detector `decoder/gimbal.go` | `GimbalEvidence` | `CheckGimbalMessage` | evidence of several sources in one record |
| Live monitor, `runMavlinkTest` in `main.go` | the two above | one `select` loop over node events, timer and context | events, timer and signal race |
| Command pipeline, `main.go`, `cli/flags.go`, `transport/endpoint.go` | options, phase, port status, results | parse, discover, sniff, configure, monitor, report | options checked early and resolved late; the port is tested, used and bound again; partial failures |
| Raw sniffer `transport/raw_listener.go` | `PacketSummary` | `ListenRawUDP` | deadline, error, interrupt |
| Port check `discovery/port_check.go` | none | `CheckPort` | text match on a table, stale when used |
| Subnet probe `discovery/subnet_probe.go` | found hosts, semaphore, wait group | `ProbeSubnet`, `generateIPs` | worker pool, timeouts, carry in addresses |
| Redaction and verdict `reporter/support_report.go`, `json.go` | the result record | `redactResult`, `ExportSupportReport`, `BuildResult` | aliasing, several reports of one record |
| Simulator `simulator/mock_server.go` | two pipes, a node | `RunMockSender`, chunker | shutdown of pipes in a circle |
| Stateless parts | none | enum names, dialects, frame inspection, capture commands, version, terminal tables, OS-specific scanners | text and lookups |

How they interact: `main` owns everything and runs on one goroutine. It calls
the discovery functions, `ListenRawUDP`, then `runMavlinkTest`, which makes an
endpoint (the stream server, for a UDP server) and gives it to a gomavlib node.
The node calls `Accept` and the connections' `Read` from goroutines of its own
and hands frames over a channel to the loop of `runMavlinkTest`, which calls the
tracker and the detector. At the end the node is closed, which calls the
listener's `Close`; then the tracker's snapshot is reported and exported.

What makes each correct:

* stream server: one ordered, complete stream per sender; every sender gets a
  parser and only one; shutdown ends.
* tracker: counts agree with each other; losses reported are losses that
  happened; running statistics equal those computed from the whole history.
* detector: the evidence says nothing that no frame said, and misses no message
  that confirms a gimbal, whatever the order.
* subnet probe: the hosts of the network, each once, up to the limit; no host
  that answered is missing from the result when it is returned, and it is returned.
* sniffer, port check, report: what the report says is what was found; a port is
  called available only if nothing speaks against it; a redacted file shows no
  address it should hide.
* simulator: it gives the socket the bytes of its frames in order, and it can be
  stopped.
* pipeline: what is sniffed is what is served; the program does not collide with
  itself; explicit options are obeyed; every run ends; the report tells what happened.

## Modules

| Module | Models | Extends / instances |
| :-- | :-- | :-- |
| `SenderStreams` | the promise of the stream server: a byte stream per sender | |
| `UdpStreamServer` | `readLoop`, `Accept`, `Close`, the pipes, gomavlib's readers, a lossy network | instances `SenderStreams` |
| `UdpStreamReopen` | the same server with a history of when connections closed, for the run `stream_reopen` | `UdpStreamServer` |
| `UdpStreamServerProofs` | proofs about it | |
| `Tracker` | the tracker, called in any order | |
| `GimbalEvidence` | the detector | |
| `Monitor` | the event loop that drives both | `Tracker`, `GimbalEvidence` |
| `TelemetryLink` | senders that number their frames and a link that loses them, in front of `Monitor` | `Monitor` |
| `Doctor` | a whole run of the command | |
| `DoctorProofs` | proofs about it | |
| `TrackerProofs` | proofs about the tracker | `Tracker`, `CountingTheorems` |
| `MonitorProofs` | proofs about the monitor and about the link in front of it | `TelemetryLink`, `TrackerProofs` |
| `SubnetProbe` | `ProbeSubnet`: the list of hosts and the worker pool | |
| `SubnetProbeProofs` | proofs about it | `SubnetProbe`, `CountingTheorems` |
| `PortCheck` | `CheckPort` as a function of the table and the sockets | |
| `RawSniffer` | the counters of `ListenRawUDP` | |
| `Survey` | what a run collects and reports: the three above, `BuildResult`, `redactResult`, the export and the JSON output | `SubnetProbe`, `PortCheck`, `RawSniffer` |
| `SurveyProofs` | proofs about it and the three it extends | `Survey`, `SubnetProbeProofs` |
| `Simulator` | the mock sender with its chunker and two pipes | |
| `SimulatorProofs` | proofs about it | `Simulator`, `CountingTheorems` |
| `CountingTheorems` | sums over sets, least and greatest numbers, appending: what the proofs need of data | |
| `MC*` | small instances for TLC | |

A definition whose comment starts with `Mutant:` is not part of a
specification. It is a plausible mistake in the definition that follows it,
kept to show that a property notices it.

### UdpStreamServer

The goroutines are the value of a variable each: `loop` is where `readLoop`
stands between its calls (`read`: in `ReadFromUDP`; `got`: a datagram in hand,
lock not taken; `locked`; `write`: in `pipeW.Write`; `closing`: in its own call
of `l.Close`), `closing` is how far the body of `Close` under `closeOnce` is,
`reader[s]` is gomavlib's reader of the connection of sender `s`. A step is what
happens between two points at which another goroutine can be noticed: a blocking
call, the lock, a channel. `Register` covers lookup, registration, offer and
unlock together, for all of it is under `clientsMu`. The pipe of `io.Pipe` has
no buffer: `PipeRead` is a `Read` that meets the pending `Write`; an empty write
meets one read too, which is what the zero-length datagram of a subnet probe does.

A sender's bytes are numbered from 1, so a sequence of numbers says which bytes
of the stream arrived and in what order. `UdpStreamReopen` remembers how far a
sender's numbers were when its connection closed, and so tells what it sent
before from what it sent after. The clients map never loses an entry,
which is why a connection is named by its sender; the dead connection of a sender
that still sends is thereby in the model as it is in the code.

gomavlib is external. From how it is used the model takes: it calls `Accept`
until it fails, reads each connection from one goroutine, may close a connection
at any time (`ChannelFails`), and calls `Close` once. A pending read ends when
the connection is closed.

Left out: what is written to a sender (`WriteToUDP`, no state of the listener),
addresses, deadlines (the code ignores them).

### Tracker, GimbalEvidence, Monitor

Each call of the tracker holds its lock to the end and is one action. `now` is a
clock of which `Milli` ticks are a millisecond and `Micro` a microsecond; a call
happens some delay after the one before. `WholeMicros` is `Duration.Microseconds`:
the intervals of heartbeats are cut to microseconds (`tracker.go:163`), the time
from first to last, of which the average is taken, is not. Frames are
records of system, component, sequence number, version and message. Histories
(`arrived`, `beats`) keep what was recorded, so that the running statistics can
be compared with those of the whole history. Byte counts (12 for every frame)
and the rates and percentages, which are quotients of what is kept, are left
out. `JitterMs`, an exponential average, is kept as whether it is above zero; how
large it is, is not modelled.

`Monitor` is one iteration of the `select` of `runMavlinkTest` per step:
`FrameEvent` calls `RecordFrame`, `CheckGimbalMessage` and, for a heartbeat,
`RecordHeartbeat`, in one step because the loop is the only goroutine that
touches either. When the loop ends is in `Doctor` (`MonitorEnds`). The tracker has
a run of its own, since its calls can come in any order; the monitor is checked at
the end of the link.

### TelemetryLink

Senders put frames with consecutive numbers on a link which loses runs of up to
255 of them and keeps the others in order. `PerComponent` says whether the
components of a system share a counter (one sender stamps all frames on a channel)
or have one each (MAVLink nodes of their own behind a router). Nothing here is
code of the repository except the monitor at the end of the link.

### Doctor

`phase` is where `main` is. The local UDP port is the variable `owner`: free,
taken by another process, by the sniffer or by the node. Other processes take and
release it at any time. Frames and packets are counts, `Monitor` and
`UdpStreamServer` say the rest. The table of `ScanUDPSockets` is a hint that may
say anything: on some systems it is empty, and a port number that begins with ours
matches it too.

`args.listen` says what `-listen-address` is: an address of this computer or the
wildcard (`own`), an address it does not have (`foreign`), a name that resolves to
an address of its own (`name`), or what neither parses nor resolves (`wrong`). The
sniffer and the test bind take what `net.ParseIP` does not understand for 0.0.0.0
(`WildcardOrOwn`, `port_check.go:49-55`); the servers resolve the address as it is
given and fail (`ResolvesToOwn`, `udp_stream_server.go:84-87`). `owner` is the port
on one address: two sockets on different addresses, which do not collide, and
`-port 0`, for which the system chooses, are left out.

Not steps of `Doctor`: the discovery functions that only fill the report
(interfaces, routes, serial devices, `ProbeSubnet`), which return whatever they
find, and `-dialect`, of which `ParseFlags` accepts exactly the names
`GetDialect` knows. `shown` is what the terminal said that a property asks about;
`PrintMAVLinkSummary` names the report in one line when no frame was decoded
(`saved`) and in another otherwise (`exported`).

### SubnetProbe, PortCheck, RawSniffer, Survey

`Survey` is `main` again, from the side of the data: where `Doctor` says which
phases a command line leads through and who holds the port, `Survey` says what
the phases find and what becomes of it. Its phases (`stage`) are one step each,
except that the probe and the sniffer take as many as they need. The variable
`job` is the command line with the host it runs on. `runMavlinkTest` leaves any
outcome (`Outcomes`).

In `SubnetProbe` an address has two octets of `Byte` values, and a mask is a
prefix, which is all that `net.ParseCIDR` returns. One turn of the loop of
`generateIPs` is a step; `Inc` is `inc` in closed form, for its loop ends at
the first octet that does not become 0. `Spawn` is `wg.Add`, the permit and the
`go` statement together, because only the loop itself looks at the counter. The
goroutine of a host is the value of `worker`: `dialing`, `locking`, `appending`
(the slice was read, `found` not yet assigned), `releasing` and `finishing`, the
two deferred calls in the order in which Go runs them, and `done`. Whether a dial
succeeds is free. The error of the `Write` after it is ignored by the code and no
answer is read, so whether the datagram was sent and the host answered is a history
only: `sent` has the hosts that could be dialled, `answered` those among them that
answered. A network of all addresses (`/0`) would be counted round for ever if
it had fewer hosts than `maxHosts`; with 254 in `main` none has, which is the last
part of `ProbeAssumption`.

In `PortCheck` a port is the sequence of its digits, so that the text match is a
prefix: `:1455` is in `:14550`. Groups of an IPv6 address that happen to look
like the port are left out. `table` is what is listed, which may be nothing,
`sockets` what there is.

`BoundSockets` keeps the sockets that match at their places in the table, so the
order of `status.BoundSockets` is that of the places.

In `Survey` a text is the sequence of the addresses in it: IPv4 of two octets
(`Address`) and IPv6 of one value (`Address6`), which the expression in
`support_report.go:29` does not find and `maskIP` therefore leaves as it is. `report` is what
`main`'s result holds or points to: all that `redactResult` writes is behind
slices and pointers, so its argument, though passed by value, shares it with
`main`, and the step writes `report` itself. `Texts` also has the texts that are
not masked: the bound sockets of the port status are copies, the results of the
subnet probe and the errors of a bind are not in the list of `redactResult`. MAC
addresses, which nothing masks, are left out.

### Simulator

`sender` is the goroutine of `RunMockSender`, `chunker` the one it starts; `writer`
and `reader` are the node's. `pending` is what is left of the node's `Write` into the
pipe: `io.Pipe` has no buffer, and a `Read` returns bytes of one `Write` only.
`outClosed` and `inClosed` are the two pipes; `pipeConn.Close` closes both, the
chunker at its end only the one the node reads. Bytes are numbered as in
`UdpStreamServer`. `handed` is what the socket was given, `sent` which of it was
sent: a connected UDP socket may refuse any `Write`, as when the target does not
listen yet, and the chunker discards the error (`mock_server.go:193`) and goes on
with the next piece.

gomavlib is external. Taken of it: `WriteMessageAll` does not wait and drops when
its queue is full, a frame is one `Write`, and `Close` closes the connection
before it waits for its goroutines. The last matters: the chunker may be gone
while the node is in the midst of a `Write`, and nothing but the close of the
pipe ends that. The node's own heartbeats and reconnects are left out; its
connection is closed only when the sender is cancelled.

## What TLC checks

The passing runs finish their whole state space. Deadlock is not checked: the
program stops, senders run out of bytes and calls at the bounds, and Close leaves
nothing to do.

| Run | Shows | Bounds, and why they are enough |
| :-- | :-- | :-- |
| `stream` | registration, offer, single reader, reassembly, at most one connection escapes Close; `UdpStreamServer` implements `SenderStreams`; `Close` returns, `readLoop` returns to its socket, ends after the sweep | two senders, so that one waits behind the other and a late one meets the sweep; datagrams of 0 to 2 bytes and reads of 1, so that reads cut datagrams; `acceptChan` of 1, the least capacity the proofs cover |
| `tracker` | the three counts agree, gaps are charged exactly once modulo 256, loss is below 100 %, running heartbeat statistics equal those of the history, and the average is at most less than a microsecond above the maximum | two systems of two components; numbers next to each other, far apart and at the wrap; delays at the limits of a healthy average, not a whole number of microseconds, and beyond the initial minimum of 999999 ms; four calls, which give three intervals or three gaps of one source; a microsecond of two ticks, so that half of one is cut off (four make the millisecond: nothing depends on how many) |
| `link_exact` | whether a source has jitter, heartbeat counts and gimbal evidence with sources interleaved; losses reported are losses that happened | one system of two components, the autopilot's and the gimbal's: the third frame of a source is the first that can show jitter, so of four frames one of the other fits in between; messages that name a gimbal, indicate one, or do so only by the component; the counter starts at 254 and a run of 255 frames may be lost, so the wrap is met in and between frames. Two systems, which share nothing but the totals, are in `tracker` |
| `doctor` | port ownership, port verdict, sniffed port served, mode obeyed; every run ends, with and without an interrupt | every combination of the options that choose a path; the report options and the listen address with the plain UDP server, TCP and broadcast are varied one at a time, for nothing but the last phase, the binds and one branch of `CreateEndpoint` looks at them |
| `survey` | the hosts probed are those of the network in order; the probe's result has those that answered when it returns; the port verdict, the sniffer's summary and the covered fields of the redacted file are what they should be; every run ends | octets of 4 values, so that two octets have a carry, addresses skipped inside a network and an end of all addresses; every network of those 16, by any of its addresses; 3 hosts for 2 permits, so that one waits; 3 datagrams for 2 kept sizes; sockets on our port, on another address, with a longer number, with our port as peer; all forms of report |
| `simulator` | the bytes given to the socket are those written, in order, whichever `Write` fails; a cancelled sender returns and leaves nothing; traffic gets out while it runs | frames of 3 and 1 bytes in chunks of 2: a rest, and a frame below a chunk; a queue of 3 for ticks of 2 or 3 messages, so that it overflows; cancellation at every point |

Runs that are expected to fail show where the code and what is said of it part:

| Run | What TLC finds |
| :-- | :-- |
| `stream_reopen` | gomavlib closes the connection of a sender, the sender sends again: `readLoop` reads that later datagram, finds the dead connection in the map, writes to the closed pipe and goes on; the datagram is lost while the listener is open, and no new connection is offered. What was pending when the connection closed does not count. `docs/ARCHITECTURE.md:42` promises continuous streams per sender. |
| `link_components` | two components that count their own frames, no loss, up to 255 frames reported lost per turn; `docs/ARCHITECTURE.md:63` says numbers are tracked per component. |
| `doctor_serial` | the documented serial command ends in "serial transport requires client mode". |
| `doctor_export` | the file could not be written and the terminal names it: on the trace no frame was decoded and the line is "Detailed diagnostic report saved to" (`terminal.go:148-149`); the path with frames (`204-205`) has the same test. |
| `survey_redacted` | our port is taken, the report is exported with `-redact`: the socket in our way and the error of the test bind show the address in full, though the same socket is masked in the list of UDP sockets. The repository's `README.md:136` promises a sanitized report. |
| `simulator_chunks` | a datagram of the chunked simulator ends with its frame and may be shorter than the chunk size; `mock_server.go:19` and `:140` say fixed size and across frames. With the 115 bytes of `test/integration_test.go` every frame of the simulator fits one datagram, so the test never sees a frame in two pieces. |

Differences of code and text that were seen while modelling and have no run of
their own:

* `tracker.go:178` calls an average interval of up to 2500 ms (0.4 Hz) healthy; the
  comment in line 177 says 0.5 Hz. `Healthy` follows the code; `HeartbeatStatsExact`
  asks for a verdict only outside 2000 to 2500 ms, where both say the same.
* `gimbal.go:89` confirms a gimbal for any message of component 154 or 155, and
  the manager messages confirm one too, as `docs/ARCHITECTURE.md:53-60` lists; the
  repository's `README.md:153` says confirmation requires one of three messages.
  `Indicates` follows the code. `EvidenceFaithful` asks that those three confirm and
  that nothing beyond the longer list does; what lies between is left open. The
  evidence may keep the kind named by one source beside the ids of another; no
  document says that it must not.
* A frame overtaken by the next one on a UDP path makes the difference of the
  sequence numbers negative, which modulo 256 is a charge of up to 255 frames
  although none is lost; `docs/ARCHITECTURE.md:63` speaks of exact counts.
  `DropsExact` is therefore stated of links that keep the order.
* With `-transport auto` an explicit `-mode` is resolved again from `-address`
  (`main.go:144-163`), so `ModeObeyed` speaks of `udp` and `tcp` only.
* One heartbeat alone is reported with the minimum interval 999999 ms.
* `support_report.go:32` says "Deep copy & redact", and the repository's
  `README.md:136` speaks of the exported report, but the redaction writes to what it
  shares with `main`: the output of `-json` is redacted as well, also when the file
  could not be written. `ExportSupportReport` follows the code and no property calls
  this right.
* What `survey_redacted` shows of two fields is so of others: the error of the raw
  test, the results of the subnet probe, IPv6 addresses even in the fields that are
  covered, and MAC addresses everywhere, though `README.md:27`, `:136` and
  `docs/ARCHITECTURE.md:72` promise them masked. `RedactedReport` claims only what is
  masked: the IPv4 addresses of the covered fields, loopback excepted.
* `subnet_probe.go:11` and `README.md:28` speak of responding or responsive hosts and
  `README.md:133` of active ones; the code lists every host that could be dialled,
  which for UDP needs a route and no answer. `ProbeComplete` asks only for what both
  allow: the hosts that answered are in the result, and none that could not be dialled.
* `-export-report` is documented as empty by default (`README.md:135`); the default of
  the flag is `mavlink-doctor-report.json`.
* An address that does not parse is tested as 0.0.0.0 (`parseIP`) while the node
  resolves it: the port is called available and the node cannot start.
  `AvailableMeansBindable` speaks of listen addresses that are one, or a name of this
  computer.
* `subnet_probe.go:70` skips addresses that end in 0 or 255 in networks of any
  size: hosts of a larger network are left out, and the broadcast address of a
  smaller one is probed. `Hosts` follows the code.
* A port whose number begins with ours, or a peer with our port, makes the port a
  "Conflict (In use by another process)" (`terminal.go:63`) although the test bind
  succeeded. `PortVerdict` claims nothing of the kind.
* `json.go:63` notes that no packets were received although, where the sniffer
  did not run, parse errors of the monitor may have been counted.
* The chunked simulator ignores `SendGimbal` and `UseMavlink1`.

### Fairness

`UdpStreamServer!FairSpec`: a goroutine that can run does (weak fairness of
`readLoop`, of the body of `Close`, of each reader, and of `Accept`). Nothing is
assumed of senders, of the network, of errors or of the user. `Doctor!FairSpec`:
`main` goes on when it can; Go's `select` chooses at random among what is ready,
so a ready timer or a done context is taken in the end. Nothing makes the timer
fire: `EveryRunEnds` has that as its premise (`TimePasses`), and
`InterruptEndsRun` does without it. That `node.Close` returns, which `Doctor`
takes for granted, is `CloseReturns` of `UdpStreamServer`. `Survey!FairSurvey`:
`main` and each goroutine of the probe go on when they can, for a dial ends after
300 ms and the sniffer at its deadline; no datagram has to arrive.
`Simulator!FairSpec`: the goroutines go on when they can; nothing is assumed of
the ticker or of who cancels.

### What liveness does not hold

`SweptLoopEnds` is as strong as the code allows. A sender that `readLoop` has
read but not yet registered when `Close` sweeps gets a connection nobody closes
and nobody accepts; `readLoop` then waits in `pipeW.Write` for ever. In the
program this is a goroutine left behind just before exit.

## What is proved

Assumed are only the properties of the constants named in each module
(`ServerAssumption`, `DoctorAssumption`, `TrackerAssumption`, `LinkAssumption`,
`ProbeAssumption`, `PortAssumption`, `SnifferAssumption`, `SurveyAssumption`,
`SimulatorAssumption`), which say what kind of thing a constant is and that
capacities are not negative. Three say more: `ServerAssumption` wants a channel of
at least one place, `LinkAssumption` bursts shorter than the range of a sequence
number, which is what eight bits can tell, and `ProbeAssumption` a limit that the
network of all addresses reaches. TLC evaluates each of them in the run of its
module. Every invariant that a passing run checks is proved, and so is the
refinement of the stream server.

`UdpStreamServerProofs`, for every set of senders, every capacity, buffer size,
datagram length and bound: the inductive invariant is

    IInv == TypeOK /\ PacketHeld /\ OneOffer /\ OneEscapes /\ Reassembled

`PacketHeld` ties the place of `readLoop` to the datagram in its hand.
`OneOffer` is why the `default:` branch of the offer is dead: a connection that
waits for `Accept` is the one whose pipe `readLoop` is blocked in (or the sweep
closed it, and then so is the socket), so the channel is empty whenever
`readLoop` offers another. Without it `EverySenderOffered` is not inductive.
`OneEscapes` says which connection may escape the sweep, the one whose datagram
was in hand. `Reassembled` is `StreamIntegrity` with the pending bytes of the
pipe. From it: `TypeCorrect`, `EverySenderIsOffered`, `OneReader`,
`CloseMissesAtMostOne`, `StreamsAreWhole`, and `Refinement`: every step of the
server is a step of `SenderStreams` or leaves its variables alone.

`DoctorProofs`, for every set of command lines and all bounds:

    IInv == TypeOK /\ PortReleased /\ NotYet /\ Reached /\ PortKept
              /\ AvailableMeansBindable

`NotYet` says what a phase that has not come cannot have left behind (no endpoint
before `configure`, no sniffer before `bindRaw`, no complaint about the node
before `initialize`). `Reached` says what a phase that was reached tells of the
options (the sniffer ran without `-address` on `auto` or `udp`, the endpoint is
the one `EndpointFor` gives for accepted options), from which
`SniffsWhatItServes` and `ModeObeyed` follow by the lemmas `SnifferServes` and
`AcceptedMode` about `Accepts`, `ResolvedMode` and `EndpointFor`. `PortKept` is
what makes the verdict last: the address tested is the wildcard or one of the
computer's, and between `CheckPort` and the last bind an available and undisturbed
port is free or the program's own. Without it
`AvailableMeansBindable` is not inductive, because a state in which the verdict
is right and another process holds the port undisturbed would pass.

`TrackerProofs`, for any systems, components, messages, delays and number of calls:

    IInv == now \in Nat /\ totalParseErrors \in Nat /\ FrameInv /\ BeatInv

`FrameInv` is about what `RecordFrame` writes. Its types and `FrameClock` (no
arrival after now) make an interval a natural number. `Unseen` (what has no entry
has nothing counted) is why the first frame of a source adds one to the sum of
`CountsAgree`. `LastSeqKept` ties `sysLastSeq` to the last frame of the system in
the history; with it one more frame adds `Gap(last, seq)` to the charges and just
that to the distance between first and last, modulo 256 (`GapAccounts`).
`BeatInv` is about what `RecordHeartbeat` writes: `BeatClock` (heartbeats are in the
order of time), `Extremes` (minimum and maximum are those of all intervals and of
the values they start from) and `EndsExact` (count, first, last and `healthy`).
Each interval loses less than a microsecond when it is cut, so the distance from
first to last is less than a microsecond for each interval above the sum of what is
kept: hence the bound of `MeanBetweenExtremes`.
`HeartbeatStatsExact` itself is not inductive: it says nothing of the initial
minimum of 999999 ms, which stays in the minimum until an interval is below it.

`MonitorProofs`: a frame event is `RecordFrame`, the detector and for a heartbeat
`RecordHeartbeat` in a row, so it has the two effects `TrackerProofs` speaks of, and
the tracker's invariant is part of the monitor's:

    MonitorInv == IInv /\ EvidenceTypes /\ SourcesKept /\ LastArrivalKept
                    /\ JitterIffChanged /\ HeartbeatsCounted /\ EvidenceKept
                    /\ FirstSight

`LastArrivalKept` says that the time and the interval kept of a source are those of
its last frame and its last two, which is what the next jitter is computed from.
`EvidenceKept` says what the code keeps, every telling message in order, from which
the weaker `EvidenceFaithful` follows. For the link

    LinkInv   == MonitorInv /\ LinkTypes
    SharedInv == LinkInv /\ Chained /\ DropsExact

the second where components share a counter.

`Chained` follows the numbers of one system from the last frame that arrived over
each frame on the link to the next that will be sent: each is its predecessor's plus
one plus the frames lost in between. So the gap the tracker computes when a frame
arrives is what was lost before it, as long as that is below 256. For components
that count their own frames `DropsExact` is false (`link_components`), and the
theorem has `~PerComponent` as its hypothesis.

`SubnetProbeProofs`, for every set of networks, limit and number of permits:

    IInv == ProbeTypeOK /\ Room /\ Pool /\ Lock /\ Collecting

`Pool` ties the counters to the goroutines: `sem` counts those that hold a permit,
`wg` those not done, and goroutines are started in order. `Lock` says that one
goroutine at a time is between reading `found` and assigning it, and that what it
read is still there; without it the lost append that `ProbeComplete` excludes is
not excluded by any single state. `Collecting` says which hosts `found` has while
goroutines run: those of the goroutines that dialled and are past their append. When `wg` is 0 no goroutine
runs, hence `ResultComplete`: `ProbeComplete` in every state. `ProbeTypeCorrect`
needs `Pool` (`sem` and `wg` never go below zero) and `Room` (a host is added only
below the limit).

For the list of hosts the invariant is `ProbeInv == IInv /\ Listing`. `Listing`
says of the loop of `generateIPs`: the cursor is in the network, every host up to
it is listed and nothing beyond it, in order. The danger is the carry: `Inc` of the
last address is the first, and a cursor that came round would list hosts twice.
Outside the network of all addresses the loop ends first, because the address after
the last of a network is not in it (lemmas `Block` and `Rectangle`: what a mask does
not tell apart is a block of addresses that begins at a multiple of its length). In
the network of all addresses `Listing` counts the hosts by the cursor
(`HostsUpTo`), and the limit is reached before it comes round (`NoWrap`).

`SurveyProofs`, for every command line and host, every table and outcome:

    SurveyInv == ProbeInv /\ SnifferInv /\ PortChecked /\ Reported
                   /\ types of the job, the stage and the outcome

The probe's invariant carries over because the steps of `Survey` that are not the
probe's leave its variables alone. `SnifferInv` has the counters as sums over the
datagrams that arrived, `PortChecked` keeps the status as it was found, and
`Reported` says what `main`'s result, the file and the output are at each stage, as
functions of what was collected: before the export the result is what was
collected, after a redaction it is `redactResult` of that, in `main` as well as in
the file. The properties follow from it by lemmas about the operators alone
(`Redaction`, `OwnPortFound`).

`SimulatorProofs`, for every chunk and frame size, queue and number of ticks:

    IInv == TypeOK /\ Stages /\ Unbroken /\ Hands /\ OnTheWay /\ Pieces

`OnTheWay` says that the chunker's bytes continue those the socket was given and
those in the pipe continue the chunker's, and, while the writer runs, that there are
no others. It does not ask whether a `Write` succeeded, which is why a failure leaves
the order of what follows intact. `Hands` says who may hold bytes: the pipe is empty
once the writer ended, and the chunker holds some exactly while it sends. `Stages`
says which goroutines there are at each place of the sender. `Unbroken` (no pipe closed, no goroutine ended
before the cancellation) gives the second half of `ChunksCarryStream`. `Cut` is the
lemma about a run of bytes cut in two that a read of the pipe is.

`CountingTheorems` has what these proofs need of data. The library's induction
takes an operator as a parameter, which the provers cannot instantiate; here
induction over the natural numbers and over finite sets is stated for a set (of
numbers, of subsets), and from it that `SumFunctionOnSet` is additive, although the
community module defines it by recursion. To stay within reach the properties of
`Tracker`, `Monitor`, `RawSniffer` and `Simulator` speak of positions in a history
(`ArrivalsOf`, `BeatsOf`, `Neighbours`, `BytesAfter`) and not of sequences that are
selected or flattened from it.

### What is only model-checked

* Liveness (`CloseReturns`, `LoopReturnsToSocket` and `SweptLoopEnds` of `stream`,
  `EveryRunEnds` and `InterruptEndsRun` of `doctor`, `SurveyEnds` of `survey`,
  `SenderReturns` and `TrafficFlows` of `simulator`): the prover has no ENABLED and
  no fairness.
* What the runs that expect a violation show: a counterexample needs no proof.

## What is not modelled

* Terminal tables, enum names, dialects, frame inspection but for
  `LooksLikeMAVLink`, version and capture commands: wording and lookups by value.
* Interface, route, serial and socket discovery: the output of system tools,
  parsed into records. What `ScanUDPSockets` finds is a free choice in `Doctor`
  and given with the job in `Survey`.
* Byte counts, rates and percentages of the tracker: quotients of what is kept.
* Everything inside gomavlib, except as described above.
* The wording of notes and tables; the callback of the sniffer, which prints.

## Plan

1. `Report` for the monitor: the snapshot and the rates of `metrics/tracker.go` as
   quotients of what is kept, with their guards against division by zero.
2. An abstract `Survey` of two steps, find and report, and `Survey` shown to
   implement it, from `Reported`.
3. The first half of each liveness argument that needs no fairness, as an
   invariant: who can take a step while a `Close` or a run is not at its end.
