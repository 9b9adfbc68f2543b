------------------------------ MODULE RawSniffer ------------------------------
(***************************************************************************)
(* ListenRawUDP of internal/transport/raw_listener.go: what it counts of the  *)
(* datagrams that arrive before its deadline.                                *)
(***************************************************************************)
EXTENDS Naturals, Sequences, SequencesExt

CONSTANTS
  Senders,       \* addresses that send to the port
  Sizes,         \* sizes of datagrams, 0 among them
  SampleCap,     \* sizes kept, 10 in the code
  MaxDatagrams   \* bound

(* magic: the buffer begins with 0xFD or 0xFE, left there by an earlier datagram *)
(* when this one is empty.                                                      *)
Datagram == [from : Senders, size : Sizes, magic : BOOLEAN]

ASSUME SnifferAssumption ==
  Sizes \subseteq Nat /\ SampleCap \in Nat /\ MaxDatagrams \in Nat

VARIABLES
  summary,   \* the PacketSummary
  sniffed    \* history: the datagrams

snifferVars == <<summary, sniffed>>

NoPackets == [total |-> 0, bytes |-> 0, mavlinkLike |-> 0, senders |-> << >>,
              sizes |-> << >>, failed |-> FALSE]

SnifferInit == summary = NoPackets /\ sniffed = << >>

SnifferTypeOK ==
  /\ summary \in [total : Nat, bytes : Nat, mavlinkLike : Nat, senders : Seq(Senders),
                  sizes : Seq(Sizes), failed : BOOLEAN]
  /\ sniffed \in Seq(Datagram)

(* Mutant: the first byte of the buffer is the datagram's, however long it is. *)
LooksLikeMAVLinkAlways(d) == d.magic

LooksLikeMAVLink(d) == d.size > 0 /\ d.magic

(* One turn of the loop. *)
Receive(d) ==
  /\ Len(sniffed) < MaxDatagrams
  /\ sniffed' = Append(sniffed, d)
  /\ summary' =
       [summary EXCEPT
          !.total = @ + 1,
          !.bytes = @ + d.size,
          !.sizes = IF Len(@) < SampleCap THEN Append(@, d.size) ELSE @,
          !.senders = IF Contains(@, d.from) THEN @ ELSE Append(@, d.from),
          !.mavlinkLike = IF LooksLikeMAVLink(d) THEN @ + 1 ELSE @]

(* The socket cannot be bound: the summary says so and nothing else. *)
ListenFails ==
  /\ summary' = [summary EXCEPT !.failed = TRUE]
  /\ UNCHANGED sniffed

(* The summary is that of the datagrams that arrived: each is counted and looks    *)
(* like MAVLink only by a byte of its own; the first sizes are kept as they came;  *)
(* each sender is listed, once, and before another only if it sent before.        *)
SummaryExact ==
  LET All  == DOMAIN sniffed
      kept == IF Len(sniffed) <= SampleCap THEN Len(sniffed) ELSE SampleCap
  IN  /\ summary.total = Len(sniffed)
      /\ summary.bytes = SumFunction([i \in All |-> sniffed[i].size])
      /\ summary.mavlinkLike =
           Cardinality({i \in All : sniffed[i].size > 0 /\ sniffed[i].magic})
      /\ summary.sizes = [i \in 1..kept |-> sniffed[i].size]
      /\ Range(summary.senders) = {sniffed[i].from : i \in All}
      /\ \A m, n \in DOMAIN summary.senders : m < n =>
           \A i \in All : sniffed[i].from = summary.senders[n] =>
             \E j \in 1..i - 1 : sniffed[j].from = summary.senders[m]
==============================================================================
