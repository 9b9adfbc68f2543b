---------------------------- MODULE TelemetryLink ----------------------------
(***************************************************************************)
(* The live monitor (Monitor) at the end of a telemetry link that loses     *)
(* frames, to compare the losses the tracker reports with those that        *)
(* happened.  A sender numbers the frames it puts on the link; the frame     *)
(* carries the number modulo 256.  The senders and the link are not code    *)
(* of the repository: the simulator's loops send frames as they do, with     *)
(* one counter per channel, and nothing else is assumed of them.  Frames    *)
(* are lost whole and arrive in the order sent, with noise between them that  *)
(* does not parse; what the tracker does with any order, Tracker says        *)
(* (GapsAccounted).                                                         *)
(***************************************************************************)
EXTENDS Monitor

CONSTANTS
  PerComponent,  \* each component counts its own frames; else the system does
  StartNumbers,  \* numbers of the first frames
  Bursts,        \* numbers of frames the link loses between two others
  WireCap,       \* frames on the link
  MaxSent        \* bound: frames of each counter that are not lost

ASSUME LinkAssumption ==
  /\ PerComponent \in BOOLEAN
  /\ StartNumbers \subseteq Nat /\ Bursts \subseteq 1..255
  /\ WireCap \in Nat /\ MaxSent \in Nat

VARIABLES
  nextNr,   \* number of the next frame of each counter
  gone,     \* frames of each counter lost since the last that was not
  carried,  \* frames of each counter put on the link and not lost
  wire,     \* frames on the link: of whom, which number, how many lost before
  lost      \* history: lost frames revealed by the frames of each source

linkVars == <<nextNr, gone, carried, wire, lost>>

(* The counter that numbers the frames of a source. *)
CounterOf(k) == IF PerComponent THEN k ELSE <<k[1]>>
Counters == {CounterOf(k) : k \in Keys}

LinkInit ==
  /\ MonitorInit
  /\ nextNr \in [Counters -> StartNumbers]
  /\ gone = [c \in Counters |-> 0]
  /\ carried = [c \in Counters |-> 0]
  /\ wire = << >>
  /\ lost = [k \in Keys |-> 0]

LinkTypeOK ==
  /\ MonitorTypeOK
  /\ nextNr \in [Counters -> Nat]
  /\ gone \in [Counters -> 0..255]
  /\ carried \in [Counters -> 0..MaxSent]
  /\ wire \in Seq([key : Keys, nr : Nat, before : 0..255])
  /\ lost \in [Keys -> Nat]

------------------------------------------------------------------------------
PutOnWire(k) ==
  LET c == CounterOf(k)
  IN  /\ Len(wire) < WireCap /\ carried[c] < MaxSent
      /\ wire' = Append(wire, [key |-> k, nr |-> nextNr[c], before |-> gone[c]])
      /\ nextNr' = [nextNr EXCEPT ![c] = @ + 1]
      /\ carried' = [carried EXCEPT ![c] = @ + 1]
      /\ gone' = [gone EXCEPT ![c] = 0]
      /\ UNCHANGED <<monitorVars, lost>>

(* n frames in a row are lost.  A run of 256 cannot be seen in a sequence       *)
(* number of 8 bits, so a run is at most 255.                                   *)
LoseBurst(c, n) ==
  /\ gone[c] = 0
  /\ nextNr' = [nextNr EXCEPT ![c] = @ + n]
  /\ gone' = [gone EXCEPT ![c] = n]
  /\ UNCHANGED <<monitorVars, carried, wire, lost>>

(* The monitor handles the first frame on the link, some time after the event    *)
(* before it.  What was lost before the first frame of a counter that arrives    *)
(* is unknown to any receiver.                                                  *)
Deliver ==
  LET f     == Head(wire)
      known == \E a \in Range(arrived) : CounterOf(KeyOf(a.frame)) = CounterOf(f.key)
  IN  /\ wire # << >>
      /\ \E m \in Messages, v \in Versions, d \in FrameDelays :
           FrameEvent([sys |-> f.key[1], comp |-> f.key[2],
                       seq |-> f.nr % SeqSpace, ver |-> v, msg |-> m], d)
      /\ wire' = Tail(wire)
      /\ lost' = IF known THEN [lost EXCEPT ![f.key] = @ + f.before] ELSE lost
      /\ UNCHANGED <<nextNr, gone, carried>>

(* Noise on the link costs no frame. *)
Noise == ParseErrorEvent /\ UNCHANGED linkVars

LinkNext ==
  \/ \E k \in Keys : PutOnWire(k)
  \/ \E c \in Counters, n \in Bursts : LoseBurst(c, n)
  \/ Deliver
  \/ Noise

LinkSpec == LinkInit /\ [][LinkNext]_<<monitorVars, linkVars>>
------------------------------------------------------------------------------
(* Properties. *)

(* "Computes exact dropped frame counts" (docs/ARCHITECTURE.md:63): every frame *)
(* the link lost is charged once, to the source whose frame revealed it, across  *)
(* wraps of the 8-bit number and when sources of one counter take turns.         *)
DropsExact == \A k \in Keys : stats[k].dropped = lost[k]

(* "Tracks sequence numbers modulo 256 for each distinct (SystemID,              *)
(* ComponentID) stream" (docs/ARCHITECTURE.md:63): sources that number their     *)
(* own frames and lose none are charged with none.                               *)
NoFalseDrops ==
  (\A k \in Keys : lost[k] = 0) => \A k \in Keys : stats[k].dropped = 0
==============================================================================
