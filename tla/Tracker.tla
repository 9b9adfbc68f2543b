------------------------------- MODULE Tracker -------------------------------
(***************************************************************************)
(* The telemetry tracker of internal/metrics/tracker.go: what it keeps and  *)
(* what RecordFrame, RecordHeartbeat and RecordParseError do to it.  Each   *)
(* of them holds the tracker's lock from start to end, so each is one step. *)
(* t is what time.Now() returned, in ticks of a clock finer than the        *)
(* microseconds that intervals are reported in.  The specification calls    *)
(* them in any order, as a test of the package may; Monitor calls them as   *)
(* the program does.                                                        *)
(*                                                                         *)
(* Byte counts (12 per frame, like the frame counts) and the rates that are *)
(* quotients of what is kept here are left out.  JitterMs is kept as        *)
(* whether it is above zero: it starts at 0, is set to the first change of  *)
(* the interval, and a moving average of it never returns to 0.             *)
(***************************************************************************)
EXTENDS Integers, Sequences, FiniteSets, SequencesExt, FiniteSetsExt

CONSTANTS
  Systems,     \* MAVLink system ids
  Components,  \* MAVLink component ids
  Versions,    \* names FrameVersion returns
  Messages,    \* decoded messages: [type |-> Go type, gimbal |-> says it is one]
  Milli,       \* clock ticks in a millisecond (1000000 in the code)
  Micro,       \* clock ticks in a microsecond (1000 in the code)
  SeqChoices,  \* sequence numbers the frames of the specification carry
  FrameDelays, \* ticks from a call to a frame
  BeatDelays,  \* ticks from a call to a call of RecordHeartbeat
  MaxCalls,    \* bound: number of calls of RecordFrame and RecordHeartbeat
  MaxErrors    \* bound: number of parse errors

ASSUME TrackerAssumption ==
  /\ Milli \in Nat \ {0} /\ Micro \in Nat \ {0} /\ Milli % Micro = 0
  /\ SeqChoices \subseteq 0..255
  /\ FrameDelays \subseteq Nat /\ BeatDelays \subseteq Nat
  /\ MaxCalls \in Nat /\ MaxErrors \in Nat
  /\ IsFiniteSet(Systems) /\ IsFiniteSet(Components)
  /\ IsFiniteSet(Versions) /\ IsFiniteSet(Messages)

VARIABLES
  now,                       \* the clock
  totalFrames, totalParseErrors,
  versionCounts, messageCounts,
  sources,                   \* keys of t.sources
  stats,                     \* the SourceMetrics of each key
  sysLastSeq, sysHasSeq,     \* last sequence number of each system
  heartbeat,                 \* HeartbeatStats of each key, count = 0 for nil
  arrived,                   \* history: the frames recorded, and when
  beats                      \* history: the heartbeats recorded, and when

frameVars  == <<totalFrames, versionCounts, messageCounts, sysLastSeq, sysHasSeq>>
sourceVars == <<sources, stats>>
vars == <<now, totalParseErrors, sourceVars, heartbeat, frameVars, arrived,
          beats>>

SeqSpace == 256
SeqNumbers == 0..SeqSpace - 1
Keys == Systems \X Components
MessageTypes == {m.type : m \in Messages}

Frame == [sys : Systems, comp : Components, seq : SeqNumbers,
          ver : Versions, msg : Messages]
KeyOf(fr) == <<fr.sys, fr.comp>>

SourceMetrics == [frames : Nat, dropped : Nat, lastArrival : Nat,
                  lastInterval : Nat, jitter : BOOLEAN]
NewSource(t) == [frames |-> 0, dropped |-> 0, lastArrival |-> t,
                 lastInterval |-> 0, jitter |-> FALSE]

HeartbeatStats == [count : Nat, first : Nat, last : Nat, min : Nat, max : Nat,
                   healthy : BOOLEAN]
NoHeartbeat == [count |-> 0, first |-> 0, last |-> 0, min |-> 0, max |-> 0,
                healthy |-> FALSE]
UnsetMin == 999999 * Milli   \* MinIntervalMs before there is an interval

(* NewTracker. *)
Init ==
  /\ now = 0
  /\ totalFrames = 0
  /\ totalParseErrors = 0
  /\ versionCounts = [v \in Versions |-> 0]
  /\ messageCounts = [m \in MessageTypes |-> 0]
  /\ sources = {}
  /\ stats = [k \in Keys |-> NewSource(0)]
  /\ sysLastSeq = [s \in Systems |-> 0]
  /\ sysHasSeq = {}
  /\ heartbeat = [k \in Keys |-> NoHeartbeat]
  /\ arrived = << >>
  /\ beats = << >>

TypeOK ==
  /\ now \in Nat
  /\ totalFrames \in Nat
  /\ totalParseErrors \in Nat
  /\ versionCounts \in [Versions -> Nat]
  /\ messageCounts \in [MessageTypes -> Nat]
  /\ sources \subseteq Keys
  /\ stats \in [Keys -> SourceMetrics]
  /\ sysLastSeq \in [Systems -> SeqNumbers]
  /\ sysHasSeq \subseteq Systems
  /\ heartbeat \in [Keys -> HeartbeatStats]
  /\ arrived \in Seq([frame : Frame, at : Nat])
  /\ beats \in Seq([key : Keys, at : Nat])

------------------------------------------------------------------------------
(* Mutant: the difference is not reduced to 8 bits. *)
GapSigned(last, cur) == cur - last - 1

(* Mutant: the expected number is not allowed for. *)
GapOffByOne(last, cur) ==
  IF cur = (last + 1) % SeqSpace THEN 0 ELSE (SeqSpace + cur - last) % SeqSpace

(* Mutant: the sum is not reduced to 8 bits. *)
GapUnreduced(last, cur) ==
  IF cur = (last + 1) % SeqSpace THEN 0 ELSE SeqSpace + cur - last - 1

(* Frames missing between two sequence numbers of one system. *)
Gap(last, cur) ==
  IF cur = (last + 1) % SeqSpace THEN 0 ELSE (SeqSpace + cur - last - 1) % SeqSpace

(* Mutant: the first interval, which nothing precedes, counts as jitter. *)
AfterFrameFirstJitter(sm, fr, t) ==
  LET known    == fr.sys \in sysHasSeq
      interval == t - sm.lastArrival
      lost     == IF known THEN Gap(sysLastSeq[fr.sys], fr.seq) ELSE 0
  IN  [frames       |-> sm.frames + 1,
       dropped      |-> sm.dropped + lost,
       lastArrival  |-> t,
       lastInterval |-> IF known THEN interval ELSE sm.lastInterval,
       jitter       |-> sm.jitter \/ (known /\ interval # sm.lastInterval)]

(* The SourceMetrics a frame leaves, from those it found.  A sequence number   *)
(* is compared with the last one of the whole system; the arrival times are    *)
(* the source's own, and count from the system's second frame on.              *)
AfterFrame(sm, fr, t) ==
  LET known    == fr.sys \in sysHasSeq
      interval == t - sm.lastArrival
      lost     == IF known THEN Gap(sysLastSeq[fr.sys], fr.seq) ELSE 0
  IN  [frames       |-> sm.frames + 1,
       dropped      |-> sm.dropped + lost,
       lastArrival  |-> t,
       lastInterval |-> IF known THEN interval ELSE sm.lastInterval,
       jitter       |-> \/ sm.jitter
                        \/ known /\ sm.lastInterval > 0 /\ interval # sm.lastInterval]

(* Mutant: the frame that creates a source is not counted for it. *)
RecordFrameSkipsFirst(fr, t) ==
  LET k == KeyOf(fr)
  IN  /\ totalFrames' = totalFrames + 1
      /\ versionCounts' = [versionCounts EXCEPT ![fr.ver] = @ + 1]
      /\ messageCounts' = [messageCounts EXCEPT ![fr.msg.type] = @ + 1]
      /\ sources' = sources \cup {k}
      /\ stats' = [stats EXCEPT ![k] = IF k \in sources THEN AfterFrame(@, fr, t)
                                                      ELSE NewSource(t)]
      /\ sysLastSeq' = [sysLastSeq EXCEPT ![fr.sys] = fr.seq]
      /\ sysHasSeq' = sysHasSeq \cup {fr.sys}

RecordFrame(fr, t) ==
  LET k     == KeyOf(fr)
      found == IF k \in sources THEN stats[k] ELSE NewSource(t)
  IN  /\ totalFrames' = totalFrames + 1
      /\ versionCounts' = [versionCounts EXCEPT ![fr.ver] = @ + 1]
      /\ messageCounts' = [messageCounts EXCEPT ![fr.msg.type] = @ + 1]
      /\ sources' = sources \cup {k}
      /\ stats' = [stats EXCEPT ![k] = AfterFrame(found, fr, t)]
      /\ sysLastSeq' = [sysLastSeq EXCEPT ![fr.sys] = fr.seq]
      /\ sysHasSeq' = sysHasSeq \cup {fr.sys}

(* At least two heartbeats, from so many to so many milliseconds apart on      *)
(* average.  The average is of the exact times.                                *)
BeatsAverage(count, first, last, low, high) ==
  /\ count >= 2
  /\ (low * Milli) * (count - 1) <= last - first
  /\ last - first <= (high * Milli) * (count - 1)

(* What IsHealthy is set to. *)
Healthy(count, first, last) == BeatsAverage(count, first, last, 200, 2500)

(* Duration.Microseconds: whole microseconds, what is over them is dropped. *)
WholeMicros(d) == d - (d % Micro)

(* Mutant: MinIntervalMs starts at 0, as MaxIntervalMs does. *)
AfterHeartbeatZeroMin(hb, t) ==
  LET interval == WholeMicros(t - hb.last)
      count    == hb.count + 1
  IN  IF hb.count = 0
      THEN [NoHeartbeat EXCEPT !.count = 1, !.first = t, !.last = t]
      ELSE [count   |-> count,
            first   |-> hb.first,
            last    |-> t,
            min     |-> IF interval < hb.min THEN interval ELSE hb.min,
            max     |-> IF interval > hb.max THEN interval ELSE hb.max,
            healthy |-> IF t > hb.first THEN Healthy(count, hb.first, t)
                                        ELSE hb.healthy]

(* Mutant: intervals are measured from the first heartbeat. *)
AfterHeartbeatFromFirst(hb, t) ==
  LET interval == WholeMicros(t - hb.first)
  IN  IF hb.count = 0
      THEN [NoHeartbeat EXCEPT !.count = 1, !.first = t, !.last = t, !.min = UnsetMin]
      ELSE [hb EXCEPT !.count = @ + 1,
                      !.last = t,
                      !.min = IF interval < @ THEN interval ELSE @,
                      !.max = IF interval > @ THEN interval ELSE @]

(* The HeartbeatStats a heartbeat leaves, from those it found.  The extremes   *)
(* are of intervals in whole microseconds, the average is not rounded.         *)
AfterHeartbeat(hb, t) ==
  LET interval == WholeMicros(t - hb.last)
      count    == hb.count + 1
  IN  IF hb.count = 0
      THEN [count |-> 1, first |-> t, last |-> t, min |-> UnsetMin, max |-> 0,
            healthy |-> FALSE]
      ELSE [count   |-> count,
            first   |-> hb.first,
            last    |-> t,
            min     |-> IF interval < hb.min THEN interval ELSE hb.min,
            max     |-> IF interval > hb.max THEN interval ELSE hb.max,
            healthy |-> IF t > hb.first THEN Healthy(count, hb.first, t)
                                        ELSE hb.healthy]

(* What RecordHeartbeat does to the statistics of a source that exists. *)
UpdateHeartbeat(k, t) ==
  heartbeat' = [heartbeat EXCEPT ![k] = AfterHeartbeat(@, t)]

RecordHeartbeat(k, t) ==
  /\ UpdateHeartbeat(k, t)
  /\ sources' = sources \cup {k}
  /\ stats' = IF k \in sources THEN stats ELSE [stats EXCEPT ![k] = NewSource(t)]

RecordParseError ==
  /\ totalParseErrors' = totalParseErrors + 1
  /\ UNCHANGED <<now, sourceVars, heartbeat, frameVars, arrived, beats>>

------------------------------------------------------------------------------
(* The frames the specification records. *)
Incoming == {fr \in Frame : fr.seq \in SeqChoices}

CallsLeft == Len(arrived) + Len(beats) < MaxCalls

FrameCall(fr, d) ==
  /\ CallsLeft
  /\ now' = now + d
  /\ RecordFrame(fr, now')
  /\ arrived' = Append(arrived, [frame |-> fr, at |-> now'])
  /\ UNCHANGED <<totalParseErrors, heartbeat, beats>>

HeartbeatCall(k, d) ==
  /\ CallsLeft
  /\ now' = now + d
  /\ RecordHeartbeat(k, now')
  /\ beats' = Append(beats, [key |-> k, at |-> now'])
  /\ UNCHANGED <<totalParseErrors, frameVars, arrived>>

ParseErrorCall == totalParseErrors < MaxErrors /\ RecordParseError

Next ==
  \/ \E fr \in Incoming, d \in FrameDelays : FrameCall(fr, d)
  \/ \E k \in Keys, d \in BeatDelays : HeartbeatCall(k, d)
  \/ ParseErrorCall

Spec == Init /\ [][Next]_vars
------------------------------------------------------------------------------
(* Properties. *)

(* One frame, one count: the total, the counts by version and by message and   *)
(* the counts by source that Snapshot copies out side by side agree.            *)
CountsAgree ==
  /\ totalFrames = SumFunction(versionCounts)
  /\ totalFrames = SumFunction(messageCounts)
  /\ totalFrames = SumFunction([k \in Keys |-> stats[k].frames])

(* The frames recorded of a system, and those charged to its sources as lost.   *)
FramesOf(s) == {i \in DOMAIN arrived : arrived[i].frame.sys = s}
Charged(s)  == SumFunction([c \in Components |-> stats[<<s, c>>].dropped])

(* Whatever order the sequence numbers of a system come in, the frames its     *)
(* sources are charged with account, modulo 256, for the distance between the  *)
(* first and the last of them: no gap is charged twice or to no source, also   *)
(* when sources of one system take turns.                                       *)
GapsAccounted ==
  \A s \in sysHasSeq : \A i, j \in FramesOf(s) :
    (\A h \in FramesOf(s) : i <= h /\ h <= j) =>
      (Charged(s) + Cardinality(FramesOf(s)) - 1) % SeqSpace
        = (arrived[j].frame.seq - arrived[i].frame.seq) % SeqSpace

(* A frame is charged with at most 255 lost ones, and the first of a system    *)
(* with none, so PacketLossPct stays below 100.                                 *)
LossBounded ==
  \A k \in Keys : stats[k].dropped <= (SeqSpace - 1) * stats[k].frames

(* i and j are neighbours among the positions S of a history. *)
Neighbours(S, i, j) == i < j /\ \A h \in S : h <= i \/ j <= h

(* The heartbeats recorded of k, and the times from one to the next in whole    *)
(* microseconds.                                                                *)
BeatsOf(k) == {i \in DOMAIN beats : beats[i].key = k}
Intervals(k) ==
  {WholeMicros(beats[ij[2]].at - beats[ij[1]].at) :
     ij \in {ij \in BeatsOf(k) \X BeatsOf(k) : Neighbours(BeatsOf(k), ij[1], ij[2])}}

(* HeartbeatStats are what the arrival times of the heartbeats make them: the  *)
(* running count, ends and extremes agree with those computed at once.  A      *)
(* source whose heartbeats average 200 to 2000 ms is called healthy, one       *)
(* outside 200 to 2500 ms is not; between 2000 and 2500 ms the comment at       *)
(* tracker.go:177 and the code disagree, and nothing is asked.                 *)
HeartbeatStatsExact ==
  \A k \in Keys :
    LET hb == heartbeat[k]
    IN  /\ hb.count = Cardinality(BeatsOf(k))
        /\ \A i \in BeatsOf(k) :
             /\ (\A j \in BeatsOf(k) : i <= j) => hb.first = beats[i].at
             /\ (\A j \in BeatsOf(k) : j <= i) => hb.last = beats[i].at
        /\ hb.count >= 2 => /\ hb.min = Min(Intervals(k) \cup {UnsetMin})
                            /\ hb.max = Max(Intervals(k))
        /\ BeatsAverage(hb.count, hb.first, hb.last, 200, 2000) => hb.healthy
        /\ hb.healthy => BeatsAverage(hb.count, hb.first, hb.last, 200, 2500)

(* The reported average interval lies between the reported extremes, above the *)
(* greatest by less than the microsecond its rounding takes.                    *)
MeanBetweenExtremes ==
  \A k \in Keys :
    LET hb == heartbeat[k]
    IN  hb.count >= 2 => /\ hb.min * (hb.count - 1) <= hb.last - hb.first
                         /\ hb.last - hb.first < (hb.max + Micro) * (hb.count - 1)
==============================================================================
