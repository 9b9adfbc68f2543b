---------------------------- MODULE TrackerProofs ----------------------------
(***************************************************************************)
(* Proofs about the tracker, for every set of systems, components and       *)
(* messages, all delays and any number of calls.                            *)
(*                                                                         *)
(* FrameInv is about what frames change, BeatInv about what heartbeats       *)
(* change.  Their lemmas speak of the two effects and not of the actions of  *)
(* this specification, so that they also serve the monitor, where one event  *)
(* has both.                                                                *)
(***************************************************************************)
EXTENDS Tracker, CountingTheorems

(* What is kept of frames, with its type. *)
FrameTypes ==
  /\ totalFrames \in Nat
  /\ versionCounts \in [Versions -> Nat]
  /\ messageCounts \in [MessageTypes -> Nat]
  /\ sources \subseteq Keys
  /\ stats \in [Keys -> SourceMetrics]
  /\ sysLastSeq \in [Systems -> SeqNumbers]
  /\ sysHasSeq \subseteq Systems
  /\ arrived \in Seq([frame : Frame, at : Nat])

(* No frame arrived later than now, so an interval is a natural number. *)
FrameClock == \A k \in Keys : stats[k].lastArrival <= now

(* A source without an entry has nothing counted for it, and a system that sent  *)
(* nothing is charged with nothing.                                             *)
Unseen ==
  /\ \A k \in Keys \ sources : stats[k].frames = 0 /\ stats[k].dropped = 0
  /\ \A k \in Keys : k[1] \notin sysHasSeq => stats[k].dropped = 0

(* The sequence number kept of a system is that of its last frame. *)
LastSeqKept ==
  /\ sysHasSeq = {arrived[i].frame.sys : i \in DOMAIN arrived}
  /\ \A s \in sysHasSeq : \E i \in FramesOf(s) :
       /\ \A h \in FramesOf(s) : h <= i
       /\ sysLastSeq[s] = arrived[i].frame.seq

FrameInv ==
  /\ FrameTypes /\ FrameClock /\ LossBounded
  /\ Unseen /\ CountsAgree /\ LastSeqKept /\ GapsAccounted

(* What is kept of heartbeats, with its type. *)
BeatTypes ==
  /\ heartbeat \in [Keys -> HeartbeatStats]
  /\ beats \in Seq([key : Keys, at : Nat])

(* Heartbeats are recorded in the order of time, and one heartbeat alone is both *)
(* the first and the last.                                                      *)
BeatClock ==
  /\ \A k \in Keys :
       /\ heartbeat[k].first <= heartbeat[k].last
       /\ heartbeat[k].last <= now
       /\ heartbeat[k].count <= 1 => heartbeat[k].first = heartbeat[k].last
  /\ \A i, j \in DOMAIN beats : i < j => beats[i].at <= beats[j].at
  /\ \A i \in DOMAIN beats : beats[i].at <= now

(* The running extremes, which start at UnsetMin and 0. *)
Extremes ==
  \A k \in Keys :
    LET hb == heartbeat[k]
    IN  /\ hb.count >= 1 => /\ IsLeast(hb.min, Intervals(k) \cup {UnsetMin})
                            /\ IsGreatest(hb.max, Intervals(k) \cup {0})
        /\ hb.count >= 2 => Intervals(k) # {}

(* HeartbeatStatsExact but for the extremes, with the verdict the code gives. *)
EndsExact ==
  \A k \in Keys :
    LET hb == heartbeat[k]
    IN  /\ hb.count = Cardinality(BeatsOf(k))
        /\ \A i \in BeatsOf(k) :
             /\ (\A j \in BeatsOf(k) : i <= j) => hb.first = beats[i].at
             /\ (\A j \in BeatsOf(k) : j <= i) => hb.last = beats[i].at
        /\ hb.healthy <=> Healthy(hb.count, hb.first, hb.last)

BeatInv ==
  BeatTypes /\ BeatClock /\ MeanBetweenExtremes /\ Extremes /\ EndsExact

IInv ==
  /\ now \in Nat /\ totalParseErrors \in Nat
  /\ FrameInv /\ BeatInv
------------------------------------------------------------------------------
(* A gap between two sequence numbers is at most 255 frames, and accounts for   *)
(* their distance.                                                             *)
LEMMA GapBound ==
  ASSUME NEW last \in SeqNumbers, NEW cur \in SeqNumbers
  PROVE  Gap(last, cur) \in 0..255
BY DEF Gap, SeqNumbers, SeqSpace

LEMMA GapAccounts ==
  ASSUME NEW first \in SeqNumbers, NEW last \in SeqNumbers, NEW cur \in SeqNumbers,
         NEW n \in Nat, (n - 1) % SeqSpace = (last - first) % SeqSpace
  PROVE  (n + Gap(last, cur)) % SeqSpace = (cur - first) % SeqSpace
<1>1. /\ first \in 0..255 /\ last \in 0..255 /\ cur \in 0..255
      /\ (n - 1) % 256 = (last - first) % 256
  BY DEF SeqNumbers, SeqSpace
<1>2. (Gap(last, cur) - (cur - last - 1)) % 256 = 0
  BY <1>1 DEF Gap, SeqSpace
<1>3. Gap(last, cur) \in Int
  BY GapBound
<1> HIDE DEF Gap
<1> DEFINE g == Gap(last, cur)
<1> HIDE DEF g
<1>4. g \in Int /\ (g - (cur - last - 1)) % 256 = 0
  BY <1>2, <1>3 DEF g
<1>5. (n + g) % 256 = (cur - first) % 256
  BY <1>1, <1>4
<1> QED
  BY <1>5 DEF g, SeqSpace

LEMMA MulMono ==
  ASSUME NEW a \in Nat, NEW b \in Nat, NEW n \in Nat, a <= b
  PROVE  a * n <= b * n
<1>1. (b - a) * n >= 0
  OBVIOUS
<1> QED BY <1>1

LEMMA MulSucc ==
  ASSUME NEW a \in Nat, NEW n \in Nat
  PROVE  a * (n + 1) = a * n + a
OBVIOUS

(* What a frame leaves of its source. *)
LEMMA AfterFrameOK ==
  ASSUME FrameTypes, NEW fr \in Frame, NEW t \in Nat,
         NEW sm \in SourceMetrics, sm.lastArrival <= t,
         sm.dropped <= 255 * sm.frames
  PROVE  /\ AfterFrame(sm, fr, t) \in SourceMetrics
         /\ AfterFrame(sm, fr, t).lastArrival = t
         /\ AfterFrame(sm, fr, t).dropped <= 255 * AfterFrame(sm, fr, t).frames
<1> DEFINE known    == fr.sys \in sysHasSeq
           interval == t - sm.lastArrival
           lost     == IF known THEN Gap(sysLastSeq[fr.sys], fr.seq) ELSE 0
           last     == IF known THEN interval ELSE sm.lastInterval
           jit      == \/ sm.jitter
                       \/ known /\ sm.lastInterval > 0 /\ interval # sm.lastInterval
<1>1. /\ sm.frames \in Nat /\ sm.dropped \in Nat /\ sm.lastArrival \in Nat
      /\ sm.lastInterval \in Nat /\ sm.jitter \in BOOLEAN
  BY DEF SourceMetrics
<1>2. lost \in 0..255
  <2>1. fr.sys \in Systems /\ fr.seq \in SeqNumbers
    BY DEF Frame
  <2>2. sysLastSeq[fr.sys] \in SeqNumbers
    BY <2>1 DEF FrameTypes
  <2> QED BY <2>1, <2>2, GapBound
<1>3. last \in Nat
  BY <1>1
<1>4. jit \in BOOLEAN
  OBVIOUS
<1>5. AfterFrame(sm, fr, t) =
        [frames |-> sm.frames + 1, dropped |-> sm.dropped + lost,
         lastArrival |-> t, lastInterval |-> last, jitter |-> jit]
  BY DEF AfterFrame
<1> HIDE DEF lost, last, jit
<1>6. AfterFrame(sm, fr, t) \in SourceMetrics
  BY <1>1, <1>2, <1>3, <1>4, <1>5 DEF SourceMetrics
<1>7. sm.dropped + lost <= 255 * (sm.frames + 1)
  BY <1>1, <1>2
<1> QED BY <1>5, <1>6, <1>7

(* What Clock and MeanBetweenExtremes say of one source's heartbeats. *)
HeartbeatParts(hb) ==
  /\ hb.first <= hb.last
  /\ hb.count <= 1 => hb.first = hb.last
  /\ hb.count >= 2 => /\ hb.min * (hb.count - 1) <= hb.last - hb.first
                      /\ hb.last - hb.first < (hb.max + Micro) * (hb.count - 1)

(* An interval loses less than a microsecond when it is rounded. *)
LEMMA Rounded ==
  ASSUME NEW d \in Nat
  PROVE  /\ WholeMicros(d) \in Nat /\ WholeMicros(d) <= d
         /\ d < WholeMicros(d) + Micro
<1>1. Micro \in Nat /\ Micro > 0
  BY TrackerAssumption
<1>2. d % Micro \in 0..(Micro - 1)
  BY <1>1
<1>3. d % Micro <= d
  BY <1>1
<1> QED
  BY <1>1, <1>2, <1>3 DEF WholeMicros

LEMMA HealthyIsBoolean ==
  ASSUME NEW count \in Nat, NEW first \in Nat, NEW last \in Nat
  PROVE  Healthy(count, first, last) \in BOOLEAN
BY SMT, TrackerAssumption DEF Healthy, BeatsAverage

(* Heartbeats that all came at once are not healthy. *)
LEMMA NoTimeNotHealthy ==
  ASSUME NEW count \in Nat, NEW at \in Nat
  PROVE  ~Healthy(count, at, at)
<1> SUFFICES ASSUME count >= 2, (200 * Milli) * (count - 1) <= at - at PROVE FALSE
  BY DEF Healthy, BeatsAverage
<1> DEFINE a == 200 * Milli
           n == count - 1
<1>1. a \in Nat \ {0} /\ n \in Nat \ {0}
  BY TrackerAssumption
<1>2. a * n <= 0
  OBVIOUS
<1> HIDE DEF a, n
<1>3. a * n > 0
  BY <1>1
<1> QED
  BY <1>1, <1>2, <1>3

(* An average the comment calls healthy the code does too. *)
LEMMA SteadyIsHealthy ==
  ASSUME NEW count \in Nat, NEW first \in Nat, NEW last \in Nat,
         BeatsAverage(count, first, last, 200, 2000)
  PROVE  Healthy(count, first, last)
<1> DEFINE a == 2000 * Milli
           b == 2500 * Milli
           n == count - 1
<1>1. a \in Nat /\ b \in Nat /\ a <= b /\ n \in Nat
  BY TrackerAssumption DEF BeatsAverage
<1>2. last - first <= a * n
  BY DEF BeatsAverage
<1> HIDE DEF a, b, n
<1>3. a * n <= b * n
  BY <1>1, MulMono
<1>4. last - first <= b * n
  BY <1>1, <1>2, <1>3
<1> QED
  BY <1>4 DEF Healthy, BeatsAverage, b, n

(* What a heartbeat leaves of the statistics of its source. *)
LEMMA AfterHeartbeatOK ==
  ASSUME NEW hb \in HeartbeatStats, NEW t \in Nat, hb.last <= t,
         HeartbeatParts(hb)
  PROVE  /\ AfterHeartbeat(hb, t) \in HeartbeatStats
         /\ AfterHeartbeat(hb, t).last = t
         /\ HeartbeatParts(AfterHeartbeat(hb, t))
<1>1. /\ hb.count \in Nat /\ hb.first \in Nat /\ hb.last \in Nat
      /\ hb.min \in Nat /\ hb.max \in Nat /\ hb.healthy \in BOOLEAN
  BY DEF HeartbeatStats
<1>2. CASE hb.count = 0
  <2>1. AfterHeartbeat(hb, t) =
          [count |-> 1, first |-> t, last |-> t, min |-> UnsetMin, max |-> 0,
           healthy |-> FALSE]
    BY <1>2 DEF AfterHeartbeat
  <2> QED BY <2>1, TrackerAssumption DEF HeartbeatStats, HeartbeatParts, UnsetMin
<1>3. CASE hb.count # 0
  <2> DEFINE n        == hb.count
             interval == WholeMicros(t - hb.last)
             min      == IF interval < hb.min THEN interval ELSE hb.min
             max      == IF interval > hb.max THEN interval ELSE hb.max
             ok       == IF t > hb.first THEN Healthy(n + 1, hb.first, t)
                                         ELSE hb.healthy
  <2>0. /\ interval \in Nat /\ interval <= t - hb.last
        /\ t - hb.last < interval + Micro
    <3>1. t - hb.last \in Nat
      BY <1>1
    <3> QED BY <3>1, Rounded
  <2> HIDE DEF interval
  <2>1. /\ min \in Nat /\ max \in Nat
        /\ min <= interval /\ min <= hb.min
        /\ interval <= max /\ hb.max <= max
    BY <1>1, <2>0
  <2>2. ok \in BOOLEAN
    <3>1. Healthy(n + 1, hb.first, t) \in BOOLEAN
      BY <1>1, HealthyIsBoolean
    <3> QED BY <1>1, <3>1
  <2>3. AfterHeartbeat(hb, t) =
          [count |-> n + 1, first |-> hb.first, last |-> t, min |-> min,
           max |-> max, healthy |-> ok]
    BY <1>3 DEF AfterHeartbeat, interval
  <2>4. AfterHeartbeat(hb, t) \in HeartbeatStats
    <3> HIDE DEF min, max, ok
    <3> QED BY <1>1, <2>1, <2>2, <2>3 DEF HeartbeatStats
  <2>5. min * n <= t - hb.first
    <3>1. CASE n = 1
      <4>1. hb.first = hb.last
        BY <3>1 DEF HeartbeatParts
      <4>2. min * n = min
        BY <2>1, <3>1
      <4> HIDE DEF min
      <4> QED BY <1>1, <2>0, <2>1, <4>1, <4>2
    <3>2. CASE n # 1
      <4>1. n - 1 \in Nat /\ n >= 2
        BY <1>1, <1>3, <3>2
      <4>2. hb.min * (n - 1) <= hb.last - hb.first
        BY <4>1 DEF HeartbeatParts
      <4> HIDE DEF min
      <4>3. min * (n - 1) <= hb.min * (n - 1)
        BY <1>1, <2>1, <4>1, MulMono
      <4>4. min * n = min * (n - 1) + min
        BY <1>1, <2>1, <4>1, MulSucc, (n - 1) + 1 = n
      <4>5. min * (n - 1) \in Int /\ hb.min * (n - 1) \in Int /\ min * n \in Int
        BY <1>1, <2>1, <4>1
      <4> QED BY <1>1, <2>0, <2>1, <4>2, <4>3, <4>4, <4>5
    <3> QED BY <3>1, <3>2
  <2>6. t - hb.first < (max + Micro) * n
    <3> DEFINE top    == max + Micro
               oldTop == hb.max + Micro
    <3>0. /\ top \in Nat /\ oldTop \in Nat /\ oldTop <= top
          /\ t - hb.last < top
      BY <1>1, <2>0, <2>1, TrackerAssumption
    <3>1. CASE n = 1
      <4>1. hb.first = hb.last
        BY <3>1 DEF HeartbeatParts
      <4> HIDE DEF max, top
      <4>2. top * n = top
        BY <3>0, <3>1
      <4> QED BY <1>1, <3>0, <4>1, <4>2 DEF top
    <3>2. CASE n # 1
      <4>1. n - 1 \in Nat /\ n >= 2
        BY <1>1, <1>3, <3>2
      <4>2. hb.last - hb.first < oldTop * (n - 1)
        BY <4>1 DEF HeartbeatParts
      <4> HIDE DEF max, top, oldTop
      <4>3. oldTop * (n - 1) <= top * (n - 1)
        BY <3>0, <4>1, MulMono
      <4>4. top * n = top * (n - 1) + top
        BY <1>1, <3>0, <4>1, MulSucc, (n - 1) + 1 = n
      <4>5. top * (n - 1) \in Int /\ oldTop * (n - 1) \in Int /\ top * n \in Int
        BY <1>1, <3>0, <4>1
      <4>6. t - hb.first < top * n
        BY <1>1, <3>0, <4>2, <4>3, <4>4, <4>5
      <4> QED BY <4>6 DEF top
    <3> QED BY <3>1, <3>2
  <2>7. HeartbeatParts(AfterHeartbeat(hb, t))
    <3>1. (n + 1) - 1 = n /\ n + 1 >= 2
      BY <1>1, <1>3
    <3>2. hb.first <= t
      BY <1>1 DEF HeartbeatParts
    <3> HIDE DEF min, max, ok
    <3> QED BY <1>1, <2>3, <2>5, <2>6, <3>1, <3>2 DEF HeartbeatParts
  <2> QED BY <2>3, <2>4, <2>7
<1> QED BY <1>2, <1>3

------------------------------------------------------------------------------

------------------------------------------------------------------------------
LEMMA FiniteKeys == IsFiniteSet(Keys)
BY FS_Product, TrackerAssumption DEF Keys

LEMMA FiniteTypes == IsFiniteSet(MessageTypes)
<1> DEFINE f == [m \in Messages |-> m.type]
<1>1. f \in Surjection(Messages, MessageTypes)
  BY DEF Surjection, MessageTypes
<1> QED
  BY <1>1, FS_Surjection, TrackerAssumption

(* What RecordFrame does, and the history of it. *)
FrameEffect(fr, t) ==
  /\ RecordFrame(fr, t)
  /\ arrived' = Append(arrived, [frame |-> fr, at |-> t])

Found(fr, t) == IF KeyOf(fr) \in sources THEN stats[KeyOf(fr)] ELSE NewSource(t)

LEMMA NewSourceOK ==
  ASSUME NEW t \in Nat
  PROVE  /\ NewSource(t) \in SourceMetrics /\ NewSource(t).lastArrival = t
         /\ NewSource(t).frames = 0 /\ NewSource(t).dropped = 0
         /\ NewSource(t).lastInterval = 0 /\ NewSource(t).jitter = FALSE
BY DEF NewSource, SourceMetrics

LEMMA FrameParts ==
  ASSUME NEW fr \in Frame
  PROVE  /\ fr.sys \in Systems /\ fr.comp \in Components /\ fr.seq \in SeqNumbers
         /\ fr.ver \in Versions /\ fr.msg \in Messages /\ fr.msg.type \in MessageTypes
         /\ KeyOf(fr) \in Keys /\ KeyOf(fr) = <<fr.sys, fr.comp>>
         /\ KeyOf(fr)[1] = fr.sys /\ KeyOf(fr)[2] = fr.comp
BY DEF Frame, KeyOf, Keys, MessageTypes

(* The entry of the frame's source, before and after. *)
LEMMA FrameSource ==
  ASSUME now \in Nat, FrameInv, NEW fr \in Frame, NEW t \in Nat, now <= t,
         FrameEffect(fr, t)
  PROVE  /\ Found(fr, t) \in SourceMetrics
         /\ Found(fr, t).lastArrival <= t
         /\ Found(fr, t).frames = stats[KeyOf(fr)].frames
         /\ Found(fr, t).dropped = stats[KeyOf(fr)].dropped
         /\ AfterFrame(Found(fr, t), fr, t) \in SourceMetrics
         /\ AfterFrame(Found(fr, t), fr, t).lastArrival = t
         /\ AfterFrame(Found(fr, t), fr, t).dropped
              <= 255 * AfterFrame(Found(fr, t), fr, t).frames
         /\ stats' \in [Keys -> SourceMetrics]
         /\ \A j \in Keys : stats'[j] = IF j = KeyOf(fr)
                                        THEN AfterFrame(Found(fr, t), fr, t) ELSE stats[j]
<1> DEFINE k == KeyOf(fr)
           found == Found(fr, t)
           after == AfterFrame(found, fr, t)
<1>1. FrameTypes /\ FrameClock /\ LossBounded /\ Unseen
  BY DEF FrameInv
<1>2. k \in Keys
  BY FrameParts
<1>3. stats[k] \in SourceMetrics /\ stats[k].lastArrival <= now
      /\ stats[k].dropped <= 255 * stats[k].frames
  BY <1>1, <1>2 DEF FrameTypes, FrameClock, LossBounded, SeqSpace
<1>4. /\ found \in SourceMetrics /\ found.lastArrival <= t
      /\ found.frames = stats[k].frames /\ found.dropped = stats[k].dropped
  <2>1. CASE k \in sources
    <3>1. found = stats[k]
      BY <2>1 DEF Found
    <3>2. stats[k].lastArrival \in Nat
      BY <1>3 DEF SourceMetrics
    <3> QED
      BY <1>3, <3>1, <3>2
  <2>2. CASE k \notin sources
    <3>1. found = NewSource(t)
      BY <2>2 DEF Found
    <3>2. stats[k].frames = 0 /\ stats[k].dropped = 0
      BY <1>1, <1>2, <2>2 DEF Unseen
    <3>3. NewSource(t) \in SourceMetrics /\ NewSource(t).lastArrival = t
          /\ NewSource(t).frames = 0 /\ NewSource(t).dropped = 0
      BY NewSourceOK
    <3> QED
      BY <3>1, <3>2, <3>3
  <2> QED
    BY <2>1, <2>2
<1> HIDE DEF found
<1>5. after \in SourceMetrics /\ after.lastArrival = t /\ after.dropped <= 255 * after.frames
  BY <1>1, <1>3, <1>4, AfterFrameOK
<1>6. stats' = [stats EXCEPT ![k] = after]
  BY DEF FrameEffect, RecordFrame, found, Found
<1> HIDE DEF after, k
<1>7. /\ stats' \in [Keys -> SourceMetrics]
      /\ \A j \in Keys : stats'[j] = IF j = k THEN after ELSE stats[j]
  BY <1>1, <1>2, <1>5, <1>6 DEF FrameTypes
<1> QED
  BY <1>4, <1>5, <1>7 DEF after, found, k

LEMMA FrameEffectOK ==
  ASSUME now \in Nat, FrameInv, NEW fr \in Frame, NEW t \in Nat, now <= t,
         FrameEffect(fr, t), now' = t
  PROVE  FrameInv'
<1> DEFINE k     == KeyOf(fr)
           s     == fr.sys
           lost  == IF s \in sysHasSeq THEN Gap(sysLastSeq[s], fr.seq) ELSE 0
           n     == Len(arrived) + 1
<1>1. FrameTypes /\ FrameClock /\ LossBounded /\ Unseen /\ CountsAgree
      /\ LastSeqKept /\ GapsAccounted
  BY DEF FrameInv
<1>2. /\ s \in Systems /\ fr.seq \in SeqNumbers /\ fr.ver \in Versions
      /\ fr.comp \in Components /\ fr.msg.type \in MessageTypes
      /\ k \in Keys /\ k = <<s, fr.comp>> /\ k[1] = s
  BY FrameParts
<1>3. /\ totalFrames' = totalFrames + 1
      /\ versionCounts' = [versionCounts EXCEPT ![fr.ver] = @ + 1]
      /\ messageCounts' = [messageCounts EXCEPT ![fr.msg.type] = @ + 1]
      /\ sources' = sources \cup {k}
      /\ sysLastSeq' = [sysLastSeq EXCEPT ![s] = fr.seq]
      /\ sysHasSeq' = sysHasSeq \cup {s}
      /\ arrived' = Append(arrived, [frame |-> fr, at |-> t])
  BY DEF FrameEffect, RecordFrame
<1>4. lost \in 0..255
  <2>1. sysLastSeq[s] \in SeqNumbers
    BY <1>1, <1>2 DEF FrameTypes
  <2> QED
    BY <1>2, <2>1, GapBound
<1>5. /\ stats' \in [Keys -> SourceMetrics]
      /\ \A j \in Keys : j # k => stats'[j] = stats[j]
      /\ stats'[k].lastArrival = t
      /\ stats'[k].dropped <= 255 * stats'[k].frames
      /\ stats'[k].frames = stats[k].frames + 1
      /\ stats'[k].dropped = stats[k].dropped + lost
  <2>1. /\ AfterFrame(Found(fr, t), fr, t).frames = Found(fr, t).frames + 1
        /\ AfterFrame(Found(fr, t), fr, t).dropped = Found(fr, t).dropped + lost
    BY DEF AfterFrame
  <2> HIDE DEF lost
  <2> QED
    BY <1>2, <2>1, FrameSource
<1>6. /\ arrived' \in Seq([frame : Frame, at : Nat])
      /\ n \in Nat /\ n \notin DOMAIN arrived /\ arrived'[n].frame = fr
      /\ DOMAIN arrived = 1..Len(arrived)
      /\ DOMAIN arrived' = DOMAIN arrived \cup {n}
      /\ \A i \in DOMAIN arrived : arrived'[i] = arrived[i] /\ i \in Nat /\ i < n
  <2>1. [frame |-> fr, at |-> t] \in [frame : Frame, at : Nat]
    OBVIOUS
  <2>2. arrived \in Seq([frame : Frame, at : Nat])
    BY <1>1 DEF FrameTypes
  <2> QED
    BY <1>3, <2>1, <2>2, Appended
<1> HIDE DEF k, lost, n
<1>7. FrameTypes'
  <2>1. /\ totalFrames' \in Nat
        /\ sources' \subseteq Keys
        /\ sysHasSeq' \subseteq Systems
    <3>1. totalFrames \in Nat /\ sources \subseteq Keys /\ sysHasSeq \subseteq Systems
      BY <1>1 DEF FrameTypes
    <3>2. totalFrames' \in Nat
      BY <1>3, <3>1
    <3>3. sources' \subseteq Keys
      BY <1>2, <1>3, <3>1
    <3>4. sysHasSeq' \subseteq Systems
      BY <1>2, <1>3, <3>1
    <3> QED
      BY <3>2, <3>3, <3>4
  <2>2. /\ versionCounts' \in [Versions -> Nat]
        /\ messageCounts' \in [MessageTypes -> Nat]
        /\ sysLastSeq' \in [Systems -> SeqNumbers]
    BY <1>1, <1>2, <1>3 DEF FrameTypes
  <2> QED
    BY <1>5, <1>6, <2>1, <2>2 DEF FrameTypes
<1>8. \A j \in Keys : /\ stats[j] \in SourceMetrics /\ stats[j].lastArrival \in Nat
                      /\ stats[j].frames \in Nat /\ stats[j].dropped \in Nat
  BY <1>1 DEF FrameTypes, SourceMetrics
<1>9. FrameClock'
  <2> SUFFICES ASSUME NEW j \in Keys PROVE stats'[j].lastArrival <= now'
    BY DEF FrameClock
  <2>1. CASE j = k
    BY <1>5, <2>1
  <2>2. CASE j # k
    <3>1. stats'[j].lastArrival = stats[j].lastArrival /\ stats[j].lastArrival <= now
      BY <1>1, <1>5, <2>2 DEF FrameClock
    <3> QED
      BY <1>8, <3>1
  <2> QED
    BY <2>1, <2>2
<1>10. LossBounded'
  BY <1>1, <1>5 DEF LossBounded, SeqSpace
<1>11. Unseen'
  <2>1. \A j \in Keys \ sources' : stats'[j].frames = 0 /\ stats'[j].dropped = 0
    BY <1>1, <1>3, <1>5 DEF Unseen
  <2>2. \A j \in Keys : j[1] \notin sysHasSeq' => stats'[j].dropped = 0
    BY <1>1, <1>2, <1>3, <1>5 DEF Unseen
  <2> QED
    BY <2>1, <2>2 DEF Unseen
<1>12. CountsAgree'
  <2>1. SumFunction(versionCounts') = SumFunction(versionCounts) + 1
    <3>1. /\ versionCounts \in [Versions -> Nat] /\ versionCounts' \in [Versions -> Nat]
          /\ \A v \in Versions : versionCounts'[v] = IF v = fr.ver THEN versionCounts[v] + 1
                                                                 ELSE versionCounts[v]
      BY <1>1, <1>3, <1>7 DEF FrameTypes
    <3> QED
      BY <1>2, <3>1, CountUp, TrackerAssumption
  <2>2. SumFunction(messageCounts') = SumFunction(messageCounts) + 1
    <3>1. /\ messageCounts \in [MessageTypes -> Nat]
          /\ messageCounts' \in [MessageTypes -> Nat]
          /\ \A m \in MessageTypes :
               messageCounts'[m] = IF m = fr.msg.type THEN messageCounts[m] + 1
                                                      ELSE messageCounts[m]
      BY <1>1, <1>3, <1>7 DEF FrameTypes
    <3> QED
      BY <1>2, <3>1, CountUp, FiniteTypes
  <2>3. SumFunction([j \in Keys |-> stats'[j].frames])
          = SumFunction([j \in Keys |-> stats[j].frames]) + 1
    <3> DEFINE f == [j \in Keys |-> stats[j].frames]
               e == [j \in Keys |-> stats'[j].frames]
    <3>1. \A j \in Keys : stats'[j].frames \in Nat
      BY <1>5, <1>8
    <3>2. /\ f \in [Keys -> Nat] /\ e \in [Keys -> Nat]
          /\ \A j \in Keys : e[j] = IF j = k THEN f[j] + 1 ELSE f[j]
      BY <1>5, <1>8, <3>1
    <3> HIDE DEF f, e
    <3>3. SumFunction(e) = SumFunction(f) + 1
      BY <1>2, <3>2, CountUp, FiniteKeys
    <3> QED
      BY <3>3 DEF f, e
  <2> QED
    BY <1>1, <1>3, <2>1, <2>2, <2>3 DEF CountsAgree
<1>13. \A r \in Systems : FramesOf(r)' = IF r = s THEN FramesOf(r) \cup {n} ELSE FramesOf(r)
  BY <1>6 DEF FramesOf
<1>14. LastSeqKept'
  <2>1. sysHasSeq' = {arrived'[i].frame.sys : i \in DOMAIN arrived'}
    BY <1>1, <1>3, <1>6 DEF LastSeqKept
  <2>2. ASSUME NEW r \in sysHasSeq'
        PROVE  \E i \in FramesOf(r)' : /\ \A h \in FramesOf(r)' : h <= i
                                       /\ sysLastSeq'[r] = arrived'[i].frame.seq
    <3>1. r \in Systems
      BY <1>7 DEF FrameTypes
    <3>2. CASE r = s
      <4>1. sysLastSeq'[r] = fr.seq
        BY <1>1, <1>2, <1>3, <3>2 DEF FrameTypes
      <4>2. \A h \in FramesOf(r) : h <= n
        BY <1>6 DEF FramesOf
      <4> QED
        BY <1>6, <1>13, <3>1, <3>2, <4>1, <4>2
    <3>3. CASE r # s
      <4>1. r \in sysHasSeq /\ sysLastSeq'[r] = sysLastSeq[r]
        BY <1>1, <1>2, <1>3, <3>1, <3>3 DEF FrameTypes
      <4>2. PICK i \in FramesOf(r) : /\ \A h \in FramesOf(r) : h <= i
                                     /\ sysLastSeq[r] = arrived[i].frame.seq
        BY <1>1, <4>1 DEF LastSeqKept
      <4>3. FramesOf(r)' = FramesOf(r) /\ i \in DOMAIN arrived
        BY <1>13, <3>1, <3>3 DEF FramesOf
      <4> QED
        BY <1>6, <4>1, <4>2, <4>3
    <3> QED
      BY <3>2, <3>3
  <2> QED
    BY <2>1, <2>2 DEF LastSeqKept
<1>15. GapsAccounted'
  <2> SUFFICES ASSUME NEW r \in sysHasSeq', NEW i \in FramesOf(r)', NEW j \in FramesOf(r)',
                      \A h \in FramesOf(r)' : i <= h /\ h <= j
               PROVE  (Charged(r)' + Cardinality(FramesOf(r)') - 1) % SeqSpace
                        = (arrived'[j].frame.seq - arrived'[i].frame.seq) % SeqSpace
    BY DEF GapsAccounted
  <2>1. r \in Systems
    BY <1>7 DEF FrameTypes
  <2> DEFINE f == [c \in Components |-> stats[<<r, c>>].dropped]
             e == [c \in Components |-> stats'[<<r, c>>].dropped]
  <2>2. /\ DOMAIN f = Components /\ DOMAIN e = Components
        /\ \A c \in Components : f[c] \in Nat
        /\ \A c \in Components : e[c] = IF r = s /\ c = fr.comp THEN f[c] + lost ELSE f[c]
    <3>1. \A c \in Components : <<r, c>> \in Keys /\ (<<r, c>> = k <=> r = s /\ c = fr.comp)
      BY <1>2, <2>1 DEF Keys
    <3> QED
      BY <1>5, <1>8, <3>1
  <2>3. Charged(r) = SumFunctionOnSet(f, Components)
        /\ Charged(r)' = SumFunctionOnSet(e, Components)
    BY <2>2 DEF Charged, SumFunction
  <2> HIDE DEF f, e
  <2>4. Charged(r) \in Nat
    BY <2>2, <2>3, SumNat, TrackerAssumption
  <2>5. IsFiniteSet(FramesOf(r)) /\ Cardinality(FramesOf(r)) \in Nat
    <3>1. FramesOf(r) \in SUBSET (1..Len(arrived))
      BY <1>6 DEF FramesOf
    <3>2. Len(arrived) \in Int /\ 1 \in Int
      BY <1>1, LenProperties DEF FrameTypes
    <3> QED
      BY <3>1, <3>2, FS_Interval, FS_Subset, FS_CardinalityType
  <2>6. CASE r # s
    <3>1. Charged(r)' = Charged(r)
      BY <2>2, <2>3, <2>6, SumLocal, TrackerAssumption
    <3>2. r \in sysHasSeq /\ FramesOf(r)' = FramesOf(r)
      BY <1>3, <1>13, <2>1, <2>6
    <3>3. arrived'[i] = arrived[i] /\ arrived'[j] = arrived[j]
      BY <1>6, <3>2 DEF FramesOf
    <3> QED
      BY <1>1, <3>1, <3>2, <3>3 DEF GapsAccounted
  <2>7. CASE r = s /\ s \notin sysHasSeq
    <3>1. FramesOf(r) = {}
      BY <1>1, <2>7 DEF LastSeqKept, FramesOf
    <3>2. FramesOf(r)' = {n}
      BY <1>13, <2>1, <2>7, <3>1
    <3>3. Cardinality(FramesOf(r)') = 1
      BY <3>2, FS_Singleton
    <3>4. lost = 0
      BY <2>7 DEF lost
    <3>5. \A c \in Components : e[c] = 0
      <4>1. \A c \in Components : <<r, c>> \in Keys /\ <<r, c>>[1] = r
        BY <2>1 DEF Keys
      <4>2. \A c \in Components : f[c] = 0
        BY <1>1, <2>7, <4>1 DEF Unseen, f
      <4> QED
        BY <2>2, <3>4, <4>2
    <3>6. Charged(r)' = 0
      BY <2>3, <3>5, SumZero, TrackerAssumption
    <3>7. fr.seq \in Int
      BY <1>2 DEF SeqNumbers, SeqSpace
    <3>8. arrived'[i].frame.seq = fr.seq /\ arrived'[j].frame.seq = fr.seq
      BY <1>6, <3>2
    <3>9. (0 + 1 - 1) % SeqSpace = 0 /\ (fr.seq - fr.seq) % SeqSpace = 0
      BY <3>7 DEF SeqSpace
    <3> QED
      BY <3>3, <3>6, <3>8, <3>9
  <2>8. CASE r = s /\ s \in sysHasSeq
    <3>1. PICK l \in FramesOf(r) : /\ \A h \in FramesOf(r) : h <= l
                                   /\ sysLastSeq[r] = arrived[l].frame.seq
      BY <1>1, <2>8 DEF LastSeqKept
    <3>2. FramesOf(r)' = FramesOf(r) \cup {n} /\ n \notin FramesOf(r) /\ l < n
      <4>1. FramesOf(r)' = FramesOf(r) \cup {n}
        BY <1>13, <2>1, <2>8
      <4>2. \A h \in FramesOf(r) : h # n /\ h < n
        BY <1>6 DEF FramesOf
      <4> QED
        BY <4>1, <4>2
    <3>3. Cardinality(FramesOf(r)') = Cardinality(FramesOf(r)) + 1
      <4>1. Cardinality(FramesOf(r) \cup {n}) = Cardinality(FramesOf(r)) + 1
        BY <2>5, <3>2, FS_AddElement
      <4> QED
        BY <3>2, <4>1
    <3>4. Charged(r)' = Charged(r) + lost
      <4>1. \A c \in Components : e[c] = IF c = fr.comp THEN f[c] + lost ELSE f[c]
        BY <2>2, <2>8
      <4>2. lost \in Nat
        BY <1>4
      <4>3. IsFiniteSet(Components) /\ fr.comp \in Components
        BY <1>2, TrackerAssumption
      <4>4. SumFunctionOnSet(e, Components) = SumFunctionOnSet(f, Components) + lost
        BY <2>2, <4>1, <4>2, <4>3, SumUpdate
      <4> QED
        BY <2>3, <4>4
    <3>5. i \in FramesOf(r) /\ \A h \in FramesOf(r) : i <= h
      <4>1. i <= l /\ l \in Nat
        BY <1>6, <3>2 DEF FramesOf
      <4>2. i # n
        BY <1>6, <3>2, <4>1
      <4> QED
        BY <3>2, <4>2
    <3>6. j = n
      <4>1. n <= j /\ (j = n \/ j < n)
        BY <1>6, <3>2 DEF FramesOf
      <4>2. j \in Nat
        BY <1>6, <3>2 DEF FramesOf
      <4> QED
        BY <1>6, <4>1, <4>2
    <3>7. (Charged(r) + Cardinality(FramesOf(r)) - 1) % SeqSpace
            = (arrived[l].frame.seq - arrived[i].frame.seq) % SeqSpace
      BY <1>1, <2>8, <3>1, <3>5 DEF GapsAccounted
    <3>8. /\ arrived'[j].frame.seq = fr.seq
          /\ arrived'[i].frame.seq = arrived[i].frame.seq
          /\ lost = Gap(arrived[l].frame.seq, fr.seq)
      BY <1>6, <2>8, <3>1, <3>5, <3>6 DEF FramesOf, lost
    <3>9. arrived[l].frame.seq \in SeqNumbers /\ arrived[i].frame.seq \in SeqNumbers
      <4>1. \A h \in DOMAIN arrived : arrived[h] \in [frame : Frame, at : Nat]
        BY <1>1, <1>6, ElementOfSeq DEF FrameTypes
      <4> QED
        BY <3>1, <3>5, <4>1 DEF FramesOf, Frame
    <3> DEFINE m == Charged(r) + Cardinality(FramesOf(r))
    <3>10. m \in Nat
      BY <2>4, <2>5
    <3>11. m - 1 = Charged(r) + Cardinality(FramesOf(r)) - 1
      BY <2>4, <2>5
    <3> HIDE DEF m
    <3>12. (m + lost) % SeqSpace = (arrived'[j].frame.seq - arrived'[i].frame.seq) % SeqSpace
      BY <1>2, <3>7, <3>8, <3>9, <3>10, <3>11, GapAccounts
    <3>13. Charged(r)' + Cardinality(FramesOf(r)') - 1 = m + lost
      BY <1>4, <2>4, <2>5, <3>3, <3>4 DEF m
    <3> QED
      BY <3>12, <3>13
  <2> QED
    BY <2>6, <2>7, <2>8
<1> QED
  BY <1>7, <1>9, <1>10, <1>11, <1>12, <1>14, <1>15 DEF FrameInv

------------------------------------------------------------------------------
(* What keeps FrameInv: anything that changes no count of a source, and not the *)
(* frames recorded.                                                            *)
LEMMA FrameCountsKept ==
  ASSUME FrameInv, UNCHANGED <<frameVars, arrived>>,
         sources \subseteq sources', sources' \subseteq Keys,
         stats' \in [Keys -> SourceMetrics],
         \A j \in Keys : /\ stats'[j].frames = stats[j].frames
                         /\ stats'[j].dropped = stats[j].dropped
                         /\ stats'[j].lastArrival <= now'
  PROVE  FrameInv'
<1>1. FrameTypes /\ FrameClock /\ LossBounded /\ Unseen /\ CountsAgree
      /\ LastSeqKept /\ GapsAccounted
  BY DEF FrameInv
<1>2. /\ totalFrames' = totalFrames /\ versionCounts' = versionCounts
      /\ messageCounts' = messageCounts /\ sysLastSeq' = sysLastSeq
      /\ sysHasSeq' = sysHasSeq /\ arrived' = arrived
  BY DEF frameVars
<1>3. FrameTypes'
  BY <1>1, <1>2 DEF FrameTypes
<1>4. FrameClock'
  BY DEF FrameClock
<1>5. LossBounded'
  BY <1>1 DEF LossBounded
<1>6. Unseen'
  BY <1>1, <1>2 DEF Unseen
<1>7. CountsAgree'
  <2>1. [j \in Keys |-> stats'[j].frames] = [j \in Keys |-> stats[j].frames]
    OBVIOUS
  <2> QED
    BY <1>1, <1>2, <2>1 DEF CountsAgree
<1>8. \A s \in Systems : FramesOf(s)' = FramesOf(s)
  BY <1>2 DEF FramesOf
<1>9. LastSeqKept'
  <2>1. sysHasSeq' = {arrived'[i].frame.sys : i \in DOMAIN arrived'}
    BY <1>1, <1>2 DEF LastSeqKept
  <2>2. sysHasSeq' \subseteq Systems
    BY <1>1, <1>2 DEF FrameTypes
  <2> QED
    BY <1>1, <1>2, <1>8, <2>1, <2>2 DEF LastSeqKept
<1>10. GapsAccounted'
  <2>1. \A s \in Systems : Charged(s)' = Charged(s)
    <3> SUFFICES ASSUME NEW s \in Systems PROVE Charged(s)' = Charged(s)
      OBVIOUS
    <3>1. \A c \in Components : <<s, c>> \in Keys
      BY DEF Keys
    <3>2. [c \in Components |-> stats'[<<s, c>>].dropped]
            = [c \in Components |-> stats[<<s, c>>].dropped]
      BY <3>1
    <3> QED
      BY <3>2 DEF Charged
  <2>2. sysHasSeq \subseteq Systems
    BY <1>1 DEF FrameTypes
  <2> QED
    BY <1>1, <1>2, <1>8, <2>1, <2>2 DEF GapsAccounted
<1> QED
  BY <1>3, <1>4, <1>5, <1>6, <1>7, <1>9, <1>10 DEF FrameInv

LEMMA FrameInvKept ==
  ASSUME now \in Nat, FrameInv, now' \in Nat, now <= now',
         UNCHANGED <<frameVars, sourceVars, arrived>>
  PROVE  FrameInv'
<1>1. sources' = sources /\ stats' = stats /\ UNCHANGED <<frameVars, arrived>>
  BY DEF sourceVars
<1>2. sources \subseteq Keys /\ stats \in [Keys -> SourceMetrics]
  BY DEF FrameInv, FrameTypes
<1>3. \A j \in Keys : stats[j].lastArrival <= now /\ stats[j].lastArrival \in Nat
  BY <1>2 DEF FrameInv, FrameClock, SourceMetrics
<1>4. \A j \in Keys : stats'[j].lastArrival <= now'
  BY <1>1, <1>3
<1> QED
  BY <1>1, <1>2, <1>4, FrameCountsKept

(* A heartbeat may create the entry of its source, and starts it with nothing. *)
LEMMA CreateSourceOK ==
  ASSUME now \in Nat, FrameInv, NEW k \in Keys, NEW t \in Nat, now <= t, now' = t,
         UNCHANGED <<frameVars, arrived>>, sources' = sources \cup {k},
         stats' = IF k \in sources THEN stats ELSE [stats EXCEPT ![k] = NewSource(t)]
  PROVE  FrameInv'
<1>1. CASE k \in sources
  <2>1. UNCHANGED <<frameVars, sourceVars, arrived>>
    BY <1>1 DEF sourceVars
  <2> QED
    BY <2>1, FrameInvKept
<1>2. CASE k \notin sources
  <2>1. sources \subseteq Keys /\ stats \in [Keys -> SourceMetrics]
    BY DEF FrameInv, FrameTypes
  <2>2. /\ stats[k].frames = 0 /\ stats[k].dropped = 0
        /\ \A j \in Keys : stats[j].lastArrival <= now /\ stats[j].lastArrival \in Nat
    BY <1>2, <2>1 DEF FrameInv, FrameClock, Unseen, SourceMetrics
  <2>3. /\ NewSource(t) \in SourceMetrics /\ NewSource(t).lastArrival = t
        /\ NewSource(t).frames = 0 /\ NewSource(t).dropped = 0
    BY NewSourceOK
  <2>4. /\ stats' \in [Keys -> SourceMetrics]
        /\ \A j \in Keys : stats'[j] = IF j = k THEN NewSource(t) ELSE stats[j]
    BY <1>2, <2>1, <2>3
  <2>5. \A j \in Keys : /\ stats'[j].frames = stats[j].frames
                        /\ stats'[j].dropped = stats[j].dropped
                        /\ stats'[j].lastArrival <= now'
    BY <2>2, <2>3, <2>4
  <2>6. sources \subseteq sources' /\ sources' \subseteq Keys
    BY <2>1
  <2> QED
    BY <2>4, <2>5, <2>6, FrameCountsKept
<1> QED
  BY <1>1, <1>2

------------------------------------------------------------------------------
(* The neighbours in a set of positions, and what a position after the last of   *)
(* them, l, adds.                                                              *)
NeighbourPairs(S) == {ij \in S \X S : Neighbours(S, ij[1], ij[2])}

LEMMA PairsAdd ==
  ASSUME NEW S \in SUBSET Nat, NEW n \in Nat, \A h \in S : h < n,
         NEW l \in S, \A h \in S : h <= l
  PROVE  NeighbourPairs(S \cup {n}) = NeighbourPairs(S) \cup {<<l, n>>}
<1> DEFINE R == S \cup {n}
<1>1. \A i, j \in S : Neighbours(R, i, j) <=> Neighbours(S, i, j)
  BY DEF Neighbours
<1>2. \A i \in S : Neighbours(R, i, n) <=> i = l
  BY DEF Neighbours
<1>3. \A j \in R : ~Neighbours(R, n, j)
  BY DEF Neighbours
<1>4. ASSUME NEW ij \in NeighbourPairs(R)
      PROVE  ij \in NeighbourPairs(S) \cup {<<l, n>>}
  <2>1. ij[1] \in R /\ ij[2] \in R /\ ij = <<ij[1], ij[2]>> /\ Neighbours(R, ij[1], ij[2])
    BY <1>4 DEF NeighbourPairs
  <2>2. ij[1] \in S
    BY <1>3, <2>1
  <2>3. CASE ij[2] \in S
    BY <1>1, <2>1, <2>2, <2>3 DEF NeighbourPairs
  <2>4. CASE ij[2] = n
    BY <1>2, <2>1, <2>2, <2>4
  <2> QED
    BY <2>1, <2>3, <2>4
<1>5. ASSUME NEW ij \in NeighbourPairs(S)
      PROVE  ij \in NeighbourPairs(R)
  BY <1>1, <1>5 DEF NeighbourPairs
<1>6. <<l, n>> \in NeighbourPairs(R)
  BY <1>2 DEF NeighbourPairs
<1> QED
  BY <1>4, <1>5, <1>6

LEMMA PairsOne ==
  ASSUME NEW n \in Nat
  PROVE  NeighbourPairs({n}) = {}
BY DEF NeighbourPairs, Neighbours

(* What RecordHeartbeat does to the statistics, and the history of it. *)
BeatEffect(k, t) ==
  /\ UpdateHeartbeat(k, t)
  /\ beats' = Append(beats, [key |-> k, at |-> t])
  /\ now' = t

(* Where a heartbeat is kept, and what it changes there. *)
LEMMA BeatPositions ==
  ASSUME BeatTypes, NEW k \in Keys, NEW t \in Nat, BeatEffect(k, t)
  PROVE  /\ beats' \in Seq([key : Keys, at : Nat])
         /\ Len(beats) + 1 \in Nat /\ Len(beats) + 1 \notin DOMAIN beats
         /\ beats'[Len(beats) + 1] = [key |-> k, at |-> t]
         /\ DOMAIN beats = 1..Len(beats)
         /\ DOMAIN beats' = DOMAIN beats \cup {Len(beats) + 1}
         /\ \A i \in DOMAIN beats : /\ beats'[i] = beats[i] /\ beats[i].at \in Nat
                                    /\ i \in Nat /\ i < Len(beats) + 1
         /\ \A j \in Keys : BeatsOf(j)' = IF j = k THEN BeatsOf(j) \cup {Len(beats) + 1}
                                                   ELSE BeatsOf(j)
<1> DEFINE n == Len(beats) + 1
<1>1. beats \in Seq([key : Keys, at : Nat]) /\ beats' = Append(beats, [key |-> k, at |-> t])
  BY DEF BeatTypes, BeatEffect
<1>2. [key |-> k, at |-> t] \in [key : Keys, at : Nat]
  OBVIOUS
<1>3. /\ beats' \in Seq([key : Keys, at : Nat])
      /\ n \in Nat /\ n \notin DOMAIN beats /\ beats'[n] = [key |-> k, at |-> t]
      /\ DOMAIN beats = 1..Len(beats)
      /\ DOMAIN beats' = DOMAIN beats \cup {n}
      /\ \A i \in DOMAIN beats : beats'[i] = beats[i] /\ i \in Nat /\ i < n
  BY <1>1, <1>2, Appended
<1>4. \A i \in DOMAIN beats : beats[i] \in [key : Keys, at : Nat]
  BY <1>1, <1>3, ElementOfSeq
<1> HIDE DEF n
<1>5. \A j \in Keys : BeatsOf(j)' = IF j = k THEN BeatsOf(j) \cup {n} ELSE BeatsOf(j)
  BY <1>3 DEF BeatsOf
<1> QED
  BY <1>3, <1>4, <1>5 DEF n

(* The interval a heartbeat adds is that from the last one before it. *)
LEMMA IntervalsGrow ==
  ASSUME BeatTypes, EndsExact, NEW k \in Keys, NEW t \in Nat, BeatEffect(k, t)
  PROVE  /\ \A j \in Keys : j # k => Intervals(j)' = Intervals(j)
         /\ heartbeat[k].count = 0 => Intervals(k)' = {} /\ BeatsOf(k) = {}
         /\ heartbeat[k].count # 0 =>
              /\ Intervals(k)' = Intervals(k) \cup {WholeMicros(t - heartbeat[k].last)}
              /\ BeatsOf(k) # {}
<1> DEFINE n == Len(beats) + 1
           B == BeatsOf(k)
<1> HIDE DEF n
<1>1. /\ n \in Nat /\ n \notin DOMAIN beats /\ beats'[n].at = t
      /\ \A i \in DOMAIN beats : beats'[i] = beats[i] /\ i \in Nat /\ i < n
      /\ \A j \in Keys : BeatsOf(j)' = IF j = k THEN BeatsOf(j) \cup {n} ELSE BeatsOf(j)
  <2>1. beats'[n] = [key |-> k, at |-> t]
    BY BeatPositions DEF n
  <2>2. n \in Nat /\ n \notin DOMAIN beats
    BY BeatPositions DEF n
  <2>3. \A i \in DOMAIN beats : beats'[i] = beats[i] /\ i \in Nat /\ i < n
    BY BeatPositions DEF n
  <2>4. \A j \in Keys : BeatsOf(j)' = IF j = k THEN BeatsOf(j) \cup {n} ELSE BeatsOf(j)
    BY BeatPositions DEF n
  <2> QED
    BY <2>1, <2>2, <2>3, <2>4
<1>2. \A j \in Keys : BeatsOf(j) \subseteq DOMAIN beats
  BY DEF BeatsOf
<1>3. \A j \in Keys :
        /\ Intervals(j) = {WholeMicros(beats[ij[2]].at - beats[ij[1]].at) : ij \in NeighbourPairs(BeatsOf(j))}
        /\ Intervals(j)' = {WholeMicros(beats'[ij[2]].at - beats'[ij[1]].at) :
                              ij \in NeighbourPairs(BeatsOf(j)')}
  BY DEF Intervals, NeighbourPairs, Neighbours, WholeMicros
<1>4. \A j \in Keys : \A ij \in NeighbourPairs(BeatsOf(j)) :
         ij[1] \in DOMAIN beats /\ ij[2] \in DOMAIN beats
  BY <1>2 DEF NeighbourPairs
<1>5. \A j \in Keys : Intervals(j) = {WholeMicros(beats'[ij[2]].at - beats'[ij[1]].at) :
                                        ij \in NeighbourPairs(BeatsOf(j))}
  BY <1>1, <1>3, <1>4
<1>6. \A j \in Keys : j # k => Intervals(j)' = Intervals(j)
  BY <1>1, <1>3, <1>5
<1>7. heartbeat[k].count = Cardinality(B)
      /\ \A i \in B : (\A j \in B : j <= i) => heartbeat[k].last = beats[i].at
  BY DEF EndsExact
<1>8. IsFiniteSet(B) /\ B \in SUBSET (1..Len(beats)) /\ Len(beats) \in Nat
  <2>1. DOMAIN beats = 1..Len(beats) /\ Len(beats) \in Nat
    BY LenProperties DEF BeatTypes
  <2>2. B \in SUBSET (1..Len(beats))
    BY <1>2, <2>1
  <2>3. IsFiniteSet(1..Len(beats))
    BY <2>1, FS_Interval, 1 \in Int
  <2> QED
    BY <2>1, <2>2, <2>3, FS_Subset
<1> HIDE DEF B
<1>9. ASSUME heartbeat[k].count = 0 PROVE Intervals(k)' = {} /\ B = {}
  <2>1. B = {}
    BY <1>7, <1>8, <1>9, FS_EmptySet
  <2>2. BeatsOf(k)' = {n}
    BY <1>1, <2>1 DEF B
  <2>3. NeighbourPairs(BeatsOf(k)') = {}
    BY <1>1, <2>2, PairsOne
  <2> QED
    BY <1>3, <2>1, <2>3
<1>10. ASSUME heartbeat[k].count # 0
       PROVE  /\ Intervals(k)' = Intervals(k) \cup {WholeMicros(t - heartbeat[k].last)}
              /\ B # {}
  <2>1. B # {}
    BY <1>7, <1>10, FS_EmptySet
  <2>2. PICK l \in B : \A i \in B : i <= l
    BY <1>8, <2>1, HasLast
  <2>3. heartbeat[k].last = beats[l].at /\ l \in DOMAIN beats
    BY <1>2, <1>7, <2>2 DEF B
  <2>4. BeatsOf(k)' = B \cup {n} /\ B \in SUBSET Nat /\ \A h \in B : h < n
    BY <1>1, <1>2 DEF B
  <2>5. NeighbourPairs(BeatsOf(k)') = NeighbourPairs(B) \cup {<<l, n>>}
    BY <1>1, <2>2, <2>4, PairsAdd
  <2>6. beats'[<<l, n>>[2]].at - beats'[<<l, n>>[1]].at = t - heartbeat[k].last
    BY <1>1, <2>3
  <2>7. Intervals(k)' = Intervals(k) \cup {WholeMicros(t - heartbeat[k].last)}
    <3> DEFINE D(ij) == WholeMicros(beats'[ij[2]].at - beats'[ij[1]].at)
    <3>1. Intervals(k)' = {D(ij) : ij \in NeighbourPairs(BeatsOf(k)')}
      BY <1>3
    <3>2. Intervals(k) = {D(ij) : ij \in NeighbourPairs(B)}
      BY <1>5 DEF B
    <3>3. D(<<l, n>>) = WholeMicros(t - heartbeat[k].last)
      BY <2>6
    <3> HIDE DEF D
    <3> QED
      BY <2>5, <3>1, <3>2, <3>3
  <2> QED
    BY <2>1, <2>7
<1> QED
  BY <1>6, <1>9, <1>10 DEF B

LEMMA BeatEffectOK ==
  ASSUME now \in Nat, BeatInv, NEW k \in Keys, NEW t \in Nat, now <= t,
         BeatEffect(k, t)
  PROVE  BeatInv'
<1> DEFINE n     == Len(beats) + 1
           B     == BeatsOf(k)
           hb    == heartbeat[k]
           after == AfterHeartbeat(hb, t)
<1>1. BeatTypes /\ BeatClock /\ MeanBetweenExtremes /\ Extremes /\ EndsExact /\ now' = t
  BY DEF BeatInv, BeatEffect
<1>2. \A j \in Keys : /\ heartbeat[j] \in HeartbeatStats
                      /\ heartbeat[j].count \in Nat /\ heartbeat[j].first \in Nat
                      /\ heartbeat[j].last \in Nat /\ heartbeat[j].min \in Nat
                      /\ heartbeat[j].max \in Nat /\ heartbeat[j].healthy \in BOOLEAN
  BY <1>1 DEF BeatTypes, HeartbeatStats
<1>3. hb.last <= t /\ HeartbeatParts(hb)
  <2>1. hb.last <= now /\ hb.last \in Nat
    BY <1>1, <1>2 DEF BeatClock
  <2>2. HeartbeatParts(hb)
    BY <1>1 DEF BeatClock, MeanBetweenExtremes, HeartbeatParts
  <2> QED
    BY <2>1, <2>2
<1>4. after \in HeartbeatStats /\ after.last = t /\ HeartbeatParts(after)
  BY <1>2, <1>3, AfterHeartbeatOK
<1>5. heartbeat' = [heartbeat EXCEPT ![k] = after]
  BY DEF BeatEffect, UpdateHeartbeat
<1> HIDE DEF n
<1>6. /\ \A i \in DOMAIN beats : /\ beats'[i] = beats[i] /\ beats[i].at \in Nat
                                 /\ i \in Nat /\ i < n
      /\ \A j \in Keys : BeatsOf(j)' = IF j = k THEN BeatsOf(j) \cup {n} ELSE BeatsOf(j)
      /\ n \in Nat /\ n \notin DOMAIN beats
  BY <1>1, BeatPositions DEF n
<1>7. /\ beats'[n] = [key |-> k, at |-> t]
      /\ DOMAIN beats' = DOMAIN beats \cup {n}
      /\ DOMAIN beats = 1..Len(beats)
      /\ beats' \in Seq([key : Keys, at : Nat])
  BY <1>1, BeatPositions DEF n
<1>8. /\ \A j \in Keys : j # k => Intervals(j)' = Intervals(j)
      /\ hb.count = 0 => Intervals(k)' = {} /\ B = {}
      /\ hb.count # 0 => Intervals(k)' = Intervals(k) \cup {WholeMicros(t - hb.last)}
                          /\ B # {}
  BY <1>1, IntervalsGrow
<1>9. hb.count = 0 =>
        after = [count |-> 1, first |-> t, last |-> t, min |-> UnsetMin, max |-> 0,
                 healthy |-> FALSE]
  BY DEF AfterHeartbeat
<1>10. hb.count # 0 =>
         /\ after.count = hb.count + 1
         /\ after.first = hb.first
         /\ after.min = IF WholeMicros(t - hb.last) < hb.min
                        THEN WholeMicros(t - hb.last) ELSE hb.min
         /\ after.max = IF WholeMicros(t - hb.last) > hb.max
                        THEN WholeMicros(t - hb.last) ELSE hb.max
         /\ after.healthy = IF t > hb.first THEN Healthy(hb.count + 1, hb.first, t)
                                            ELSE hb.healthy
  BY DEF AfterHeartbeat
<1> HIDE DEF B, hb, after
<1>11. /\ heartbeat' \in [Keys -> HeartbeatStats]
       /\ \A j \in Keys : heartbeat'[j] = IF j = k THEN after ELSE heartbeat[j]
  BY <1>1, <1>4, <1>5 DEF BeatTypes
<1>12. BeatTypes'
  BY <1>7, <1>11 DEF BeatTypes
<1>13. BeatClock'
  <2>1. ASSUME NEW j \in Keys
        PROVE  /\ heartbeat'[j].first <= heartbeat'[j].last
               /\ heartbeat'[j].last <= now'
               /\ heartbeat'[j].count <= 1 => heartbeat'[j].first = heartbeat'[j].last
    <3>1. CASE j = k
      BY <1>1, <1>4, <1>11, <3>1 DEF HeartbeatParts
    <3>2. CASE j # k
      <4>1. heartbeat[j].last <= t
        <5>1. heartbeat[j].last <= now
          BY <1>1 DEF BeatClock
        <5> QED
          BY <1>2, <5>1
      <4> QED
        BY <1>1, <1>11, <3>2, <4>1 DEF BeatClock
    <3> QED
      BY <3>1, <3>2
  <2>2. \A i \in DOMAIN beats : beats[i].at <= t /\ beats'[i] = beats[i]
    <3>1. \A i \in DOMAIN beats : beats[i].at <= now
      BY <1>1 DEF BeatClock
    <3> QED
      BY <1>6, <3>1
  <2>3. \A i \in DOMAIN beats' : beats'[i].at <= now'
    BY <1>1, <1>7, <2>2
  <2>4. ASSUME NEW i \in DOMAIN beats', NEW j \in DOMAIN beats', i < j
        PROVE  beats'[i].at <= beats'[j].at
    <3>1. CASE j = n
      <4>1. i \in DOMAIN beats
        BY <1>6, <1>7, <2>4, <3>1
      <4> QED
        BY <1>7, <2>2, <3>1, <4>1
    <3>2. CASE j # n
      <4>1. j \in DOMAIN beats /\ j < n /\ j \in Nat
        BY <1>6, <1>7, <3>2
      <4>2. i \in DOMAIN beats
        BY <1>6, <1>7, <2>4, <4>1
      <4>3. beats[i].at <= beats[j].at
        BY <1>1, <2>4, <4>1, <4>2 DEF BeatClock
      <4> QED
        BY <2>2, <4>1, <4>2, <4>3
    <3> QED
      BY <3>1, <3>2
  <2> QED
    BY <2>1, <2>3, <2>4 DEF BeatClock
<1>14. MeanBetweenExtremes'
  <2> SUFFICES ASSUME NEW j \in Keys, heartbeat'[j].count >= 2
               PROVE  /\ heartbeat'[j].min * (heartbeat'[j].count - 1)
                           <= heartbeat'[j].last - heartbeat'[j].first
                      /\ heartbeat'[j].last - heartbeat'[j].first
                           < (heartbeat'[j].max + Micro) * (heartbeat'[j].count - 1)
    BY DEF MeanBetweenExtremes
  <2>1. CASE j = k
    BY <1>4, <1>11, <2>1 DEF HeartbeatParts
  <2>2. CASE j # k
    BY <1>1, <1>11, <2>2 DEF MeanBetweenExtremes
  <2> QED
    BY <2>1, <2>2
<1>15. \A j \in Keys : j # k => heartbeat'[j] = heartbeat[j] /\ BeatsOf(j)' = BeatsOf(j)
                                /\ Intervals(j)' = Intervals(j)
  BY <1>6, <1>8, <1>11
<1>16. Extremes'
  <2> SUFFICES ASSUME NEW j \in Keys
               PROVE  /\ heartbeat'[j].count >= 1 =>
                           /\ IsLeast(heartbeat'[j].min, Intervals(j)' \cup {UnsetMin})
                           /\ IsGreatest(heartbeat'[j].max, Intervals(j)' \cup {0})
                      /\ heartbeat'[j].count >= 2 => Intervals(j)' # {}
    BY DEF Extremes, IsLeast, IsGreatest
  <2>1. CASE j # k
    BY <1>1, <1>15, <2>1 DEF Extremes
  <2>2. CASE j = k /\ hb.count = 0
    BY <1>8, <1>9, <1>11, <2>2, TrackerAssumption DEF IsLeast, IsGreatest, UnsetMin
  <2>3. CASE j = k /\ hb.count # 0
    <3>1. /\ IsLeast(hb.min, Intervals(k) \cup {UnsetMin})
          /\ IsGreatest(hb.max, Intervals(k) \cup {0})
      <4>1. hb.count >= 1
        BY <1>2, <2>3 DEF hb
      <4> QED
        BY <1>1, <4>1 DEF Extremes, hb
    <3>2. hb.min \in Nat /\ hb.max \in Nat /\ hb.last \in Nat
      BY <1>2 DEF hb
    <3>3. \A x \in Intervals(k) : x \in Int
      <4>1. \A i \in BeatsOf(k) : beats[i].at \in Nat
        BY <1>6 DEF BeatsOf
      <4>2. \A a, b \in Nat : WholeMicros(b - a) \in Int
        BY TrackerAssumption DEF WholeMicros
      <4> QED
        BY <4>1, <4>2 DEF Intervals
    <3> DEFINE d == WholeMicros(t - hb.last)
    <3>4. d \in Int /\ Intervals(k)' = Intervals(k) \cup {d}
      <4>1. t - hb.last \in Nat
        BY <1>3, <3>2
      <4> QED
        BY <1>8, <2>3, <4>1, Rounded
    <3>5. after.min = IF d < hb.min THEN d ELSE hb.min
      BY <1>10, <2>3
    <3>6. after.max = IF d > hb.max THEN d ELSE hb.max
      BY <1>10, <2>3
    <3> HIDE DEF d
    <3>7. IsLeast(after.min, Intervals(k)' \cup {UnsetMin})
      BY <3>1, <3>2, <3>3, <3>4, <3>5, TrackerAssumption DEF IsLeast, UnsetMin
    <3>8. IsGreatest(after.max, Intervals(k)' \cup {0})
      BY <3>1, <3>2, <3>3, <3>4, <3>6 DEF IsGreatest
    <3> QED
      BY <1>11, <2>3, <3>4, <3>7, <3>8
  <2> QED
    BY <2>1, <2>2, <2>3
<1>17. EndsExact'
  <2> SUFFICES ASSUME NEW j \in Keys
               PROVE  /\ heartbeat'[j].count = Cardinality(BeatsOf(j)')
                      /\ \A i \in BeatsOf(j)' :
                           /\ (\A h \in BeatsOf(j)' : i <= h)
                                => heartbeat'[j].first = beats'[i].at
                           /\ (\A h \in BeatsOf(j)' : h <= i)
                                => heartbeat'[j].last = beats'[i].at
                      /\ heartbeat'[j].healthy <=> Healthy(heartbeat'[j].count,
                                                      heartbeat'[j].first, heartbeat'[j].last)
    BY DEF EndsExact
  <2>1. \A h \in Keys : \A i \in BeatsOf(h) : i \in DOMAIN beats
    BY DEF BeatsOf
  <2>2. CASE j # k
    BY <1>1, <1>6, <1>15, <2>1, <2>2 DEF EndsExact
  <2>3. BeatsOf(k)' = B \cup {n} /\ \A i \in B : i \in Nat /\ i < n /\ beats'[i] = beats[i]
    BY <1>6, <2>1 DEF B
  <2>4. hb.count = Cardinality(B)
    BY <1>1 DEF EndsExact, hb, B
  <2>5. \A i \in B : (\A h \in B : i <= h) => hb.first = beats[i].at
    BY <1>1 DEF EndsExact, hb, B
  <2>6. hb.healthy <=> Healthy(hb.count, hb.first, hb.last)
    BY <1>1 DEF EndsExact, hb
  <2>7. IsFiniteSet(B)
    <3>1. B \in SUBSET (1..Len(beats))
      BY <1>7, <2>1 DEF B
    <3>2. Len(beats) \in Int /\ 1 \in Int
      BY <1>1, LenProperties DEF BeatTypes
    <3>3. IsFiniteSet(1..Len(beats))
      BY <3>2, FS_Interval
    <3> QED
      BY <3>1, <3>3, FS_Subset
  <2>8. hb.count + 1 = Cardinality(BeatsOf(k)')
    <3>1. n \notin B
      BY <2>3
    <3>2. Cardinality(B \cup {n}) = Cardinality(B) + 1
      BY <2>7, <3>1, FS_AddElement
    <3> QED
      BY <2>3, <2>4, <3>2
  <2>9. after.count = hb.count + 1
    BY <1>9, <1>10
  <2>10. \A i \in BeatsOf(k)' : (\A h \in BeatsOf(k)' : h <= i) => after.last = beats'[i].at
    <3>1. \A i \in B : ~(n <= i)
      BY <1>6, <2>3
    <3> QED
      BY <1>4, <1>7, <2>3, <3>1
  <2>11. \A i \in BeatsOf(k)' : (\A h \in BeatsOf(k)' : i <= h) => after.first = beats'[i].at
    <3>1. CASE hb.count = 0
      BY <1>7, <1>8, <1>9, <2>3, <3>1
    <3>2. CASE hb.count # 0
      <4>1. after.first = hb.first /\ B # {}
        BY <1>8, <1>10, <3>2
      <4>2. \E h \in B : ~(n <= h)
        BY <1>6, <2>3, <4>1
      <4> QED
        BY <2>3, <2>5, <4>1, <4>2
    <3> QED
      BY <3>1, <3>2
  <2>12. after.healthy <=> Healthy(after.count, after.first, after.last)
    <3>1. CASE hb.count = 0
      BY <1>9, <3>1 DEF Healthy, BeatsAverage
    <3>2. CASE hb.count # 0
      <4>1. /\ hb.count \in Nat /\ hb.first \in Nat /\ hb.last \in Nat
            /\ hb.first <= hb.last /\ hb.healthy \in BOOLEAN
        BY <1>2, <1>3 DEF HeartbeatParts, hb
      <4>2. CASE t > hb.first
        BY <1>4, <1>10, <3>2, <4>2
      <4>3. CASE ~(t > hb.first)
        <5>1. hb.last = hb.first /\ t = hb.first
          BY <1>3, <4>1, <4>3
        <5>2. ~Healthy(hb.count, hb.first, hb.last)
          BY <4>1, <5>1, NoTimeNotHealthy
        <5>3. ~Healthy(hb.count + 1, hb.first, t)
          BY <3>2, <4>1, <5>1, NoTimeNotHealthy
        <5>4. after.healthy = hb.healthy
          BY <1>10, <3>2, <4>3
        <5> QED
          BY <1>4, <1>10, <2>6, <3>2, <5>2, <5>3, <5>4
      <4> QED
        BY <4>2, <4>3
    <3> QED
      BY <3>1, <3>2
  <2>13. CASE j = k
    BY <1>11, <2>8, <2>9, <2>10, <2>11, <2>12, <2>13
  <2> QED
    BY <2>2, <2>13
<1> QED
  BY <1>12, <1>13, <1>14, <1>16, <1>17 DEF BeatInv

LEMMA BeatInvKept ==
  ASSUME now \in Nat, BeatInv, now' \in Nat, now <= now',
         UNCHANGED <<heartbeat, beats>>
  PROVE  BeatInv'
<1>1. BeatTypes /\ BeatClock /\ MeanBetweenExtremes /\ Extremes /\ EndsExact
  BY DEF BeatInv
<1>2. \A k \in Keys : heartbeat[k].last \in Nat
  BY <1>1 DEF BeatTypes, HeartbeatStats
<1>3. \A i \in DOMAIN beats : beats[i].at \in Nat
  <2>1. beats \in Seq([key : Keys, at : Nat])
    BY <1>1 DEF BeatTypes
  <2>2. \A i \in DOMAIN beats : beats[i] \in [key : Keys, at : Nat]
    <3>1. DOMAIN beats = 1..Len(beats)
      BY <2>1, LenProperties
    <3> QED
      BY <2>1, <3>1, ElementOfSeq
  <2> QED
    BY <2>2
<1>4. BeatTypes'
  BY <1>1 DEF BeatTypes
<1>5. BeatClock'
  <2>1. \A k \in Keys : heartbeat'[k].last <= now'
    BY <1>1, <1>2 DEF BeatClock
  <2>2. \A i \in DOMAIN beats' : beats'[i].at <= now'
    BY <1>1, <1>3 DEF BeatClock
  <2> QED
    BY <1>1, <2>1, <2>2 DEF BeatClock
<1>6. MeanBetweenExtremes'
  BY <1>1 DEF MeanBetweenExtremes
<1>7. \A k \in Keys : BeatsOf(k)' = BeatsOf(k) /\ Intervals(k)' = Intervals(k)
  BY DEF BeatsOf, Intervals, Neighbours, WholeMicros
<1>8. Extremes' /\ EndsExact'
  BY <1>1, <1>7 DEF Extremes, EndsExact
<1> QED
  BY <1>4, <1>5, <1>6, <1>8 DEF BeatInv

------------------------------------------------------------------------------
LEMMA InitFrames == Init => FrameInv
<1> SUFFICES ASSUME Init PROVE FrameInv
  OBVIOUS
<1>1. FrameTypes
  <2>1. \A k \in Keys : stats[k] \in SourceMetrics
    BY NewSourceOK DEF Init
  <2>2. stats \in [Keys -> SourceMetrics]
    BY <2>1 DEF Init
  <2>3. /\ versionCounts \in [Versions -> Nat] /\ messageCounts \in [MessageTypes -> Nat]
        /\ sysLastSeq \in [Systems -> SeqNumbers]
    BY DEF Init, SeqNumbers, SeqSpace
  <2>4. arrived \in Seq([frame : Frame, at : Nat])
    BY DEF Init
  <2>5. totalFrames \in Nat /\ sources \subseteq Keys /\ sysHasSeq \subseteq Systems
    BY DEF Init
  <2> QED
    BY <2>2, <2>3, <2>4, <2>5 DEF FrameTypes
<1>2. \A k \in Keys : stats[k].frames = 0 /\ stats[k].dropped = 0 /\ stats[k].lastArrival = 0
  BY NewSourceOK DEF Init
<1>3. FrameClock /\ LossBounded /\ Unseen
  BY <1>2 DEF Init, FrameClock, LossBounded, Unseen, SeqSpace
<1>4. CountsAgree
  <2>1. SumFunction(versionCounts) = 0 /\ SumFunction(messageCounts) = 0
    BY SumZero, TrackerAssumption, FiniteTypes DEF Init, SumFunction
  <2>2. SumFunction([k \in Keys |-> stats[k].frames]) = 0
    <3> DEFINE f == [k \in Keys |-> stats[k].frames]
    <3>1. DOMAIN f = Keys /\ \A k \in Keys : f[k] = 0
      BY <1>2
    <3> HIDE DEF f
    <3>2. SumFunction(f) = 0
      BY <3>1, SumZero, FiniteKeys DEF SumFunction
    <3> QED
      BY <3>2 DEF f
  <2> QED
    BY <2>1, <2>2 DEF Init, CountsAgree
<1>5. LastSeqKept /\ GapsAccounted
  BY DEF Init, LastSeqKept, GapsAccounted
<1> QED
  BY <1>1, <1>3, <1>4, <1>5 DEF FrameInv

LEMMA InitBeats == Init => BeatInv
<1> SUFFICES ASSUME Init PROVE BeatInv
  OBVIOUS
<1>1. /\ heartbeat = [k \in Keys |-> NoHeartbeat] /\ beats = << >> /\ now = 0
  BY DEF Init
<1>2. BeatTypes
  <2>1. NoHeartbeat \in HeartbeatStats
    BY DEF NoHeartbeat, HeartbeatStats
  <2>2. beats \in Seq([key : Keys, at : Nat])
    BY <1>1
  <2> QED
    BY <1>1, <2>1, <2>2 DEF BeatTypes
<1>3. \A k \in Keys : /\ heartbeat[k].count = 0 /\ heartbeat[k].first = 0
                      /\ heartbeat[k].last = 0 /\ heartbeat[k].healthy = FALSE
  BY <1>1 DEF NoHeartbeat
<1>4. BeatClock /\ MeanBetweenExtremes /\ Extremes
  BY <1>1, <1>3 DEF BeatClock, MeanBetweenExtremes, Extremes
<1>5. EndsExact
  <2>1. \A k \in Keys : BeatsOf(k) = {}
    BY <1>1 DEF BeatsOf
  <2>2. \A k \in Keys : Cardinality(BeatsOf(k)) = 0
    BY <2>1, FS_EmptySet
  <2>3. \A first, last : ~Healthy(0, first, last)
    BY DEF Healthy, BeatsAverage
  <2> QED
    BY <1>3, <2>1, <2>2, <2>3 DEF EndsExact
<1> QED
  BY <1>2, <1>4, <1>5 DEF BeatInv

(* The types of the two halves are TypeOK's. *)
LEMMA TypesTogether ==
  ASSUME now \in Nat, totalParseErrors \in Nat, FrameInv, BeatInv
  PROVE  TypeOK
BY DEF FrameInv, BeatInv, FrameTypes, BeatTypes, TypeOK

(* The running extremes are those of the intervals. *)
LEMMA ExtremesExact == BeatInv => HeartbeatStatsExact
<1> SUFFICES ASSUME BeatInv PROVE HeartbeatStatsExact
  OBVIOUS
<1>0. ASSUME NEW k \in Keys
      PROVE  /\ BeatsAverage(heartbeat[k].count, heartbeat[k].first,
                             heartbeat[k].last, 200, 2000) => heartbeat[k].healthy
             /\ heartbeat[k].healthy
                  => BeatsAverage(heartbeat[k].count, heartbeat[k].first,
                                  heartbeat[k].last, 200, 2500)
  <2>1. /\ heartbeat[k].count \in Nat /\ heartbeat[k].first \in Nat
        /\ heartbeat[k].last \in Nat
    BY <1>0 DEF BeatInv, BeatTypes, HeartbeatStats
  <2>2. heartbeat[k].healthy
          <=> Healthy(heartbeat[k].count, heartbeat[k].first, heartbeat[k].last)
    BY <1>0 DEF BeatInv, EndsExact
  <2> QED
    BY <2>1, <2>2, SteadyIsHealthy DEF Healthy
<1> SUFFICES ASSUME NEW k \in Keys, heartbeat[k].count >= 2
             PROVE  /\ heartbeat[k].min = Min(Intervals(k) \cup {UnsetMin})
                    /\ heartbeat[k].max = Max(Intervals(k))
  BY <1>0 DEF BeatInv, EndsExact, HeartbeatStatsExact
<1>1. /\ heartbeat[k].count \in Nat /\ heartbeat[k].min \in Nat /\ heartbeat[k].max \in Nat
      /\ beats \in Seq([key : Keys, at : Nat])
  BY DEF BeatInv, BeatTypes, HeartbeatStats
<1>2. /\ IsLeast(heartbeat[k].min, Intervals(k) \cup {UnsetMin})
      /\ IsGreatest(heartbeat[k].max, Intervals(k) \cup {0})
      /\ Intervals(k) # {}
  <2>1. Extremes /\ heartbeat[k].count >= 1
    BY <1>1 DEF BeatInv
  <2> QED
    BY <2>1 DEF Extremes
<1>3. \A x \in Intervals(k) : x \in Int /\ x >= 0
  <2>1. \A i \in DOMAIN beats : beats[i] \in [key : Keys, at : Nat] /\ i \in Nat
    <3>1. DOMAIN beats = 1..Len(beats) /\ Len(beats) \in Nat
      BY <1>1, LenProperties
    <3>2. \A i \in DOMAIN beats : beats[i] \in [key : Keys, at : Nat]
      BY <1>1, <3>1, ElementOfSeq
    <3> QED
      BY <3>1, <3>2
  <2>2. \A i, j \in DOMAIN beats : i < j => beats[i].at <= beats[j].at
    BY DEF BeatInv, BeatClock
  <2>3. \A i, j \in BeatsOf(k) : Neighbours(BeatsOf(k), i, j) =>
          beats[j].at - beats[i].at \in Nat
    BY <2>1, <2>2 DEF BeatsOf, Neighbours
  <2>4. \A i, j \in BeatsOf(k) : Neighbours(BeatsOf(k), i, j) =>
          WholeMicros(beats[j].at - beats[i].at) \in Nat
    BY <2>3, Rounded
  <2> QED
    BY <2>4 DEF Intervals
<1>4. IsGreatest(heartbeat[k].max, Intervals(k))
  BY <1>1, <1>2, <1>3 DEF IsGreatest
<1>5. Intervals(k) \in SUBSET Int /\ Intervals(k) \cup {UnsetMin} \in SUBSET Int
  BY <1>3, TrackerAssumption DEF UnsetMin
<1> QED
  BY <1>2, <1>4, <1>5, MinIsLeast, MaxIsGreatest

LEMMA InitIInv == Init => IInv
BY InitFrames, InitBeats DEF Init, IInv

LEMMA FrameStep ==
  ASSUME IInv, NEW fr \in Incoming, NEW d \in FrameDelays, FrameCall(fr, d)
  PROVE  IInv'
<1> DEFINE t == now + d
<1>1. fr \in Frame /\ d \in Nat /\ now \in Nat /\ t \in Nat /\ now <= t /\ now' = t
  BY TrackerAssumption DEF Incoming, IInv, FrameCall
<1> HIDE DEF t
<1>2. /\ FrameEffect(fr, t) /\ totalParseErrors' = totalParseErrors
      /\ UNCHANGED <<heartbeat, beats>>
  BY <1>1 DEF FrameCall, FrameEffect
<1>3. FrameInv'
  BY <1>1, <1>2, FrameEffectOK DEF IInv
<1>4. BeatInv'
  BY <1>1, <1>2, BeatInvKept DEF IInv
<1> QED
  BY <1>1, <1>2, <1>3, <1>4 DEF IInv

LEMMA HeartbeatStep ==
  ASSUME IInv, NEW k \in Keys, NEW d \in BeatDelays, HeartbeatCall(k, d)
  PROVE  IInv'
<1> DEFINE t == now + d
<1>1. d \in Nat /\ now \in Nat /\ t \in Nat /\ now <= t /\ now' = t
  BY TrackerAssumption DEF IInv, HeartbeatCall
<1> HIDE DEF t
<1>2. /\ BeatEffect(k, t) /\ totalParseErrors' = totalParseErrors
      /\ UNCHANGED <<frameVars, arrived>> /\ sources' = sources \cup {k}
      /\ stats' = IF k \in sources THEN stats ELSE [stats EXCEPT ![k] = NewSource(t)]
  BY <1>1 DEF HeartbeatCall, RecordHeartbeat, BeatEffect
<1>3. FrameInv'
  BY <1>1, <1>2, CreateSourceOK DEF IInv
<1>4. BeatInv'
  BY <1>1, <1>2, BeatEffectOK DEF IInv
<1> QED
  BY <1>1, <1>2, <1>3, <1>4 DEF IInv

(* Parse errors and stuttering touch nothing but a count. *)
LEMMA QuietStep ==
  ASSUME IInv, ParseErrorCall \/ UNCHANGED vars
  PROVE  IInv'
<1>1. /\ totalParseErrors' \in Nat /\ now' = now /\ now \in Nat
      /\ UNCHANGED <<frameVars, sourceVars, arrived>> /\ UNCHANGED <<heartbeat, beats>>
  BY DEF IInv, ParseErrorCall, RecordParseError, vars
<1>2. now' \in Nat /\ now <= now'
  BY <1>1
<1> QED
  BY <1>1, <1>2, FrameInvKept, BeatInvKept DEF IInv

(* The two halves hold together in every state of the tracker. *)
THEOREM Invariant == Spec => []IInv
<1>1. IInv /\ [Next]_vars => IInv'
  <2> SUFFICES ASSUME IInv, [Next]_vars PROVE IInv'
    OBVIOUS
  <2>1. CASE \E fr \in Incoming, d \in FrameDelays : FrameCall(fr, d)
    BY <2>1, FrameStep
  <2>2. CASE \E k \in Keys, d \in BeatDelays : HeartbeatCall(k, d)
    BY <2>2, HeartbeatStep
  <2>3. CASE ParseErrorCall \/ UNCHANGED vars
    BY <2>3, QuietStep
  <2> QED
    BY <2>1, <2>2, <2>3 DEF Next
<1> QED
  BY InitIInv, <1>1, PTL DEF Spec

(* Counts, times and losses are natural numbers, sequence numbers bytes, and    *)
(* every count belongs to a source, version or message there is.                *)
THEOREM TypeCorrect == Spec => []TypeOK
<1>1. IInv => TypeOK
  BY TypesTogether DEF IInv
<1> QED
  BY Invariant, <1>1, PTL

(* However frames of a system interleave, no source is charged with more than   *)
(* 255 lost frames for each one it delivered, so PacketLossPct stays below 100. *)
THEOREM LossStaysBounded == Spec => []LossBounded
<1>1. IInv => LossBounded
  BY DEF IInv, FrameInv
<1> QED
  BY Invariant, <1>1, PTL

(* The total and the counts by version, message and source that Snapshot copies  *)
(* side by side agree: every frame is in each of them once.                      *)
THEOREM CountsAlwaysAgree == Spec => []CountsAgree
<1>1. IInv => CountsAgree
  BY DEF IInv, FrameInv
<1> QED
  BY Invariant, <1>1, PTL

(* Modulo 256, what the sources of a system are charged with and the frames      *)
(* recorded of it make up the distance between its first and its last sequence    *)
(* number, in whatever order and from whichever of its sources they came.         *)
THEOREM EveryGapAccounted == Spec => []GapsAccounted
<1>1. IInv => GapsAccounted
  BY DEF IInv, FrameInv
<1> QED
  BY Invariant, <1>1, PTL

(* The average heartbeat interval that is reported is at least the least and     *)
(* less than a microsecond above the greatest, for any arrival times: neither     *)
(* the sentinel that MinIntervalMs starts with nor the zero of MaxIntervalMs      *)
(* pushes an extreme past the average, and rounding takes no more than that.      *)
THEOREM AverageBetweenExtremes == Spec => []MeanBetweenExtremes
<1>1. IInv => MeanBetweenExtremes
  BY DEF IInv, BeatInv
<1> QED
  BY Invariant, <1>1, PTL

(* The count, the ends and the extremes that are updated heartbeat by heartbeat  *)
(* are those of the recorded arrival times taken as a whole, and the verdict is   *)
(* right on every average on which code and comment agree.                       *)
THEOREM HeartbeatsSummedUp == Spec => []HeartbeatStatsExact
<1>1. IInv => HeartbeatStatsExact
  BY ExtremesExact DEF IInv
<1> QED
  BY Invariant, <1>1, PTL
==============================================================================
