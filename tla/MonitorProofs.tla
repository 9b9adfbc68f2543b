---------------------------- MODULE MonitorProofs ----------------------------
(***************************************************************************)
(* Proofs about the live monitor, and about the monitor at the end of a     *)
(* lossy link, for every set of systems, components and messages, all       *)
(* delays and any number of events.                                         *)
(*                                                                         *)
(* The tracker's invariant holds here too: an event has the effects that    *)
(* TrackerProofs speaks of.                                                 *)
(***************************************************************************)
EXTENDS TelemetryLink, TrackerProofs

(* What is kept beside the tracker, with its type. *)
EvidenceTypes ==
  /\ evidence \in [observed : BOOLEAN, kind : NamingMessages \cup {NoKind},
                   source : Keys \cup {NoSource}, seen : Seq(MessageTypes)]

(* In the monitor only frames create sources. *)
SourcesKept == sources = {KeyOf(arrived[i].frame) : i \in DOMAIN arrived}

(* The time kept of a source is that of its last frame, and the interval kept    *)
(* the one before it, 0 when there is none.                                     *)
LastArrivalKept ==
  \A k \in Keys : \A i \in ArrivalsOf(k) :
    (\A j \in ArrivalsOf(k) : j <= i) =>
      /\ stats[k].lastArrival = arrived[i].at
      /\ \A h \in ArrivalsOf(k) :
           Neighbours(ArrivalsOf(k), h, i) => stats[k].lastInterval = Between(h, i)
      /\ ArrivalsOf(k) = {i} => stats[k].lastInterval = 0

(* What CheckGimbalMessage makes of the frames: the source of the last telling    *)
(* one, the kind of the last naming one, and a list of what was told.            *)
EvidenceKept ==
  /\ evidence.observed <=> Telling # {}
  /\ \A i \in Telling : (\A j \in Telling : j <= i) =>
                          evidence.source = KeyOf(arrived[i].frame)
  /\ Naming = {} => evidence.kind = NoKind
  /\ \A i \in Naming : (\A j \in Naming : j <= i) =>
                         evidence.kind = arrived[i].frame.msg.type
  /\ Range(evidence.seen) = TypesTold

(* The list is in the order of first sight, so nothing is in it twice. *)
FirstSight ==
  \A a, b \in DOMAIN evidence.seen : a < b =>
    \E i \in Telling :
      /\ arrived[i].frame.msg.type = evidence.seen[a]
      /\ \A j \in Telling : arrived[j].frame.msg.type = evidence.seen[b] => i < j

MonitorInv ==
  /\ IInv /\ EvidenceTypes
  /\ SourcesKept /\ LastArrivalKept /\ JitterIffChanged
  /\ HeartbeatsCounted /\ EvidenceKept /\ FirstSight
------------------------------------------------------------------------------
(* What a frame adds to the history. *)
LEMMA ArrivalPositions ==
  ASSUME FrameTypes, NEW fr \in Frame, NEW t \in Nat, FrameEffect(fr, t)
  PROVE  /\ Len(arrived) + 1 \in Nat /\ Len(arrived) + 1 \notin DOMAIN arrived
         /\ arrived'[Len(arrived) + 1] = [frame |-> fr, at |-> t]
         /\ DOMAIN arrived = 1..Len(arrived)
         /\ DOMAIN arrived' = DOMAIN arrived \cup {Len(arrived) + 1}
         /\ \A i \in DOMAIN arrived : /\ arrived'[i] = arrived[i] /\ arrived[i].at \in Nat
                                      /\ arrived[i].frame \in Frame
                                      /\ i \in Nat /\ i < Len(arrived) + 1
<1> DEFINE n == Len(arrived) + 1
<1>1. /\ arrived \in Seq([frame : Frame, at : Nat])
      /\ arrived' = Append(arrived, [frame |-> fr, at |-> t])
  BY DEF FrameTypes, FrameEffect
<1>2. [frame |-> fr, at |-> t] \in [frame : Frame, at : Nat]
  OBVIOUS
<1>3. /\ n \in Nat /\ n \notin DOMAIN arrived /\ arrived'[n] = [frame |-> fr, at |-> t]
      /\ DOMAIN arrived = 1..Len(arrived)
      /\ DOMAIN arrived' = DOMAIN arrived \cup {n}
      /\ \A i \in DOMAIN arrived : arrived'[i] = arrived[i] /\ i \in Nat /\ i < n
  BY <1>1, <1>2, Appended
<1>4. \A i \in DOMAIN arrived : arrived[i] \in [frame : Frame, at : Nat]
  BY <1>1, <1>3, ElementOfSeq
<1> QED
  BY <1>3, <1>4

(* A set of positions that has more than its last one has one before it. *)
LEMMA HasPrevious ==
  ASSUME NEW m \in Nat, NEW S \in SUBSET (1..m), NEW l \in S, \A i \in S : i <= l,
         S # {l}
  PROVE  \E h \in S : Neighbours(S, h, l)
<1>1. S \ {l} \in SUBSET (1..m) /\ S \ {l} # {}
  OBVIOUS
<1>2. PICK h \in S \ {l} : \A i \in S \ {l} : i <= h
  BY <1>1, HasLast
<1>3. h < l
  BY <1>2
<1> QED
  BY <1>2, <1>3 DEF Neighbours

LEMMA MonitorSourcesKept ==
  ASSUME MonitorInv, NEW fr \in Frame, NEW t \in Nat, now <= t, FrameEffect(fr, t)
  PROVE  SourcesKept'
<1> DEFINE n == Len(arrived) + 1
<1> HIDE DEF n
<1>1. FrameTypes
  BY DEF MonitorInv, IInv, FrameInv
<1>2. /\ arrived'[n] = [frame |-> fr, at |-> t]
      /\ DOMAIN arrived' = DOMAIN arrived \cup {n}
      /\ \A i \in DOMAIN arrived : arrived'[i] = arrived[i]
  BY <1>1, ArrivalPositions DEF n
<1>3. sources' = sources \cup {KeyOf(fr)}
  BY DEF FrameEffect, RecordFrame
<1>4. sources = {KeyOf(arrived[i].frame) : i \in DOMAIN arrived}
  BY DEF MonitorInv, SourcesKept
<1> HIDE DEF KeyOf
<1>5. KeyOf(arrived'[n].frame) = KeyOf(fr)
  BY <1>2
<1>6. sources' = {KeyOf(arrived'[i].frame) : i \in DOMAIN arrived'}
  BY <1>2, <1>3, <1>4, <1>5
<1> QED
  BY <1>6 DEF SourcesKept, KeyOf

LEMMA MonitorArrivalsKept ==
  ASSUME MonitorInv, NEW fr \in Frame, NEW t \in Nat, now <= t, FrameEffect(fr, t)
  PROVE  LastArrivalKept' /\ JitterIffChanged'
<1> DEFINE n     == Len(arrived) + 1
           k     == KeyOf(fr)
           A     == ArrivalsOf(k)
           found == Found(fr, t)
           after == AfterFrame(found, fr, t)
           last  == found.lastInterval
           Later(i, j) == arrived'[j].at - arrived'[i].at
<1> HIDE DEF n
<1>1. /\ now \in Nat /\ FrameInv /\ FrameTypes /\ FrameClock /\ LastSeqKept
      /\ SourcesKept /\ LastArrivalKept /\ JitterIffChanged
  BY DEF MonitorInv, IInv, FrameInv
<1>2. k \in Keys /\ fr.sys \in Systems /\ k[1] = fr.sys
  BY FrameParts
<1>3. /\ n \in Nat /\ n \notin DOMAIN arrived
      /\ DOMAIN arrived = 1..Len(arrived) /\ Len(arrived) \in Nat
      /\ DOMAIN arrived' = DOMAIN arrived \cup {n}
      /\ \A i \in DOMAIN arrived : /\ arrived'[i] = arrived[i] /\ arrived[i].at \in Nat
                                   /\ arrived[i].frame \in Frame
                                   /\ i \in Nat /\ i < n
  <2>1. Len(arrived) \in Nat
    BY <1>1, LenProperties DEF FrameTypes
  <2> QED
    BY <1>1, <2>1, ArrivalPositions DEF n
<1>4. arrived'[n] = [frame |-> fr, at |-> t]
  BY <1>1, ArrivalPositions DEF n
<1>5. /\ \A j \in Keys : j # k => ArrivalsOf(j)' = ArrivalsOf(j)
      /\ ArrivalsOf(k)' = A \cup {n}
      /\ \A j \in Keys : \A i \in ArrivalsOf(j) : i \in DOMAIN arrived
      /\ n \in ArrivalsOf(k)'
  BY <1>3, <1>4 DEF ArrivalsOf
<1>6. /\ stats' \in [Keys -> SourceMetrics] /\ found \in SourceMetrics
      /\ \A j \in Keys : stats'[j] = IF j = k THEN after ELSE stats[j]
  BY <1>1, FrameSource
<1>7. \A j \in Keys : j # k => /\ stats'[j] = stats[j] /\ ArrivalsOf(j)' = ArrivalsOf(j)
                               /\ \A h, i \in ArrivalsOf(j) : Later(h, i) = Between(h, i)
  BY <1>3, <1>5, <1>6 DEF Between
<1>8. k \in sources <=> A # {}
  BY <1>1, <1>2 DEF SourcesKept, ArrivalsOf
<1>9. A # {} => found = stats[k] /\ fr.sys \in sysHasSeq
  <2>1. \A i \in A : arrived[i].frame.sys = fr.sys /\ i \in DOMAIN arrived
    BY <1>3 DEF ArrivalsOf, KeyOf
  <2>2. A # {} => fr.sys \in sysHasSeq
    BY <1>1, <2>1 DEF LastSeqKept
  <2> QED
    BY <1>8, <2>2 DEF Found
<1>10. A = {} => found = NewSource(t)
  BY <1>8 DEF Found
<1>11. after.lastArrival = t
  BY DEF AfterFrame
<1>12. \A h \in A : h \in DOMAIN arrived /\ h \in Nat /\ h < n
  BY <1>2, <1>3, <1>5
<1>13. \A i, j \in A \cup {n} : Neighbours(A \cup {n}, i, j) =>
          i \in A /\ (j = n \/ (j \in A /\ Neighbours(A, i, j)))
  BY <1>3, <1>12 DEF Neighbours
<1>14. \A i, j \in A : Neighbours(A, i, j) => Neighbours(A \cup {n}, i, j)
  BY <1>3, <1>12 DEF Neighbours
<1>15. found.lastArrival \in Nat /\ last \in Nat /\ found.jitter \in BOOLEAN
  BY <1>6 DEF SourceMetrics
<1> HIDE DEF A, k
<1>16. CASE A = {}
  <2>1. after.jitter = FALSE /\ after.lastInterval = 0
    <3>1. NewSource(t).lastArrival = t /\ NewSource(t).lastInterval = 0 /\ NewSource(t).jitter = FALSE
      BY NewSourceOK
    <3>2. t - t = 0
      OBVIOUS
    <3> QED
      BY <1>10, <1>16, <3>1, <3>2 DEF AfterFrame
  <2>2. ArrivalsOf(k)' = {n}
    BY <1>5, <1>16
  <2>3. \A i, j \in {n} : ~Neighbours({n}, i, j)
    BY <1>3 DEF Neighbours
  <2>4. LastArrivalKept'
    <3> SUFFICES ASSUME NEW j \in Keys, NEW i \in ArrivalsOf(j)',
                        \A h \in ArrivalsOf(j)' : h <= i
                 PROVE  /\ stats'[j].lastArrival = arrived'[i].at
                        /\ \A h \in ArrivalsOf(j)' : Neighbours(ArrivalsOf(j)', h, i) =>
                             stats'[j].lastInterval = Later(h, i)
                        /\ ArrivalsOf(j)' = {i} => stats'[j].lastInterval = 0
      BY DEF LastArrivalKept, Neighbours, Between
    <3>1. CASE j = k
      BY <1>4, <1>6, <1>11, <2>1, <2>2, <2>3, <3>1
    <3>2. CASE j # k
      <4>1. i \in ArrivalsOf(j) /\ arrived'[i] = arrived[i]
        BY <1>3, <1>5, <3>2
      <4> QED
        BY <1>1, <1>7, <3>2, <4>1 DEF LastArrivalKept
    <3> QED
      BY <3>1, <3>2
  <2>5. JitterIffChanged'
    <3> SUFFICES ASSUME NEW j \in Keys
                 PROVE  stats'[j].jitter <=>
                          \E g, h, i \in ArrivalsOf(j)' :
                            /\ Neighbours(ArrivalsOf(j)', g, h)
                            /\ Neighbours(ArrivalsOf(j)', h, i)
                            /\ Later(g, h) > 0 /\ Later(h, i) # Later(g, h)
      BY DEF JitterIffChanged, Neighbours, Between
    <3>1. CASE j = k
      BY <1>6, <2>1, <2>2, <2>3, <3>1
    <3>2. CASE j # k
      BY <1>1, <1>7, <3>2 DEF JitterIffChanged
    <3> QED
      BY <3>1, <3>2
  <2> QED
    BY <2>4, <2>5
<1>17. CASE A # {}
  <2>1. PICK l \in A : \A i \in A : i <= l
    <3>1. A \in SUBSET (1..Len(arrived))
      BY <1>3, <1>12
    <3> QED
      BY <1>3, <1>17, <3>1, HasLast
  <2>2. /\ found.lastArrival = arrived[l].at
        /\ \A h \in A : Neighbours(A, h, l) => last = Between(h, l)
        /\ A = {l} => last = 0
    BY <1>1, <1>2, <1>9, <1>17, <2>1 DEF LastArrivalKept, A
  <2>3. found.jitter <=> \E g, h, i \in A :
                           /\ Neighbours(A, g, h) /\ Neighbours(A, h, i)
                           /\ Between(g, h) > 0 /\ Between(h, i) # Between(g, h)
    BY <1>1, <1>2, <1>9, <1>17 DEF JitterIffChanged, A
  <2>4. /\ after.lastInterval = t - arrived[l].at
        /\ after.jitter = (found.jitter \/ (last > 0 /\ t - arrived[l].at # last))
    BY <1>9, <1>17, <2>2 DEF AfterFrame
  <2>5. /\ \A i \in A : Neighbours(A \cup {n}, i, n) <=> i = l
        /\ Later(l, n) = t - arrived[l].at
        /\ \A h, i \in A : Later(h, i) = Between(h, i)
    <3>1. \A i \in A : Neighbours(A \cup {n}, i, n) <=> i = l
      BY <1>3, <1>12, <2>1 DEF Neighbours
    <3>2. Later(l, n) = t - arrived[l].at
      BY <1>3, <1>4, <1>12, <2>1
    <3>3. \A h, i \in A : Later(h, i) = Between(h, i)
      BY <1>3, <1>12 DEF Between
    <3> QED
      BY <3>1, <3>2, <3>3
  <2> HIDE DEF after, found, last, Later
  <2>6. LastArrivalKept'
    <3> SUFFICES ASSUME NEW j \in Keys, NEW i \in ArrivalsOf(j)',
                        \A h \in ArrivalsOf(j)' : h <= i
                 PROVE  /\ stats'[j].lastArrival = arrived'[i].at
                        /\ \A h \in ArrivalsOf(j)' : Neighbours(ArrivalsOf(j)', h, i) =>
                             stats'[j].lastInterval = Later(h, i)
                        /\ ArrivalsOf(j)' = {i} => stats'[j].lastInterval = 0
      BY DEF LastArrivalKept, Neighbours, Between, Later
    <3>1. CASE j = k
      <4>1. i = n
        <5>1. n <= i /\ (i = n \/ i \in A)
          BY <1>5, <3>1
        <5>2. \A h \in A : h < n /\ h \in Nat
          BY <1>12
        <5> QED
          BY <1>3, <5>1, <5>2
      <4>2. \A h \in A \cup {n} : Neighbours(A \cup {n}, h, n) => h = l
        BY <1>3, <1>13, <2>5
      <4>3. A \cup {n} # {n}
        BY <1>3, <1>12, <2>1
      <4>4. stats'[j] = after /\ ArrivalsOf(j)' = A \cup {n} /\ arrived'[i].at = t
        BY <1>2, <1>4, <1>5, <1>6, <3>1, <4>1
      <4>5. after.lastArrival = arrived'[i].at
        BY <1>11, <4>4
      <4>6. \A h \in A \cup {n} : Neighbours(A \cup {n}, h, i) => after.lastInterval = Later(h, i)
        BY <2>4, <2>5, <4>1, <4>2
      <4> QED
        BY <4>1, <4>3, <4>4, <4>5, <4>6
    <3>2. CASE j # k
      <4>1. i \in ArrivalsOf(j) /\ arrived'[i] = arrived[i]
        BY <1>3, <1>5, <3>2
      <4> QED
        BY <1>1, <1>7, <3>2, <4>1 DEF LastArrivalKept
    <3> QED
      BY <3>1, <3>2
  <2>7. JitterIffChanged'
    <3> SUFFICES ASSUME NEW j \in Keys
                 PROVE  stats'[j].jitter <=>
                          \E g, h, i \in ArrivalsOf(j)' :
                            /\ Neighbours(ArrivalsOf(j)', g, h)
                            /\ Neighbours(ArrivalsOf(j)', h, i)
                            /\ Later(g, h) > 0 /\ Later(h, i) # Later(g, h)
      BY DEF JitterIffChanged, Neighbours, Between, Later
    <3>1. CASE j # k
      BY <1>1, <1>7, <3>1 DEF JitterIffChanged
    <3> DEFINE R == A \cup {n}
    <3>2. ASSUME after.jitter
          PROVE  \E g, h, i \in R :
                   /\ Neighbours(R, g, h) /\ Neighbours(R, h, i)
                   /\ Later(g, h) > 0 /\ Later(h, i) # Later(g, h)
      <4>1. CASE found.jitter
        <5>1. PICK g \in A, h \in A, i \in A :
                /\ Neighbours(A, g, h) /\ Neighbours(A, h, i)
                /\ Between(g, h) > 0 /\ Between(h, i) # Between(g, h)
          BY <2>3, <4>1
        <5>2. Neighbours(R, g, h) /\ Neighbours(R, h, i)
          BY <1>14, <5>1
        <5> QED
          BY <2>5, <5>1, <5>2
      <4>2. CASE last > 0 /\ t - arrived[l].at # last
        <5>1. A # {l}
          BY <2>2, <4>2
        <5>2. PICK g \in A : Neighbours(A, g, l)
          <6>1. A \in SUBSET (1..Len(arrived))
            BY <1>3, <1>12
          <6> QED
            BY <1>3, <2>1, <5>1, <6>1, HasPrevious
        <5>3. Neighbours(R, g, l) /\ Neighbours(R, l, n)
          BY <1>14, <2>1, <2>5, <5>2
        <5>4. Later(g, l) = last /\ Later(l, n) # last
          BY <2>1, <2>2, <2>5, <4>2, <5>2
        <5> QED
          BY <2>1, <4>2, <5>2, <5>3, <5>4
      <4> QED
        BY <1>15, <2>4, <3>2, <4>1, <4>2
    <3>3. ASSUME NEW g \in R, NEW h \in R, NEW i \in R,
                 Neighbours(R, g, h), Neighbours(R, h, i),
                 Later(g, h) > 0, Later(h, i) # Later(g, h)
          PROVE  after.jitter
      <4>1. g \in A /\ h \in A /\ Neighbours(A, g, h)
        <5>1. h # n
          BY <1>3, <1>12, <1>13, <3>3
        <5> QED
          BY <1>13, <3>3, <5>1
      <4>2. CASE i = n
        <5>1. h = l
          BY <2>5, <3>3, <4>1, <4>2
        <5>2. last = Later(g, h) /\ Later(h, i) = t - arrived[l].at
          BY <2>2, <2>5, <4>1, <4>2, <5>1
        <5> QED
          BY <2>4, <3>3, <5>2
      <4>3. CASE i # n
        <5>1. i \in A /\ Neighbours(A, h, i)
          BY <1>13, <3>3, <4>3
        <5>2. Between(g, h) > 0 /\ Between(h, i) # Between(g, h)
          BY <2>5, <3>3, <4>1, <5>1
        <5>3. found.jitter
          BY <2>3, <4>1, <5>1, <5>2
        <5> QED
          BY <2>4, <5>3
      <4> QED
        BY <4>2, <4>3
    <3>4. CASE j = k
      <4>1. stats'[j].jitter = after.jitter /\ ArrivalsOf(j)' = R
        BY <1>2, <1>5, <1>6, <3>4
      <4>2. after.jitter \in BOOLEAN
        BY <1>15, <2>4
      <4> HIDE DEF R
      <4> QED
        BY <3>2, <3>3, <4>1, <4>2
    <3> QED
      BY <3>1, <3>4
  <2> QED
    BY <2>6, <2>7
<1> QED
  BY <1>16, <1>17

------------------------------------------------------------------------------
(* What an event does to the heartbeats: a heartbeat is recorded as one.        *)
BeatOfFrame(fr, t) ==
  IF fr.msg.type = "HEARTBEAT" THEN BeatEffect(KeyOf(fr), t)
                               ELSE UNCHANGED <<heartbeat, beats>>

LEMMA MonitorBeatsKept ==
  ASSUME MonitorInv, NEW fr \in Frame, NEW t \in Nat, now <= t, now' = t,
         FrameEffect(fr, t), BeatOfFrame(fr, t)
  PROVE  HeartbeatsCounted'
<1> DEFINE k    == KeyOf(fr)
           beat == fr.msg.type = "HEARTBEAT"
<1>1. /\ FrameInv /\ FrameTypes /\ BeatTypes /\ HeartbeatsCounted
      /\ messageCounts' = [messageCounts EXCEPT ![fr.msg.type] = @ + 1]
  BY DEF MonitorInv, IInv, FrameInv, BeatInv, FrameEffect, RecordFrame
<1>2. k \in Keys /\ fr.msg.type \in MessageTypes
  BY FrameParts
<1> HIDE DEF k
<1>3. /\ heartbeat \in [Keys -> HeartbeatStats]
      /\ \A j \in Keys : heartbeat[j].count \in Nat
  BY <1>1 DEF BeatTypes, HeartbeatStats
<1>4. \A j \in Keys : heartbeat'[j].count = IF beat /\ j = k THEN heartbeat[j].count + 1
                                                            ELSE heartbeat[j].count
  <2>1. CASE beat
    <3>1. heartbeat' = [heartbeat EXCEPT ![k] = AfterHeartbeat(heartbeat[k], t)]
      BY <2>1 DEF BeatOfFrame, BeatEffect, UpdateHeartbeat, k
    <3>2. AfterHeartbeat(heartbeat[k], t).count = heartbeat[k].count + 1
      <4>1. CASE heartbeat[k].count = 0
        BY <4>1 DEF AfterHeartbeat
      <4>2. CASE heartbeat[k].count # 0
        BY <4>2 DEF AfterHeartbeat
      <4> QED
        BY <4>1, <4>2
    <3> QED
      BY <1>2, <1>3, <2>1, <3>1, <3>2
  <2>2. CASE ~beat
    BY <2>2 DEF BeatOfFrame
  <2> QED
    BY <2>1, <2>2
<1>5. ASSUME "HEARTBEAT" \in MessageTypes
      PROVE  messageCounts'["HEARTBEAT"] = SumFunction([j \in Keys |-> heartbeat'[j].count])
  <2> DEFINE f == [j \in Keys |-> heartbeat[j].count]
             e == [j \in Keys |-> heartbeat'[j].count]
  <2>1. messageCounts["HEARTBEAT"] = SumFunction(f)
    BY <1>1, <1>5 DEF HeartbeatsCounted
  <2>2. messageCounts'["HEARTBEAT"] = IF beat THEN messageCounts["HEARTBEAT"] + 1
                                              ELSE messageCounts["HEARTBEAT"]
    BY <1>1, <1>2, <1>5 DEF FrameTypes
  <2>3. CASE beat
    <3>1. f \in [Keys -> Nat] /\ e \in [Keys -> Nat]
      BY <1>3, <1>4
    <3>2. \A j \in Keys : e[j] = IF j = k THEN f[j] + 1 ELSE f[j]
      BY <1>4, <2>3
    <3> HIDE DEF f, e
    <3>3. SumFunction(e) = SumFunction(f) + 1
      BY <1>2, <3>1, <3>2, CountUp, FiniteKeys
    <3> QED
      BY <2>1, <2>2, <2>3, <3>3 DEF e
  <2>4. CASE ~beat
    <3>1. e = f
      BY <1>4, <2>4
    <3> QED
      BY <2>1, <2>2, <2>4, <3>1
  <2> QED
    BY <2>3, <2>4
<1>6. ASSUME NEW j \in Keys
      PROVE  heartbeat'[j].count <= stats'[j].frames
  <2>1. /\ heartbeat[j].count <= stats[j].frames
        /\ heartbeat[j].count \in Nat /\ stats[j].frames \in Nat
    BY <1>1, <1>3 DEF HeartbeatsCounted, FrameTypes, SourceMetrics
  <2>2. stats'[j].frames = IF j = k THEN stats[j].frames + 1 ELSE stats[j].frames
    <3>1. /\ Found(fr, t).frames = stats[k].frames
          /\ \A i \in Keys : stats'[i] = IF i = k THEN AfterFrame(Found(fr, t), fr, t)
                                                  ELSE stats[i]
      BY <1>1, FrameSource DEF MonitorInv, IInv, k
    <3>2. AfterFrame(Found(fr, t), fr, t).frames = Found(fr, t).frames + 1
      BY DEF AfterFrame
    <3> QED
      BY <3>1, <3>2
  <2> QED
    BY <1>4, <2>1, <2>2
<1> QED
  BY <1>5, <1>6 DEF HeartbeatsCounted

LEMMA AppendUniqueOK ==
  ASSUME NEW T, NEW s \in Seq(T), NEW x \in T
  PROVE  /\ AppendUnique(s, x) \in Seq(T)
         /\ Range(AppendUnique(s, x)) = Range(s) \cup {x}
         /\ x \in Range(s) => AppendUnique(s, x) = s
         /\ x \notin Range(s) =>
              /\ DOMAIN AppendUnique(s, x) = DOMAIN s \cup {Len(s) + 1}
              /\ AppendUnique(s, x)[Len(s) + 1] = x
              /\ \A i \in DOMAIN s : AppendUnique(s, x)[i] = s[i]
         /\ DOMAIN s = 1..Len(s) /\ Len(s) \in Nat
<1>1. DOMAIN s = 1..Len(s) /\ Len(s) \in Nat
  BY LenProperties
<1>2. Contains(s, x) <=> x \in Range(s)
  BY <1>1 DEF Contains, Range
<1>3. CASE x \in Range(s)
  BY <1>1, <1>2, <1>3 DEF AppendUnique
<1>4. CASE x \notin Range(s)
  <2> DEFINE r == Append(s, x)
  <2>1. AppendUnique(s, x) = r
    BY <1>2, <1>4 DEF AppendUnique
  <2>2. /\ r \in Seq(T) /\ r[Len(s) + 1] = x
        /\ DOMAIN r = DOMAIN s \cup {Len(s) + 1}
        /\ \A i \in DOMAIN s : r[i] = s[i]
    BY Appended
  <2> HIDE DEF r
  <2>3. Range(r) = Range(s) \cup {x}
    BY <2>2 DEF Range
  <2> QED
    BY <1>1, <1>4, <2>1, <2>2, <2>3
<1> QED
  BY <1>3, <1>4

LEMMA MonitorEvidenceKept ==
  ASSUME MonitorInv, NEW fr \in Frame, NEW t \in Nat, FrameEffect(fr, t),
         CheckGimbalMessage(fr.msg, KeyOf(fr))
  PROVE  EvidenceTypes' /\ EvidenceKept' /\ FirstSight'
<1> DEFINE n     == Len(arrived) + 1
           type  == fr.msg.type
           tells == Indicates(fr.msg, fr.comp)
           names == tells /\ type \in NamingMessages
<1> HIDE DEF n
<1>1. FrameTypes /\ EvidenceTypes /\ EvidenceKept /\ FirstSight
  BY DEF MonitorInv, IInv, FrameInv
<1>2. /\ type \in MessageTypes /\ fr.comp \in Components /\ KeyOf(fr) \in Keys
      /\ KeyOf(fr)[2] = fr.comp
  BY FrameParts
<1>3. /\ n \in Nat
      /\ DOMAIN arrived' = DOMAIN arrived \cup {n}
      /\ \A i \in DOMAIN arrived : /\ arrived'[i] = arrived[i] /\ i \in Nat /\ i < n
                                   /\ arrived[i].frame \in Frame
  BY <1>1, ArrivalPositions DEF n
<1>4. arrived'[n].frame = fr
  <2>1. arrived'[n] = [frame |-> fr, at |-> t]
    BY <1>1, ArrivalPositions DEF n
  <2> QED
    BY <2>1
<1>5. evidence' = IF tells
                  THEN [observed |-> TRUE,
                        kind     |-> IF type \in NamingMessages THEN type ELSE evidence.kind,
                        source   |-> KeyOf(fr),
                        seen     |-> AppendUnique(evidence.seen, type)]
                  ELSE evidence
  BY <1>2 DEF CheckGimbalMessage
<1> HIDE DEF KeyOf, Indicates, NamingMessages, type
<1>6. /\ evidence.observed \in BOOLEAN /\ evidence.kind \in NamingMessages \cup {NoKind}
      /\ evidence.source \in Keys \cup {NoSource} /\ evidence.seen \in Seq(MessageTypes)
  BY <1>1 DEF EvidenceTypes
<1> DEFINE seen == evidence.seen
           new  == AppendUnique(seen, type)
           m    == Len(seen) + 1
<1>7. /\ new \in Seq(MessageTypes) /\ Range(new) = Range(seen) \cup {type}
      /\ type \in Range(seen) => new = seen
      /\ type \notin Range(seen) => /\ DOMAIN new = DOMAIN seen \cup {m}
                                    /\ new[m] = type
                                    /\ \A a \in DOMAIN seen : new[a] = seen[a]
      /\ DOMAIN seen = 1..Len(seen) /\ Len(seen) \in Nat
  <2>1. seen \in Seq(MessageTypes) /\ type \in MessageTypes
    BY <1>2, <1>6
  <2>2. ASSUME NEW q \in Seq(MessageTypes), NEW y \in MessageTypes
        PROVE  /\ AppendUnique(q, y) \in Seq(MessageTypes)
               /\ Range(AppendUnique(q, y)) = Range(q) \cup {y}
               /\ y \in Range(q) => AppendUnique(q, y) = q
               /\ y \notin Range(q) =>
                    /\ DOMAIN AppendUnique(q, y) = DOMAIN q \cup {Len(q) + 1}
                    /\ AppendUnique(q, y)[Len(q) + 1] = y
                    /\ \A i \in DOMAIN q : AppendUnique(q, y)[i] = q[i]
               /\ DOMAIN q = 1..Len(q) /\ Len(q) \in Nat
    BY AppendUniqueOK
  <2> QED
    BY <2>1, <2>2
<1> HIDE DEF new
<1>8. EvidenceTypes'
  <2>1. CASE tells
    BY <1>2, <1>5, <1>6, <1>7, <2>1 DEF EvidenceTypes, new
  <2>2. CASE ~tells
    BY <1>1, <1>5, <2>2 DEF EvidenceTypes
  <2> QED
    BY <2>1, <2>2
<1>9. /\ Telling' = IF tells THEN Telling \cup {n} ELSE Telling
      /\ Naming' = IF names THEN Naming \cup {n} ELSE Naming
  <2>1. Telling' = IF tells THEN Telling \cup {n} ELSE Telling
    BY <1>3, <1>4 DEF Telling
  <2>2. Telling \subseteq DOMAIN arrived
    BY DEF Telling
  <2>3. \A i \in Telling' : i \in Naming' <=> arrived'[i].frame.msg.type \in NamingMessages
    BY DEF Naming
  <2>4. \A i \in Telling : i \in Naming <=> arrived[i].frame.msg.type \in NamingMessages
    BY DEF Naming
  <2>5. Naming' \subseteq Telling' /\ Naming \subseteq Telling
    BY DEF Naming
  <2>6. Naming' = IF names THEN Naming \cup {n} ELSE Naming
    BY <1>3, <1>4, <2>1, <2>2, <2>3, <2>4, <2>5 DEF type
  <2> QED
    BY <2>1, <2>6
<1>10. Telling \subseteq DOMAIN arrived /\ Naming \subseteq DOMAIN arrived
  BY DEF Telling, Naming
<1>11. TypesTold' = IF tells THEN TypesTold \cup {type} ELSE TypesTold
  BY <1>3, <1>4, <1>9, <1>10 DEF TypesTold, type
<1> HIDE DEF tells
<1>12. evidence'.observed <=> Telling' # {}
  BY <1>1, <1>5, <1>9 DEF EvidenceKept
<1>13. \A i \in Telling' : (\A j \in Telling' : j <= i) =>
                             evidence'.source = KeyOf(arrived'[i].frame)
  <2>1. CASE tells
    <3>1. \A i \in Telling : ~(n <= i)
      BY <1>3, <1>10
    <3> QED
      BY <1>4, <1>5, <1>9, <2>1, <3>1
  <2>2. CASE ~tells
    BY <1>1, <1>3, <1>5, <1>9, <1>10, <2>2 DEF EvidenceKept
  <2> QED
    BY <2>1, <2>2
<1>14. Naming' = {} => evidence'.kind = NoKind
  BY <1>1, <1>5, <1>9 DEF EvidenceKept
<1>15. \A i \in Naming' : (\A j \in Naming' : j <= i) =>
                            evidence'.kind = arrived'[i].frame.msg.type
  <2>1. CASE names
    <3>1. \A i \in Naming : ~(n <= i)
      BY <1>3, <1>10
    <3> QED
      BY <1>4, <1>5, <1>9, <2>1, <3>1 DEF type
  <2>2. CASE ~names
    BY <1>1, <1>3, <1>5, <1>9, <1>10, <2>2 DEF EvidenceKept
  <2> QED
    BY <2>1, <2>2
<1>16. evidence'.seen = IF tells THEN new ELSE seen
  BY <1>5 DEF new
<1>17. Range(seen) = TypesTold
  BY <1>1 DEF EvidenceKept
<1>18. Range(evidence'.seen) = TypesTold'
  BY <1>7, <1>11, <1>16, <1>17
<1>19. ASSUME NEW a \in DOMAIN evidence'.seen, NEW b \in DOMAIN evidence'.seen, a < b
       PROVE  \E i \in Telling' :
                /\ arrived'[i].frame.msg.type = evidence'.seen[a]
                /\ \A j \in Telling' :
                     arrived'[j].frame.msg.type = evidence'.seen[b] => i < j
  <2>1. ASSUME a \in DOMAIN seen, b \in DOMAIN seen,
               evidence'.seen[a] = seen[a], evidence'.seen[b] = seen[b]
        PROVE  \E i \in Telling' :
                 /\ arrived'[i].frame.msg.type = evidence'.seen[a]
                 /\ \A j \in Telling' :
                      arrived'[j].frame.msg.type = evidence'.seen[b] => i < j
    <3>1. PICK i \in Telling :
            /\ arrived[i].frame.msg.type = seen[a]
            /\ \A j \in Telling : arrived[j].frame.msg.type = seen[b] => i < j
      BY <1>1, <1>19, <2>1 DEF FirstSight
    <3>2. i < n /\ arrived'[i] = arrived[i] /\ i \in Telling'
      BY <1>3, <1>9, <1>10
    <3>3. \A j \in Telling' : j = n \/ (j \in Telling /\ arrived'[j] = arrived[j])
      BY <1>3, <1>9, <1>10
    <3> QED
      BY <2>1, <3>1, <3>2, <3>3
  <2>2. CASE ~tells \/ type \in Range(seen)
    BY <1>7, <1>16, <2>1, <2>2
  <2>3. CASE tells /\ type \notin Range(seen)
    <3>1. /\ DOMAIN evidence'.seen = DOMAIN seen \cup {m} /\ evidence'.seen[m] = type
          /\ \A e \in DOMAIN seen : evidence'.seen[e] = seen[e] /\ e < m
      BY <1>7, <1>16, <2>3
    <3>2. a \in DOMAIN seen
      BY <1>7, <1>19, <3>1
    <3>3. CASE b \in DOMAIN seen
      BY <2>1, <3>1, <3>2, <3>3
    <3>4. CASE b = m
      <4>1. seen[a] \in TypesTold
        BY <1>17, <3>2 DEF Range
      <4>2. PICK i \in Telling : arrived[i].frame.msg.type = seen[a]
        BY <4>1 DEF TypesTold
      <4>3. i < n /\ arrived'[i] = arrived[i] /\ i \in Telling'
        BY <1>3, <1>9, <1>10
      <4>4. \A j \in Telling : arrived[j].frame.msg.type # type
        BY <1>17, <2>3 DEF TypesTold
      <4>5. \A j \in Telling' : j = n \/ (j \in Telling /\ arrived'[j] = arrived[j])
        BY <1>3, <1>9, <1>10
      <4> QED
        BY <3>1, <3>2, <3>4, <4>2, <4>3, <4>4, <4>5
    <3> QED
      BY <3>1, <3>3, <3>4
  <2> QED
    BY <2>2, <2>3
<1>20. FirstSight'
  BY <1>19 DEF FirstSight
<1> QED
  BY <1>8, <1>12, <1>13, <1>14, <1>15, <1>18, <1>20 DEF EvidenceKept

(* What is kept of the frames says no more and no less than the documents ask. *)
LEMMA KeptIsFaithful == MonitorInv => EvidenceFaithful
<1> SUFFICES ASSUME MonitorInv PROVE EvidenceFaithful
  OBVIOUS
<1>1. FrameTypes /\ EvidenceKept /\ FirstSight
  BY DEF MonitorInv, IInv, FrameInv
<1>2. Len(arrived) \in Nat /\ DOMAIN arrived = 1..Len(arrived)
  BY <1>1, LenProperties DEF FrameTypes
<1>3. Confirming \subseteq Telling /\ Telling \subseteq DOMAIN arrived /\ Naming \subseteq Telling
  BY DEF Confirming, Telling, Naming, Indicates, GimbalMessages
<1>4. \A i \in Confirming : arrived[i].frame.msg.type \in Range(evidence.seen)
  BY <1>1, <1>3 DEF EvidenceKept, TypesTold
<1>5. Confirming # {} => evidence.observed
  BY <1>1, <1>3 DEF EvidenceKept
<1>6. ASSUME evidence.observed
      PROVE  Telling # {} /\ evidence.source \in {KeyOf(arrived[i].frame) : i \in Telling}
  <2>1. Telling # {} /\ Telling \in SUBSET (1..Len(arrived))
    BY <1>1, <1>2, <1>3, <1>6 DEF EvidenceKept
  <2>2. PICK l \in Telling : \A i \in Telling : i <= l
    BY <1>2, <2>1, HasLast
  <2> QED
    BY <1>1, <2>1, <2>2 DEF EvidenceKept
<1>7. ASSUME evidence.kind # NoKind
      PROVE  evidence.kind \in {arrived[i].frame.msg.type : i \in Naming}
  <2>1. Naming # {} /\ Naming \in SUBSET (1..Len(arrived))
    BY <1>1, <1>2, <1>3, <1>7 DEF EvidenceKept
  <2>2. PICK l \in Naming : \A i \in Naming : i <= l
    BY <1>2, <2>1, HasLast
  <2> QED
    BY <1>1, <2>2 DEF EvidenceKept
<1> QED
  BY <1>1, <1>4, <1>5, <1>6, <1>7 DEF EvidenceFaithful, EvidenceKept, FirstSight

------------------------------------------------------------------------------
LEMMA MonitorInitInv == MonitorInit => MonitorInv
<1> SUFFICES ASSUME MonitorInit PROVE MonitorInv
  OBVIOUS
<1>1. IInv
  BY InitIInv DEF MonitorInit
<1>2. /\ arrived = << >> /\ sources = {} /\ heartbeat = [k \in Keys |-> NoHeartbeat]
      /\ messageCounts = [m \in MessageTypes |-> 0]
      /\ \A k \in Keys : stats[k].jitter = FALSE
  BY NewSourceOK DEF MonitorInit, Init
<1>3. EvidenceTypes
  BY DEF MonitorInit, EvidenceInit, EvidenceTypes, NoKind, NoSource
<1>4. SourcesKept /\ LastArrivalKept /\ JitterIffChanged
  BY <1>2 DEF SourcesKept, LastArrivalKept, JitterIffChanged, ArrivalsOf
<1>5. HeartbeatsCounted
  <2> DEFINE f == [k \in Keys |-> heartbeat[k].count]
  <2>1. DOMAIN f = Keys /\ \A k \in Keys : f[k] = 0
    BY <1>2 DEF NoHeartbeat
  <2> HIDE DEF f
  <2>2. SumFunction(f) = 0
    BY <2>1, SumZero, FiniteKeys DEF SumFunction
  <2>3. \A k \in Keys : stats[k].frames \in Nat
    BY <1>1 DEF IInv, FrameInv, FrameTypes, SourceMetrics
  <2>4. \A k \in Keys : heartbeat[k].count <= stats[k].frames
    BY <2>1, <2>3 DEF f
  <2> QED
    BY <1>2, <2>2, <2>4 DEF HeartbeatsCounted, f
<1>6. EvidenceKept /\ FirstSight
  <2>1. Telling = {} /\ Naming = {} /\ TypesTold = {}
    BY <1>2 DEF Telling, Naming, TypesTold
  <2>2. /\ evidence.observed = FALSE /\ evidence.kind = NoKind /\ evidence.seen = << >>
    BY DEF MonitorInit, EvidenceInit
  <2>3. Range(evidence.seen) = {} /\ DOMAIN evidence.seen = {}
    BY <2>2 DEF Range
  <2> QED
    BY <2>1, <2>2, <2>3 DEF EvidenceKept, FirstSight
<1> QED
  BY <1>1, <1>3, <1>4, <1>5, <1>6 DEF MonitorInv

(* One event, of any frame. *)
LEMMA FrameEventStep ==
  ASSUME MonitorInv, NEW fr \in Frame, NEW d \in Nat, FrameEvent(fr, d)
  PROVE  /\ MonitorInv'
         /\ now + d \in Nat /\ now <= now + d /\ FrameEffect(fr, now + d)
<1> DEFINE t == now + d
<1>1. now \in Nat /\ t \in Nat /\ now <= t /\ now' = t /\ FrameInv /\ BeatInv
  BY DEF MonitorInv, IInv, FrameEvent
<1> HIDE DEF t
<1>2. /\ FrameEffect(fr, t) /\ BeatOfFrame(fr, t)
      /\ CheckGimbalMessage(fr.msg, KeyOf(fr))
      /\ totalParseErrors' = totalParseErrors
  BY <1>1 DEF FrameEvent, FrameEffect, BeatOfFrame, BeatEffect
<1>3. FrameInv'
  BY <1>1, <1>2, FrameEffectOK
<1>4. BeatInv'
  <2>1. CASE fr.msg.type = "HEARTBEAT"
    BY <1>1, <1>2, <2>1, FrameParts, BeatEffectOK DEF BeatOfFrame
  <2>2. CASE fr.msg.type # "HEARTBEAT"
    BY <1>1, <1>2, <2>2, BeatInvKept DEF BeatOfFrame
  <2> QED
    BY <2>1, <2>2
<1>5. IInv'
  BY <1>1, <1>2, <1>3, <1>4 DEF MonitorInv, IInv
<1>6. MonitorInv'
  BY <1>1, <1>2, <1>5, MonitorSourcesKept, MonitorArrivalsKept, MonitorBeatsKept,
     MonitorEvidenceKept DEF MonitorInv
<1> QED
  BY <1>1, <1>2, <1>6 DEF t

(* What leaves the history and the evidence alone. *)
LEMMA MonitorQuietStep ==
  ASSUME MonitorInv, ParseErrorEvent \/ UNCHANGED monitorVars
  PROVE  MonitorInv'
<1>1. /\ ParseErrorCall \/ UNCHANGED vars
      /\ evidence' = evidence
  BY DEF ParseErrorEvent, monitorVars
<1>2. IInv'
  BY <1>1, QuietStep DEF MonitorInv
<1>3. /\ sources' = sources /\ stats' = stats /\ heartbeat' = heartbeat
      /\ messageCounts' = messageCounts /\ arrived' = arrived
  BY <1>1 DEF ParseErrorCall, RecordParseError, vars, sourceVars, frameVars
<1>4. EvidenceTypes'
  BY <1>1 DEF MonitorInv, EvidenceTypes
<1>5. SourcesKept'
  BY <1>3 DEF MonitorInv, SourcesKept
<1>6. LastArrivalKept' /\ JitterIffChanged'
  BY <1>3 DEF MonitorInv, LastArrivalKept, JitterIffChanged, ArrivalsOf, Between, Neighbours
<1>7. HeartbeatsCounted'
  BY <1>3 DEF MonitorInv, HeartbeatsCounted
<1>8. EvidenceKept' /\ FirstSight'
  BY <1>1, <1>3 DEF MonitorInv, EvidenceKept, FirstSight, Telling, Naming, TypesTold
<1> QED
  BY <1>2, <1>4, <1>5, <1>6, <1>7, <1>8 DEF MonitorInv

LEMMA MonitorTypes == MonitorInv => MonitorTypeOK
BY TypesTogether DEF MonitorInv, IInv, EvidenceTypes, MonitorTypeOK

(* The tracker's invariant, the history of what arrived and the evidence go      *)
(* together in every state of the monitor.                                      *)
THEOREM MonitorInvariant == MonitorSpec => []MonitorInv
<1>1. MonitorInv /\ [MonitorNext]_monitorVars => MonitorInv'
  <2> SUFFICES ASSUME MonitorInv, [MonitorNext]_monitorVars PROVE MonitorInv'
    OBVIOUS
  <2>1. CASE \E fr \in Incoming, d \in FrameDelays : FrameEvent(fr, d)
    BY <2>1, FrameEventStep, TrackerAssumption DEF Incoming
  <2>2. CASE ParseErrorEvent \/ UNCHANGED monitorVars
    BY <2>2, MonitorQuietStep
  <2> QED
    BY <2>1, <2>2 DEF MonitorNext
<1> QED
  BY MonitorInitInv, <1>1, PTL DEF MonitorSpec

(* Whatever arrives, the tracker and the evidence keep to their types. *)
THEOREM MonitorTypeCorrect == MonitorSpec => []MonitorTypeOK
BY MonitorInvariant, MonitorTypes, PTL

(* The jitter of a source is above zero when, and only when, two successive      *)
(* intervals of it differ and the first of them is not zero, whoever else's       *)
(* frames come between.  It says nothing of how large the jitter is.             *)
THEOREM JitterOnlyFromChange == MonitorSpec => []JitterIffChanged
<1>1. MonitorInv => JitterIffChanged
  BY DEF MonitorInv
<1> QED
  BY MonitorInvariant, <1>1, PTL

(* Every heartbeat is counted as a message, as a frame and as a heartbeat of its  *)
(* source, and nothing else as a heartbeat.                                      *)
THEOREM HeartbeatsAllCounted == MonitorSpec => []HeartbeatsCounted
<1>1. MonitorInv => HeartbeatsCounted
  BY DEF MonitorInv
<1> QED
  BY MonitorInvariant, <1>1, PTL

(* The evidence of a gimbal says what arrived: no message README.md:153 names is  *)
(* missed, nothing is confirmed without a telling frame, and what is listed       *)
(* arrived, each once, in the order of first sight.                              *)
THEOREM EvidenceIsFaithful == MonitorSpec => []EvidenceFaithful
BY MonitorInvariant, KeptIsFaithful, PTL

(* In the monitor too, where one event records a frame and its heartbeat, the     *)
(* counts agree, the gaps are accounted for and the heartbeat statistics exact.   *)
THEOREM MonitorTracksExactly ==
  MonitorSpec => [](CountsAgree /\ GapsAccounted /\ HeartbeatStatsExact)
<1>1. MonitorInv => CountsAgree /\ GapsAccounted /\ HeartbeatStatsExact
  BY ExtremesExact DEF MonitorInv, IInv, FrameInv
<1> QED
  BY MonitorInvariant, <1>1, PTL
------------------------------------------------------------------------------
(* What is kept of the link, with its type. *)
LinkTypes ==
  /\ nextNr \in [Counters -> Nat]
  /\ gone \in [Counters -> 0..255]
  /\ carried \in [Counters -> 0..MaxSent]
  /\ wire \in Seq([key : Keys, nr : Nat, before : 0..255])
  /\ lost \in [Keys -> Nat]

(* The frames of a system on the link, when its sources share a counter. *)
OnWire(s) == {i \in DOMAIN wire : wire[i].key[1] = s}

(* The numbers of a system's frames follow each other but for the lost ones: from  *)
(* the last that arrived to the first on the link, along the link, and from the    *)
(* last on the link to the next that is sent.                                     *)
Chained ==
  \A s \in Systems :
    /\ \A i, j \in OnWire(s) : Neighbours(OnWire(s), i, j) =>
         wire[j].nr = wire[i].nr + 1 + wire[j].before
    /\ \A i \in OnWire(s) : (\A h \in OnWire(s) : i <= h) /\ s \in sysHasSeq =>
         (wire[i].nr - 1 - wire[i].before) % SeqSpace = sysLastSeq[s]
    /\ \A i \in OnWire(s) : (\A h \in OnWire(s) : h <= i) =>
         nextNr[<<s>>] = wire[i].nr + 1 + gone[<<s>>]
    /\ OnWire(s) = {} /\ s \in sysHasSeq =>
         (nextNr[<<s>>] - 1 - gone[<<s>>]) % SeqSpace = sysLastSeq[s]

LinkInv == MonitorInv /\ LinkTypes

SharedInv == LinkInv /\ Chained /\ DropsExact

(* A counter belongs to each source: its own or, when the sources of a system     *)
(* share one, that of the system.                                               *)
LEMMA CounterFacts ==
  /\ \A k \in Keys : CounterOf(k) \in Counters
  /\ ~PerComponent => /\ \A k \in Keys : CounterOf(k) = <<k[1]>> /\ k[1] \in Systems
                      /\ \A c \in Counters : \E s \in Systems : c = <<s>>
<1>1. \A k \in Keys : k[1] \in Systems
  BY DEF Keys
<1> QED
  BY <1>1 DEF CounterOf, Counters

(* A frame that the monitor gets from the link. *)
LEMMA Delivered ==
  ASSUME LinkInv, Deliver
  PROVE  /\ wire # << >> /\ Head(wire) = wire[1] /\ 1 \in DOMAIN wire
         /\ wire[1].key \in Keys /\ wire[1].nr \in Nat /\ wire[1].before \in 0..255
         /\ \E fr \in Frame : /\ KeyOf(fr) = wire[1].key /\ fr.sys = wire[1].key[1]
                              /\ fr.seq = wire[1].nr % SeqSpace
                              /\ \E d \in Nat : FrameEvent(fr, d)
<1>1. wire \in Seq([key : Keys, nr : Nat, before : 0..255]) /\ wire # << >>
  BY DEF LinkInv, LinkTypes, Deliver
<1>2. Len(wire) \in Nat /\ Len(wire) # 0 /\ DOMAIN wire = 1..Len(wire)
  <2>1. Len(wire) \in Nat /\ DOMAIN wire = 1..Len(wire)
    BY <1>1, LenProperties
  <2>2. Len(wire) # 0
    BY <1>1, EmptySeq
  <2> QED
    BY <2>1, <2>2
<1>3. 1 \in DOMAIN wire /\ wire[1] \in [key : Keys, nr : Nat, before : 0..255]
  <2>1. 1 \in 1..Len(wire)
    BY <1>2
  <2> QED
    BY <1>1, <1>2, <2>1, ElementOfSeq
<1>4. Head(wire) = wire[1]
  BY <1>1
<1> DEFINE f == wire[1]
<1>5. f.key \in Keys /\ f.nr \in Nat /\ f.before \in 0..255
  BY <1>3
<1>6. PICK m \in Messages, v \in Versions, d \in FrameDelays :
        FrameEvent([sys |-> f.key[1], comp |-> f.key[2], seq |-> f.nr % SeqSpace,
                    ver |-> v, msg |-> m], d)
  BY <1>4 DEF Deliver
<1> DEFINE fr == [sys |-> f.key[1], comp |-> f.key[2], seq |-> f.nr % SeqSpace,
                  ver |-> v, msg |-> m]
<1>7. f.nr % SeqSpace \in SeqNumbers
  BY <1>5 DEF SeqNumbers, SeqSpace
<1> HIDE DEF f
<1>8. f.key[1] \in Systems /\ f.key[2] \in Components /\ f.key = <<f.key[1], f.key[2]>>
  BY <1>5 DEF Keys
<1>9. fr \in Frame /\ KeyOf(fr) = f.key /\ fr.sys = f.key[1] /\ fr.seq = f.nr % SeqSpace
  BY <1>7, <1>8 DEF Frame, KeyOf
<1>10. FrameEvent(fr, d) /\ d \in Nat
  BY <1>6, TrackerAssumption
<1> HIDE DEF fr
<1>11. \E e \in Frame : /\ KeyOf(e) = f.key /\ e.sys = f.key[1]
                        /\ e.seq = f.nr % SeqSpace
                        /\ \E x \in Nat : FrameEvent(e, x)
  BY <1>9, <1>10
<1> QED
  BY <1>1, <1>3, <1>4, <1>5, <1>11 DEF f

LEMMA LinkStep ==
  ASSUME LinkInv, [LinkNext]_<<monitorVars, linkVars>>
  PROVE  LinkInv'
<1>1. MonitorInv /\ LinkTypes
  BY DEF LinkInv
<1>2. /\ nextNr \in [Counters -> Nat] /\ gone \in [Counters -> 0..255]
      /\ carried \in [Counters -> 0..MaxSent] /\ lost \in [Keys -> Nat]
      /\ wire \in Seq([key : Keys, nr : Nat, before : 0..255])
  BY <1>1 DEF LinkTypes
<1>3. ASSUME NEW k \in Keys, PutOnWire(k)
      PROVE  LinkInv'
  <2> DEFINE c == CounterOf(k)
  <2>1. c \in Counters
    BY CounterFacts
  <2> HIDE DEF c
  <2>2. /\ carried[c] < MaxSent
        /\ wire' = Append(wire, [key |-> k, nr |-> nextNr[c], before |-> gone[c]])
        /\ nextNr' = [nextNr EXCEPT ![c] = @ + 1]
        /\ carried' = [carried EXCEPT ![c] = @ + 1]
        /\ gone' = [gone EXCEPT ![c] = 0]
        /\ UNCHANGED monitorVars /\ lost' = lost
    BY <1>3 DEF PutOnWire, c
  <2>3. MonitorInv'
    BY <1>1, <2>2, MonitorQuietStep
  <2>4. nextNr' \in [Counters -> Nat] /\ gone' \in [Counters -> 0..255]
    BY <1>2, <2>1, <2>2
  <2>5. carried' \in [Counters -> 0..MaxSent]
    <3>1. carried[c] \in 0..MaxSent /\ MaxSent \in Nat
      BY <1>2, <2>1, LinkAssumption
    <3>2. carried[c] + 1 \in 0..MaxSent
      BY <2>2, <3>1
    <3> QED
      BY <1>2, <2>1, <2>2, <3>2
  <2>6. wire' \in Seq([key : Keys, nr : Nat, before : 0..255])
    <3>1. [key |-> k, nr |-> nextNr[c], before |-> gone[c]]
            \in [key : Keys, nr : Nat, before : 0..255]
      BY <1>2, <2>1
    <3> QED
      BY <1>2, <2>2, <3>1, AppendProperties
  <2> QED
    BY <1>2, <2>2, <2>3, <2>4, <2>5, <2>6 DEF LinkInv, LinkTypes
<1>4. ASSUME NEW c \in Counters, NEW n \in Bursts, LoseBurst(c, n)
      PROVE  LinkInv'
  <2>1. n \in 1..255
    BY LinkAssumption
  <2>2. /\ nextNr' = [nextNr EXCEPT ![c] = @ + n] /\ gone' = [gone EXCEPT ![c] = n]
        /\ UNCHANGED monitorVars /\ carried' = carried /\ wire' = wire /\ lost' = lost
    BY <1>4 DEF LoseBurst
  <2>3. MonitorInv'
    BY <1>1, <2>2, MonitorQuietStep
  <2>4. nextNr' \in [Counters -> Nat] /\ gone' \in [Counters -> 0..255]
    BY <1>2, <2>1, <2>2
  <2> QED
    BY <1>2, <2>2, <2>3, <2>4 DEF LinkInv, LinkTypes
<1>5. ASSUME Deliver
      PROVE  LinkInv'
  <2>1. PICK fr \in Frame, d \in Nat : FrameEvent(fr, d)
    BY <1>5, Delivered
  <2>2. MonitorInv'
    BY <1>1, <2>1, FrameEventStep
  <2>3. wire' \in Seq([key : Keys, nr : Nat, before : 0..255])
    <3>1. wire # << >> /\ wire' = Tail(wire)
      BY <1>5 DEF Deliver
    <3>2. Tail(wire) \in Seq([key : Keys, nr : Nat, before : 0..255])
      BY <1>2, <3>1, HeadTailProperties
    <3> QED
      BY <3>1, <3>2
  <2>4. lost' \in [Keys -> Nat]
    <3>1. Head(wire).key \in Keys /\ Head(wire).before \in Nat
      <4>1. /\ Head(wire) = wire[1] /\ wire[1].key \in Keys
            /\ wire[1].before \in 0..255
        BY <1>5, Delivered
      <4> QED
        BY <4>1
    <3> QED
      BY <1>2, <1>5, <3>1 DEF Deliver
  <2> QED
    BY <1>2, <1>5, <2>2, <2>3, <2>4 DEF Deliver, LinkInv, LinkTypes
<1>6. ASSUME UNCHANGED <<monitorVars, linkVars>>
      PROVE  LinkInv'
  BY <1>1, <1>6, MonitorQuietStep DEF linkVars, LinkInv, LinkTypes
<1>7. ASSUME Noise
      PROVE  LinkInv'
  <2>1. ParseErrorEvent /\ UNCHANGED linkVars
    BY <1>7 DEF Noise
  <2>2. MonitorInv'
    BY <1>1, <2>1, MonitorQuietStep
  <2> QED
    BY <1>1, <2>1, <2>2 DEF linkVars, LinkInv, LinkTypes
<1> QED
  BY <1>3, <1>4, <1>5, <1>6, <1>7 DEF LinkNext

LEMMA LinkInitInv == LinkInit => LinkInv
<1> SUFFICES ASSUME LinkInit PROVE LinkInv
  OBVIOUS
<1>1. MonitorInv
  BY MonitorInitInv DEF LinkInit
<1>2. nextNr \in [Counters -> Nat] /\ gone \in [Counters -> 0..255]
  <2>1. nextNr \in [Counters -> Nat]
    BY LinkAssumption DEF LinkInit
  <2>2. gone \in [Counters -> 0..255]
    BY DEF LinkInit
  <2> QED
    BY <2>1, <2>2
<1>3. carried \in [Counters -> 0..MaxSent] /\ lost \in [Keys -> Nat]
  BY LinkAssumption DEF LinkInit
<1>4. wire \in Seq([key : Keys, nr : Nat, before : 0..255])
  BY DEF LinkInit
<1> QED
  BY <1>1, <1>2, <1>3, <1>4 DEF LinkInv, LinkTypes

(* The link starts with its types, and so keeps them. *)
THEOREM LinkInvariant == LinkSpec => []LinkInv
BY LinkInitInv, LinkStep, PTL DEF LinkSpec

(* Frames on the link, numbers and losses keep to their types, and the monitor    *)
(* at its end to its own.                                                        *)
THEOREM LinkTypeCorrect == LinkSpec => []LinkTypeOK
<1>1. LinkInv => LinkTypeOK
  BY MonitorTypes DEF LinkInv, LinkTypes, LinkTypeOK
<1> QED
  BY LinkInvariant, <1>1, PTL

(* What is proved of the monitor alone holds at the end of a lossy link too. *)
THEOREM LinkMonitors ==
  LinkSpec => [](JitterIffChanged /\ HeartbeatsCounted /\ EvidenceFaithful)
<1>1. LinkInv => JitterIffChanged /\ HeartbeatsCounted /\ EvidenceFaithful
  BY KeptIsFaithful DEF LinkInv, MonitorInv
<1> QED
  BY LinkInvariant, <1>1, PTL

------------------------------------------------------------------------------
(* The gap is the run that was lost when the run is of 255 at most. *)
LEMMA GapRecovers ==
  ASSUME NEW nr \in Nat, NEW before \in 0..255, NEW last,
         last = (nr - 1 - before) % SeqSpace
  PROVE  Gap(last, nr % SeqSpace) = before
BY DEF Gap, SeqSpace

(* What is on the link, position by position. *)
LEMMA WireParts ==
  ASSUME LinkTypes
  PROVE  /\ Len(wire) \in Nat /\ DOMAIN wire = 1..Len(wire)
         /\ \A i \in DOMAIN wire : /\ i \in Nat /\ wire[i].key \in Keys
                                   /\ wire[i].nr \in Nat /\ wire[i].before \in 0..255
<1>1. wire \in Seq([key : Keys, nr : Nat, before : 0..255])
  BY DEF LinkTypes
<1>2. Len(wire) \in Nat /\ DOMAIN wire = 1..Len(wire)
  BY <1>1, LenProperties
<1>3. \A i \in DOMAIN wire : wire[i] \in [key : Keys, nr : Nat, before : 0..255]
  BY <1>1, <1>2, ElementOfSeq
<1> QED
  BY <1>2, <1>3

LEMMA PutKeepsChained ==
  ASSUME ~PerComponent, LinkTypes, Chained, NEW k \in Keys, PutOnWire(k)
  PROVE  Chained'
<1> DEFINE s == k[1]
           c == <<s>>
           n == Len(wire) + 1
           x == [key |-> k, nr |-> nextNr[c], before |-> gone[c]]
<1>1. s \in Systems /\ CounterOf(k) = c /\ c \in Counters
  BY CounterFacts
<1>2. /\ wire' = Append(wire, x)
      /\ nextNr' = [nextNr EXCEPT ![c] = @ + 1]
      /\ gone' = [gone EXCEPT ![c] = 0]
      /\ sysHasSeq' = sysHasSeq /\ sysLastSeq' = sysLastSeq
  BY <1>1 DEF PutOnWire, monitorVars, vars, frameVars
<1>3. /\ nextNr \in [Counters -> Nat] /\ gone \in [Counters -> 0..255]
      /\ wire \in Seq([key : Keys, nr : Nat, before : 0..255])
  BY DEF LinkTypes
<1>4. nextNr[c] \in Nat /\ gone[c] \in 0..255
  BY <1>1, <1>3
<1>5. \A r \in Systems : <<r>> \in Counters /\ (<<r>> = c <=> r = s)
  <2>1. \A r \in Systems : r # s => <<r>> # c
    OBVIOUS
  <2>2. \A r \in Systems : <<r>> \in Counters
    <3> SUFFICES ASSUME NEW r \in Systems PROVE <<r>> \in Counters
      OBVIOUS
    <3>1. <<r, k[2]>> \in Keys /\ <<r, k[2]>>[1] = r
      BY DEF Keys
    <3> QED
      BY <3>1, CounterFacts
  <2> QED
    BY <2>1, <2>2
<1>6. /\ nextNr'[c] = nextNr[c] + 1 /\ gone'[c] = 0
      /\ \A r \in Systems : r # s => nextNr'[<<r>>] = nextNr[<<r>>] /\ gone'[<<r>>] = gone[<<r>>]
  BY <1>1, <1>2, <1>3, <1>5
<1>7. x \in [key : Keys, nr : Nat, before : 0..255]
  BY <1>4
<1> HIDE DEF x, c, s
<1>8. /\ n \in Nat /\ n \notin DOMAIN wire /\ wire'[n] = x
      /\ DOMAIN wire' = DOMAIN wire \cup {n}
      /\ \A i \in DOMAIN wire : wire'[i] = wire[i] /\ i \in Nat /\ i < n
  BY <1>2, <1>3, <1>7, Appended
<1> HIDE DEF n
<1>9. x.key = k /\ x.key[1] = s /\ x.nr = nextNr[c] /\ x.before = gone[c]
  BY DEF x, s
<1>10. \A r \in Systems : OnWire(r)' = IF r = s THEN OnWire(r) \cup {n} ELSE OnWire(r)
  BY <1>8, <1>9 DEF OnWire
<1>11. \A r \in Systems : \A i \in OnWire(r) : i \in DOMAIN wire /\ i \in Nat /\ i < n
  BY <1>8 DEF OnWire
<1>12. \A i \in DOMAIN wire : wire[i].nr \in Nat
  BY WireParts
<1> SUFFICES ASSUME NEW r \in Systems
             PROVE  /\ \A i, j \in OnWire(r)' : Neighbours(OnWire(r)', i, j) =>
                         wire'[j].nr = wire'[i].nr + 1 + wire'[j].before
                    /\ \A i \in OnWire(r)' : (\A h \in OnWire(r)' : i <= h) /\ r \in sysHasSeq' =>
                         (wire'[i].nr - 1 - wire'[i].before) % SeqSpace = sysLastSeq'[r]
                    /\ \A i \in OnWire(r)' : (\A h \in OnWire(r)' : h <= i) =>
                         nextNr'[<<r>>] = wire'[i].nr + 1 + gone'[<<r>>]
                    /\ OnWire(r)' = {} /\ r \in sysHasSeq' =>
                         (nextNr'[<<r>>] - 1 - gone'[<<r>>]) % SeqSpace = sysLastSeq'[r]
  BY DEF Chained, Neighbours
<1>13. CASE r # s
  <2>1. /\ OnWire(r)' = OnWire(r) /\ nextNr'[<<r>>] = nextNr[<<r>>] /\ gone'[<<r>>] = gone[<<r>>]
        /\ \A i \in OnWire(r) : wire'[i] = wire[i]
    BY <1>6, <1>8, <1>10, <1>11, <1>13
  <2>2. sysHasSeq' = sysHasSeq /\ sysLastSeq' = sysLastSeq
    BY <1>2
  <2>3. /\ \A i, j \in OnWire(r) : Neighbours(OnWire(r), i, j) =>
             wire[j].nr = wire[i].nr + 1 + wire[j].before
        /\ \A i \in OnWire(r) : (\A h \in OnWire(r) : i <= h) /\ r \in sysHasSeq =>
             (wire[i].nr - 1 - wire[i].before) % SeqSpace = sysLastSeq[r]
    BY DEF Chained
  <2>4. /\ \A i \in OnWire(r) : (\A h \in OnWire(r) : h <= i) =>
             nextNr[<<r>>] = wire[i].nr + 1 + gone[<<r>>]
        /\ OnWire(r) = {} /\ r \in sysHasSeq =>
             (nextNr[<<r>>] - 1 - gone[<<r>>]) % SeqSpace = sysLastSeq[r]
    BY DEF Chained
  <2> QED
    BY <2>1, <2>2, <2>3, <2>4
<1>14. CASE r = s
  <2> DEFINE W == OnWire(r)
  <2>1. OnWire(r)' = W \cup {n} /\ \A i \in W : i \in DOMAIN wire /\ i \in Nat /\ i < n
    BY <1>10, <1>11, <1>14
  <2>2. /\ \A i, j \in W : Neighbours(W, i, j) => wire[j].nr = wire[i].nr + 1 + wire[j].before
        /\ \A i \in W : (\A h \in W : i <= h) /\ r \in sysHasSeq =>
             (wire[i].nr - 1 - wire[i].before) % SeqSpace = sysLastSeq[r]
        /\ \A i \in W : (\A h \in W : h <= i) => nextNr[c] = wire[i].nr + 1 + gone[c]
        /\ W = {} /\ r \in sysHasSeq => (nextNr[c] - 1 - gone[c]) % SeqSpace = sysLastSeq[r]
    BY <1>14 DEF Chained, c
  <2>3. <<r>> = c
    BY <1>14 DEF c
  <2> HIDE DEF W
  <2>4. ASSUME NEW i \in W \cup {n}, NEW j \in W \cup {n}, Neighbours(W \cup {n}, i, j)
        PROVE  wire'[j].nr = wire'[i].nr + 1 + wire'[j].before
    <3>1. i \in W
      BY <1>8, <2>1, <2>4 DEF Neighbours
    <3>2. CASE j \in W
      <4>1. Neighbours(W, i, j)
        BY <2>4 DEF Neighbours
      <4> QED
        BY <1>8, <2>1, <2>2, <3>1, <3>2, <4>1
    <3>3. CASE j = n
      <4>1. \A h \in W : h <= i
        BY <1>8, <2>1, <2>4, <3>3 DEF Neighbours
      <4> QED
        BY <1>8, <1>9, <2>1, <2>2, <3>1, <3>3, <4>1
    <3> QED
      BY <3>2, <3>3
  <2>5. ASSUME NEW i \in W \cup {n}, \A h \in W \cup {n} : i <= h, r \in sysHasSeq'
        PROVE  (wire'[i].nr - 1 - wire'[i].before) % SeqSpace = sysLastSeq'[r]
    <3>1. CASE W = {}
      BY <1>2, <1>8, <1>9, <2>2, <2>5, <3>1
    <3>2. CASE W # {}
      <4>1. i \in W
        BY <1>8, <2>1, <2>5, <3>2
      <4> QED
        BY <1>2, <1>8, <2>1, <2>2, <2>5, <4>1
    <3> QED
      BY <3>1, <3>2
  <2>6. ASSUME NEW i \in W \cup {n}, \A h \in W \cup {n} : h <= i
        PROVE  nextNr'[c] = wire'[i].nr + 1 + gone'[c]
    <3>1. i = n
      BY <1>8, <2>1, <2>6
    <3> QED
      BY <1>4, <1>6, <1>8, <1>9, <3>1
  <2> QED
    BY <2>1, <2>3, <2>4, <2>5, <2>6
<1> QED
  BY <1>13, <1>14

LEMMA LoseKeepsChained ==
  ASSUME ~PerComponent, LinkTypes, Chained, NEW c \in Counters, NEW n \in Bursts,
         LoseBurst(c, n)
  PROVE  Chained'
<1>1. PICK s \in Systems : c = <<s>>
  BY CounterFacts
<1>2. /\ gone[c] = 0 /\ n \in 1..255
      /\ nextNr' = [nextNr EXCEPT ![c] = @ + n] /\ gone' = [gone EXCEPT ![c] = n]
      /\ wire' = wire /\ sysHasSeq' = sysHasSeq /\ sysLastSeq' = sysLastSeq
  BY LinkAssumption DEF LoseBurst, monitorVars, vars, frameVars
<1>3. nextNr \in [Counters -> Nat] /\ gone \in [Counters -> 0..255]
  BY DEF LinkTypes
<1>4. nextNr'[c] = nextNr[c] + n /\ gone'[c] = n /\ nextNr[c] \in Nat
  BY <1>2, <1>3
<1>5. \A r : r # s => nextNr'[<<r>>] = nextNr[<<r>>] /\ gone'[<<r>>] = gone[<<r>>]
  <2>1. \A r : r # s => <<r>> # c
    BY <1>1
  <2> QED
    BY <1>2, <1>3, <2>1
<1>6. \A r \in Systems : OnWire(r)' = OnWire(r)
  BY <1>2 DEF OnWire
<1>7. \A r \in Systems : \A i \in OnWire(r) : wire[i].nr \in Nat
  BY WireParts DEF OnWire
<1> SUFFICES ASSUME NEW r \in Systems
             PROVE  /\ \A i, j \in OnWire(r)' : Neighbours(OnWire(r)', i, j) =>
                         wire'[j].nr = wire'[i].nr + 1 + wire'[j].before
                    /\ \A i \in OnWire(r)' : (\A h \in OnWire(r)' : i <= h) /\ r \in sysHasSeq' =>
                         (wire'[i].nr - 1 - wire'[i].before) % SeqSpace = sysLastSeq'[r]
                    /\ \A i \in OnWire(r)' : (\A h \in OnWire(r)' : h <= i) =>
                         nextNr'[<<r>>] = wire'[i].nr + 1 + gone'[<<r>>]
                    /\ OnWire(r)' = {} /\ r \in sysHasSeq' =>
                         (nextNr'[<<r>>] - 1 - gone'[<<r>>]) % SeqSpace = sysLastSeq'[r]
  BY DEF Chained, Neighbours
<1>8. /\ \A i \in OnWire(r) : (\A h \in OnWire(r) : h <= i) =>
           nextNr[<<r>>] = wire[i].nr + 1 + gone[<<r>>]
      /\ OnWire(r) = {} /\ r \in sysHasSeq =>
           (nextNr[<<r>>] - 1 - gone[<<r>>]) % SeqSpace = sysLastSeq[r]
  BY DEF Chained
<1>9. /\ \A i, j \in OnWire(r) : Neighbours(OnWire(r), i, j) =>
           wire[j].nr = wire[i].nr + 1 + wire[j].before
      /\ \A i \in OnWire(r) : (\A h \in OnWire(r) : i <= h) /\ r \in sysHasSeq =>
           (wire[i].nr - 1 - wire[i].before) % SeqSpace = sysLastSeq[r]
  BY DEF Chained
<1>10. /\ OnWire(r)' = OnWire(r) /\ wire' = wire
       /\ sysHasSeq' = sysHasSeq /\ sysLastSeq' = sysLastSeq
  BY <1>2, <1>6
<1>11. CASE r = s
  <2>1. nextNr'[c] - 1 - gone'[c] = nextNr[c] - 1 - gone[c]
    BY <1>2, <1>4
  <2>2. \A i \in OnWire(r) : (\A h \in OnWire(r) : h <= i) =>
           nextNr'[c] = wire[i].nr + 1 + gone'[c]
    BY <1>1, <1>2, <1>4, <1>7, <1>8, <1>11
  <2> QED
    BY <1>1, <1>8, <1>9, <1>10, <1>11, <2>1, <2>2
<1>12. CASE r # s
  BY <1>5, <1>8, <1>9, <1>10, <1>12
<1> QED
  BY <1>11, <1>12

(* What the delivery of a frame does to the tracker, and to the losses revealed. *)
LEMMA DeliveredEffect ==
  ASSUME ~PerComponent, LinkInv, Deliver, Chained
  PROVE  /\ sysHasSeq' = sysHasSeq \cup {wire[1].key[1]}
         /\ sysLastSeq' = [sysLastSeq EXCEPT ![wire[1].key[1]] = wire[1].nr % SeqSpace]
         /\ \A j \in Keys :
              /\ stats'[j].dropped = IF j = wire[1].key /\ j[1] \in sysHasSeq
                                     THEN stats[j].dropped + wire[1].before
                                     ELSE stats[j].dropped
              /\ lost'[j] = IF j = wire[1].key /\ j[1] \in sysHasSeq
                            THEN lost[j] + wire[1].before ELSE lost[j]
<1> DEFINE f == wire[1]
           s == f.key[1]
<1>1. /\ Head(wire) = f /\ 1 \in DOMAIN wire /\ f.key \in Keys
      /\ f.nr \in Nat /\ f.before \in 0..255
  BY Delivered
<1> HIDE DEF f
<1>2. PICK fr \in Frame : /\ KeyOf(fr) = f.key /\ fr.sys = s
                          /\ fr.seq = f.nr % SeqSpace
                          /\ \E d \in Nat : FrameEvent(fr, d)
  BY Delivered DEF f
<1>3. /\ now \in Nat /\ FrameInv /\ LinkTypes /\ MonitorInv /\ LastSeqKept
  BY DEF LinkInv, MonitorInv, IInv, FrameInv
<1>4. PICK d \in Nat : FrameEvent(fr, d)
  BY <1>2
<1> DEFINE t == now + d
<1>5. t \in Nat /\ now <= t /\ FrameEffect(fr, t)
  BY <1>3, <1>4, FrameEventStep
<1> HIDE DEF t
<1>6. /\ sysHasSeq' = sysHasSeq \cup {s}
      /\ sysLastSeq' = [sysLastSeq EXCEPT ![s] = f.nr % SeqSpace]
  BY <1>2, <1>5 DEF FrameEffect, RecordFrame
<1> HIDE DEF s
<1>7. /\ Found(fr, t).dropped = stats[f.key].dropped
      /\ \A j \in Keys : stats'[j] = IF j = f.key THEN AfterFrame(Found(fr, t), fr, t)
                                                  ELSE stats[j]
  BY <1>2, <1>3, <1>4, <1>5, FrameSource
<1>8. AfterFrame(Found(fr, t), fr, t).dropped
        = Found(fr, t).dropped + (IF s \in sysHasSeq THEN Gap(sysLastSeq[s], f.nr % SeqSpace)
                                                       ELSE 0)
  BY <1>2 DEF AfterFrame
<1>9. s \in sysHasSeq => Gap(sysLastSeq[s], f.nr % SeqSpace) = f.before
  <2> SUFFICES ASSUME s \in sysHasSeq PROVE Gap(sysLastSeq[s], f.nr % SeqSpace) = f.before
    OBVIOUS
  <2>1. s \in Systems
    BY <1>1 DEF Keys, s
  <2>2. 1 \in OnWire(s) /\ \A h \in OnWire(s) : 1 <= h
    BY <1>1, <1>3, WireParts DEF OnWire, s, f
  <2>3. (wire[1].nr - 1 - wire[1].before) % SeqSpace = sysLastSeq[s]
    BY <2>1, <2>2 DEF Chained
  <2> QED
    BY <1>1, <2>3, GapRecovers DEF f
<1>10. f.key[1] = s /\ stats[f.key].dropped \in Nat
  BY <1>1, <1>3 DEF s, FrameInv, FrameTypes, SourceMetrics
<1>11. \A j \in Keys : stats'[j].dropped = IF j = f.key /\ j[1] \in sysHasSeq
                                           THEN stats[j].dropped + f.before
                                           ELSE stats[j].dropped
  BY <1>7, <1>8, <1>9, <1>10
<1>12. (\E a \in Range(arrived) : CounterOf(KeyOf(a.frame)) = CounterOf(f.key))
         <=> s \in sysHasSeq
  <2>1. arrived \in Seq([frame : Frame, at : Nat])
    BY <1>3 DEF FrameInv, FrameTypes
  <2>2. \A a \in Range(arrived) : a.frame \in Frame
    <3>1. Range(arrived) \subseteq [frame : Frame, at : Nat]
      BY <2>1, RangeOfSeq
    <3> QED
      BY <3>1
  <2>3. \A e \in Frame : CounterOf(KeyOf(e)) = <<e.sys>>
    BY FrameParts, CounterFacts
  <2>4. CounterOf(f.key) = <<s>>
    BY <1>1, <1>10, CounterFacts
  <2>5. \A e \in Frame : CounterOf(KeyOf(e)) = CounterOf(f.key) <=> e.sys = s
    BY <2>3, <2>4
  <2>6. sysHasSeq = {a.frame.sys : a \in Range(arrived)}
    BY <1>3 DEF LastSeqKept, Range
  <2> QED
    BY <2>2, <2>5, <2>6
<1>13. lost' = IF s \in sysHasSeq THEN [lost EXCEPT ![f.key] = @ + f.before] ELSE lost
  BY <1>1, <1>12 DEF Deliver
<1>14. \A j \in Keys : lost'[j] = IF j = f.key /\ j[1] \in sysHasSeq
                                  THEN lost[j] + f.before ELSE lost[j]
  BY <1>1, <1>3, <1>10, <1>13 DEF LinkTypes
<1> QED
  BY <1>6, <1>11, <1>14 DEF f, s

LEMMA DeliverKeepsChained ==
  ASSUME ~PerComponent, LinkInv, Chained, Deliver
  PROVE  Chained'
<1> DEFINE s == wire[1].key[1]
<1>1. /\ wire # << >> /\ 1 \in DOMAIN wire /\ wire[1].key \in Keys /\ wire[1].nr \in Nat
  BY Delivered
<1>2. /\ nextNr' = nextNr /\ gone' = gone /\ wire' = Tail(wire)
  BY DEF Deliver
<1>3. /\ sysHasSeq' = sysHasSeq \cup {s}
      /\ sysLastSeq' = [sysLastSeq EXCEPT ![s] = wire[1].nr % SeqSpace]
  BY DeliveredEffect
<1> HIDE DEF s
<1>4. /\ Len(wire) \in Nat /\ DOMAIN wire = 1..Len(wire)
      /\ \A i \in DOMAIN wire : /\ i \in Nat /\ wire[i].key \in Keys
                                /\ wire[i].nr \in Nat /\ wire[i].before \in 0..255
  BY WireParts DEF LinkInv
<1>5. /\ DOMAIN wire' = 1..Len(wire) - 1
      /\ \A i \in DOMAIN wire' : /\ wire'[i] = wire[i + 1]
                                 /\ i \in Nat /\ i + 1 \in DOMAIN wire
  <2>1. wire \in Seq([key : Keys, nr : Nat, before : 0..255])
    BY DEF LinkInv, LinkTypes
  <2>2. /\ Len(Tail(wire)) = Len(wire) - 1
        /\ Tail(wire) \in Seq([key : Keys, nr : Nat, before : 0..255])
        /\ \A i \in 1..Len(Tail(wire)) : Tail(wire)[i] = wire[i + 1]
    BY <1>1, <2>1, HeadTailProperties
  <2>3. DOMAIN Tail(wire) = 1..Len(Tail(wire))
    BY <2>2, LenProperties
  <2> QED
    BY <1>2, <1>4, <2>2, <2>3
<1>6. \A r \in Systems :
        /\ \A i \in OnWire(r)' : /\ i + 1 \in OnWire(r) /\ wire'[i] = wire[i + 1]
                                 /\ i \in Nat
        /\ \A h \in OnWire(r) : h = 1 \/ h - 1 \in OnWire(r)'
        /\ \A h \in OnWire(r) : h \in Nat /\ h >= 1 /\ h \in DOMAIN wire
  <2> SUFFICES ASSUME NEW r \in Systems
               PROVE  /\ \A i \in OnWire(r)' : /\ i + 1 \in OnWire(r) /\ wire'[i] = wire[i + 1]
                                               /\ i \in Nat
                      /\ \A h \in OnWire(r) : h = 1 \/ h - 1 \in OnWire(r)'
                      /\ \A h \in OnWire(r) : h \in Nat /\ h >= 1 /\ h \in DOMAIN wire
    OBVIOUS
  <2>1. \A i \in OnWire(r)' : i + 1 \in OnWire(r) /\ wire'[i] = wire[i + 1] /\ i \in Nat
    BY <1>5 DEF OnWire
  <2>2. \A h \in OnWire(r) : h \in Nat /\ h >= 1 /\ h \in DOMAIN wire
    BY <1>4 DEF OnWire
  <2>3. ASSUME NEW h \in OnWire(r), h # 1
        PROVE  h - 1 \in OnWire(r)'
    <3>1. h \in 1..Len(wire) /\ wire[h].key[1] = r
      BY <1>4, <2>2 DEF OnWire
    <3>2. h - 1 \in DOMAIN wire' /\ (h - 1) + 1 = h
      BY <1>4, <1>5, <2>3, <3>1
    <3>3. wire'[h - 1] = wire[h]
      BY <1>5, <3>2
    <3> QED
      BY <3>1, <3>2, <3>3 DEF OnWire
  <2> QED
    BY <2>1, <2>2, <2>3
<1> SUFFICES ASSUME NEW r \in Systems
             PROVE  /\ \A i, j \in OnWire(r)' : Neighbours(OnWire(r)', i, j) =>
                         wire'[j].nr = wire'[i].nr + 1 + wire'[j].before
                    /\ \A i \in OnWire(r)' : (\A h \in OnWire(r)' : i <= h) /\ r \in sysHasSeq' =>
                         (wire'[i].nr - 1 - wire'[i].before) % SeqSpace = sysLastSeq'[r]
                    /\ \A i \in OnWire(r)' : (\A h \in OnWire(r)' : h <= i) =>
                         nextNr'[<<r>>] = wire'[i].nr + 1 + gone'[<<r>>]
                    /\ OnWire(r)' = {} /\ r \in sysHasSeq' =>
                         (nextNr'[<<r>>] - 1 - gone'[<<r>>]) % SeqSpace = sysLastSeq'[r]
  BY DEF Chained, Neighbours
<1> DEFINE W == OnWire(r)
           V == OnWire(r)'
<1>7. /\ \A i \in V : i + 1 \in W /\ wire'[i] = wire[i + 1] /\ i \in Nat
      /\ \A h \in W : h = 1 \/ h - 1 \in V
      /\ \A h \in W : h \in Nat /\ h >= 1 /\ wire[h].nr \in Nat /\ wire[h].before \in 0..255
  BY <1>4, <1>6
<1>8. /\ \A i, j \in W : Neighbours(W, i, j) => wire[j].nr = wire[i].nr + 1 + wire[j].before
      /\ \A i \in W : (\A h \in W : i <= h) /\ r \in sysHasSeq =>
           (wire[i].nr - 1 - wire[i].before) % SeqSpace = sysLastSeq[r]
      /\ \A i \in W : (\A h \in W : h <= i) => nextNr[<<r>>] = wire[i].nr + 1 + gone[<<r>>]
      /\ W = {} /\ r \in sysHasSeq =>
           (nextNr[<<r>>] - 1 - gone[<<r>>]) % SeqSpace = sysLastSeq[r]
  BY DEF Chained
<1>9. 1 \in W <=> r = s
  BY <1>1 DEF OnWire, s
<1>10. /\ r = s => sysLastSeq'[r] = wire[1].nr % SeqSpace
       /\ r # s => sysLastSeq'[r] = sysLastSeq[r] /\ (r \in sysHasSeq' <=> r \in sysHasSeq)
  <2>1. sysLastSeq \in [Systems -> SeqNumbers]
    BY DEF LinkInv, MonitorInv, IInv, FrameInv, FrameTypes
  <2> QED
    BY <1>3, <2>1
<1>11. <<r>> \in Counters
  <2>1. wire[1].key[2] \in Components
    BY <1>1 DEF Keys
  <2>2. <<r, wire[1].key[2]>> \in Keys /\ <<r, wire[1].key[2]>>[1] = r
    BY <2>1 DEF Keys
  <2> QED
    BY <2>2, CounterFacts
<1>12. nextNr[<<r>>] \in Nat /\ gone[<<r>>] \in 0..255
  BY <1>11 DEF LinkInv, LinkTypes
<1> HIDE DEF W, V
<1>13. ASSUME NEW i \in V, NEW j \in V, Neighbours(V, i, j)
       PROVE  wire'[j].nr = wire'[i].nr + 1 + wire'[j].before
  <2>1. Neighbours(W, i + 1, j + 1)
    <3>0. i + 1 < j + 1
      BY <1>7, <1>13 DEF Neighbours
    <3> SUFFICES ASSUME NEW h \in W PROVE h <= i + 1 \/ j + 1 <= h
      BY <3>0 DEF Neighbours
    <3>1. i \in Nat /\ j \in Nat /\ i < j /\ h \in Nat
      BY <1>7, <1>13 DEF Neighbours
    <3>2. CASE h = 1
      BY <3>1, <3>2
    <3>3. CASE h - 1 \in V
      <4>1. h - 1 <= i \/ j <= h - 1
        BY <1>13, <3>3 DEF Neighbours
      <4> QED
        BY <3>1, <4>1
    <3> QED
      BY <1>7, <3>2, <3>3
  <2> QED
    BY <1>7, <1>8, <2>1
<1>14. ASSUME NEW i \in V, \A h \in V : i <= h, r \in sysHasSeq'
       PROVE  (wire'[i].nr - 1 - wire'[i].before) % SeqSpace = sysLastSeq'[r]
  <2>1. i \in Nat /\ i + 1 \in W /\ wire'[i] = wire[i + 1] /\ i >= 1
    BY <1>5, <1>7 DEF V, OnWire
  <2>2. \A h \in W : h = 1 \/ i + 1 <= h
    <3> SUFFICES ASSUME NEW h \in W, h # 1 PROVE i + 1 <= h
      OBVIOUS
    <3>1. h \in Nat /\ i <= h - 1
      BY <1>7, <1>14
    <3> QED
      BY <2>1, <3>1
  <2>3. CASE r = s
    <3>1. 1 \in W /\ Neighbours(W, 1, i + 1)
      BY <1>9, <2>1, <2>2, <2>3 DEF Neighbours
    <3>2. wire[i + 1].nr = wire[1].nr + 1 + wire[i + 1].before
      <4> DEFINE q == i + 1
      <4>1. q \in W /\ Neighbours(W, 1, q)
        BY <2>1, <3>1
      <4> HIDE DEF q
      <4>2. wire[q].nr = wire[1].nr + 1 + wire[q].before
        BY <1>8, <3>1, <4>1
      <4> QED
        BY <4>2 DEF q
    <3>3. wire[i + 1].nr - 1 - wire[i + 1].before = wire[1].nr
      <4> DEFINE a == wire[i + 1].nr
                 b == wire[i + 1].before
                 e == wire[1].nr
      <4>1. a \in Int /\ b \in Int /\ e \in Int
        <5>1. wire[i + 1].nr \in Nat /\ wire[i + 1].before \in 0..255
          BY <1>7, <2>1
        <5>2. wire[1].nr \in Nat
          BY <1>1
        <5> QED
          BY <5>1, <5>2
      <4>2. a = e + 1 + b
        BY <3>2
      <4> HIDE DEF a, b, e
      <4>3. a - 1 - b = e
        BY <4>1, <4>2
      <4> QED
        BY <4>3 DEF a, b, e
    <3> QED
      BY <1>10, <2>1, <2>3, <3>3
  <2>4. CASE r # s
    <3>1. \A h \in W : i + 1 <= h
      BY <1>9, <2>2, <2>4
    <3> QED
      BY <1>8, <1>10, <1>14, <2>1, <2>4, <3>1
  <2> QED
    BY <2>3, <2>4
<1>15. ASSUME NEW i \in V, \A h \in V : h <= i
       PROVE  nextNr'[<<r>>] = wire'[i].nr + 1 + gone'[<<r>>]
  <2>1. \A h \in W : h <= i + 1
    <3> SUFFICES ASSUME NEW h \in W PROVE h <= i + 1
      OBVIOUS
    <3>1. h \in Nat /\ i \in Nat /\ (h = 1 \/ h - 1 <= i)
      BY <1>7, <1>15
    <3> QED
      BY <3>1
  <2> QED
    BY <1>2, <1>7, <1>8, <2>1
<1>16. ASSUME V = {}, r \in sysHasSeq'
       PROVE  (nextNr'[<<r>>] - 1 - gone'[<<r>>]) % SeqSpace = sysLastSeq'[r]
  <2>1. \A h \in W : h = 1
    BY <1>7, <1>16
  <2>2. CASE r = s
    <3>1. nextNr[<<r>>] = wire[1].nr + 1 + gone[<<r>>]
      <4>1. 1 \in W /\ \A h \in W : h <= 1
        BY <1>9, <2>1, <2>2
      <4> QED
        BY <1>8, <4>1
    <3>2. nextNr[<<r>>] - 1 - gone[<<r>>] = wire[1].nr
      <4> DEFINE a == nextNr[<<r>>]
                 b == gone[<<r>>]
                 e == wire[1].nr
      <4>1. a \in Int /\ b \in Int /\ e \in Int
        <5>1. wire[1].nr \in Nat
          BY <1>1
        <5> QED
          BY <1>12, <5>1
      <4>2. a = e + 1 + b
        BY <3>1
      <4> HIDE DEF a, b, e
      <4>3. a - 1 - b = e
        BY <4>1, <4>2
      <4> QED
        BY <4>3 DEF a, b, e
    <3> QED
      BY <1>2, <1>10, <2>2, <3>2
  <2>3. CASE r # s
    <3>1. W = {}
      BY <1>9, <2>1, <2>3
    <3> QED
      BY <1>2, <1>8, <1>10, <1>16, <2>3, <3>1
  <2> QED
    BY <2>2, <2>3
<1> QED
  BY <1>13, <1>14, <1>15, <1>16 DEF V

LEMMA SharedStep ==
  ASSUME ~PerComponent, SharedInv, [LinkNext]_<<monitorVars, linkVars>>
  PROVE  SharedInv'
<1>1. LinkInv /\ LinkTypes /\ Chained /\ DropsExact
  BY DEF SharedInv, LinkInv
<1>2. LinkInv'
  BY <1>1, LinkStep
<1>3. ASSUME NEW k \in Keys, PutOnWire(k)
      PROVE  Chained' /\ DropsExact'
  <2>1. stats' = stats /\ lost' = lost
    BY <1>3 DEF PutOnWire, monitorVars, vars, sourceVars
  <2> QED
    BY <1>1, <1>3, <2>1, PutKeepsChained DEF DropsExact
<1>4. ASSUME NEW c \in Counters, NEW n \in Bursts, LoseBurst(c, n)
      PROVE  Chained' /\ DropsExact'
  <2>1. stats' = stats /\ lost' = lost
    BY <1>4 DEF LoseBurst, monitorVars, vars, sourceVars
  <2> QED
    BY <1>1, <1>4, <2>1, LoseKeepsChained DEF DropsExact
<1>5. ASSUME Deliver
      PROVE  Chained' /\ DropsExact'
  <2>1. \A j \in Keys :
          /\ stats'[j].dropped = IF j = wire[1].key /\ j[1] \in sysHasSeq
                                 THEN stats[j].dropped + wire[1].before ELSE stats[j].dropped
          /\ lost'[j] = IF j = wire[1].key /\ j[1] \in sysHasSeq
                        THEN lost[j] + wire[1].before ELSE lost[j]
    BY <1>1, <1>5, DeliveredEffect
  <2>2. DropsExact'
    BY <1>1, <2>1 DEF DropsExact
  <2> QED
    BY <1>1, <1>5, <2>2, DeliverKeepsChained
<1>6. ASSUME UNCHANGED <<monitorVars, linkVars>>
      PROVE  Chained' /\ DropsExact'
  <2>1. /\ stats' = stats /\ lost' = lost /\ wire' = wire /\ nextNr' = nextNr /\ gone' = gone
        /\ sysHasSeq' = sysHasSeq /\ sysLastSeq' = sysLastSeq
    BY <1>6 DEF monitorVars, linkVars, vars, sourceVars, frameVars
  <2> QED
    BY <1>1, <2>1 DEF Chained, DropsExact, OnWire, Neighbours
<1>7. ASSUME Noise
      PROVE  Chained' /\ DropsExact'
  <2>1. /\ stats' = stats /\ lost' = lost /\ wire' = wire /\ nextNr' = nextNr /\ gone' = gone
        /\ sysHasSeq' = sysHasSeq /\ sysLastSeq' = sysLastSeq
    BY <1>7 DEF Noise, ParseErrorEvent, ParseErrorCall, RecordParseError, linkVars,
                sourceVars, frameVars
  <2> QED
    BY <1>1, <2>1 DEF Chained, DropsExact, OnWire, Neighbours
<1> QED
  BY <1>2, <1>3, <1>4, <1>5, <1>6, <1>7 DEF LinkNext, SharedInv

(* When the sources of a system share one counter, every frame the link lost is   *)
(* charged exactly once, to the source whose frame revealed it: over any number    *)
(* of frames and wraps, and any runs of losses that 8 bits can tell.               *)
THEOREM DropsAreExact ==
  ASSUME ~PerComponent
  PROVE  LinkSpec => []DropsExact
<1>1. LinkInit => Chained /\ DropsExact
  <2> SUFFICES ASSUME LinkInit PROVE Chained /\ DropsExact
    OBVIOUS
  <2>1. wire = << >> /\ sysHasSeq = {} /\ \A k \in Keys : stats[k].dropped = 0
    BY NewSourceOK DEF LinkInit, MonitorInit, Init
  <2>2. \A k \in Keys : lost[k] = 0
    BY DEF LinkInit
  <2> QED
    BY <2>1, <2>2 DEF Chained, OnWire, DropsExact
<1>2. LinkInit => SharedInv
  BY <1>1, LinkInitInv DEF SharedInv
<1>3. SharedInv /\ [LinkNext]_<<monitorVars, linkVars>> => SharedInv'
  BY SharedStep
<1>4. SharedInv => DropsExact
  BY DEF SharedInv
<1> QED
  BY <1>2, <1>3, <1>4, PTL DEF LinkSpec
==============================================================================
