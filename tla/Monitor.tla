------------------------------- MODULE Monitor -------------------------------
(***************************************************************************)
(* The live telemetry monitor: the event loop of runMavlinkTest in          *)
(* cmd/mavlink-doctor/main.go, which feeds every event of the MAVLink node  *)
(* to the tracker and the gimbal detector.  One goroutine runs it, so one   *)
(* event is one step.  What arrives is the node's business: any frame, at   *)
(* any time.  When the loop ends, Doctor says.                              *)
(***************************************************************************)
EXTENDS Tracker, GimbalEvidence

monitorVars == <<vars, evidence>>

MonitorInit ==
  /\ Init
  /\ EvidenceInit

MonitorTypeOK ==
  /\ TypeOK
  /\ evidence \in [observed : BOOLEAN, kind : NamingMessages \cup {NoKind},
                   source : Keys \cup {NoSource}, seen : Seq(MessageTypes)]

------------------------------------------------------------------------------
(* Mutant: every frame is recorded as a heartbeat. *)
FrameEventBeatsAlways(fr, d) ==
  /\ Len(arrived) < MaxCalls
  /\ now' = now + d
  /\ RecordFrame(fr, now')
  /\ arrived' = Append(arrived, [frame |-> fr, at |-> now'])
  /\ CheckGimbalMessage(fr.msg, KeyOf(fr))
  /\ UpdateHeartbeat(KeyOf(fr), now')
  /\ beats' = Append(beats, [key |-> KeyOf(fr), at |-> now'])
  /\ UNCHANGED totalParseErrors

(* EventFrame: the frame is recorded, searched for a gimbal and, when it is a  *)
(* heartbeat, recorded as one.                                                 *)
FrameEvent(fr, d) ==
  /\ Len(arrived) < MaxCalls
  /\ now' = now + d
  /\ RecordFrame(fr, now')
  /\ arrived' = Append(arrived, [frame |-> fr, at |-> now'])
  /\ CheckGimbalMessage(fr.msg, KeyOf(fr))
  /\ IF fr.msg.type = "HEARTBEAT"
     THEN /\ UpdateHeartbeat(KeyOf(fr), now')
          /\ beats' = Append(beats, [key |-> KeyOf(fr), at |-> now'])
     ELSE UNCHANGED <<heartbeat, beats>>
  /\ UNCHANGED totalParseErrors

(* EventParseError. *)
ParseErrorEvent ==
  /\ ParseErrorCall
  /\ UNCHANGED evidence

MonitorNext ==
  \/ \E fr \in Incoming, d \in FrameDelays : FrameEvent(fr, d)
  \/ ParseErrorEvent

MonitorSpec == MonitorInit /\ [][MonitorNext]_monitorVars
------------------------------------------------------------------------------
(* Properties. *)

(* The frames of k. *)
ArrivalsOf(k) == {i \in DOMAIN arrived : KeyOf(arrived[i].frame) = k}
Between(i, j) == arrived[j].at - arrived[i].at

(* The jitter of a source is above zero exactly when the interval between its  *)
(* frames has changed after one that was not zero: other sources of the same    *)
(* system, whose frames arrive in between, do not make it so, nor does the      *)
(* frame that creates the source.  How large it is, is not modelled.            *)
JitterIffChanged ==
  \A k \in Keys :
    stats[k].jitter <=>
      \E h, i, j \in ArrivalsOf(k) :
        /\ Neighbours(ArrivalsOf(k), h, i) /\ Neighbours(ArrivalsOf(k), i, j)
        /\ Between(h, i) > 0 /\ Between(i, j) # Between(h, i)

(* A heartbeat is counted as a frame, as a message and as a heartbeat of its   *)
(* source, and nothing else is counted as a heartbeat.                          *)
HeartbeatsCounted ==
  /\ "HEARTBEAT" \in MessageTypes
       => messageCounts["HEARTBEAT"] = SumFunction([k \in Keys |-> heartbeat[k].count])
  /\ \A k \in Keys : heartbeat[k].count <= stats[k].frames

(* The frames that indicate a gimbal, and those of them that name its kind. *)
Telling == {i \in DOMAIN arrived : Indicates(arrived[i].frame.msg, arrived[i].frame.comp)}
Naming  == {i \in Telling : arrived[i].frame.msg.type \in NamingMessages}
TypesTold == {arrived[i].frame.msg.type : i \in Telling}

(* The messages that confirm a gimbal by README.md:153. *)
Confirming ==
  {i \in DOMAIN arrived :
     LET m == arrived[i].frame.msg
     IN  \/ m.type \in {"GIMBAL_DEVICE_ATTITUDE_STATUS", "MOUNT_ORIENTATION"}
         \/ m.type = "HEARTBEAT" /\ m.gimbal}

(* The evidence says no less and no more than what arrived.  The messages that  *)
(* README.md:153 names confirm a gimbal and are listed, whatever comes before,   *)
(* between or after them; without any frame of those docs/ARCHITECTURE.md:53-60  *)
(* counts nothing is confirmed; what is listed arrived, each once, in the order  *)
(* of first sight; source and kind are those of frames that arrived.  The two    *)
(* documents differ on what else confirms, and nothing is asked of it.           *)
EvidenceFaithful ==
  /\ Confirming # {} => evidence.observed
  /\ \A i \in Confirming : arrived[i].frame.msg.type \in Range(evidence.seen)
  /\ evidence.observed => /\ Telling # {}
                          /\ evidence.source \in {KeyOf(arrived[i].frame) : i \in Telling}
  /\ evidence.kind # NoKind =>
       evidence.kind \in {arrived[i].frame.msg.type : i \in Naming}
  /\ Range(evidence.seen) \subseteq TypesTold
  /\ \A a, b \in DOMAIN evidence.seen : a < b =>
       \E i \in Telling :
         /\ arrived[i].frame.msg.type = evidence.seen[a]
         /\ \A j \in Telling : arrived[j].frame.msg.type = evidence.seen[b] => i < j
==============================================================================
