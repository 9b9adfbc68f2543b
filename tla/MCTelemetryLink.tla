--------------------------- MODULE MCTelemetryLink ---------------------------
(* The telemetry link and the monitor at its end on small instances, for TLC. *)
EXTENDS TelemetryLink

(* A gimbal's heartbeat, an autopilot's, which indicates a gimbal only by its    *)
(* component, and a gimbal message that does not name the gimbal's kind.         *)
Message(t) == [type |-> t, gimbal |-> FALSE]
Traffic    == {[type |-> "HEARTBEAT", gimbal |-> TRUE], Message("HEARTBEAT"),
               Message("GIMBAL_MANAGER_STATUS")}
OneMessage == {Message("ATTITUDE")}

NoSeqs     == {}
NoDelay    == {0}
SomeDelays == {0, 1}

(* Counters that are about to wrap. *)
NearWrap   == {254}

(* The longest run of lost frames that can be seen. *)
OneBurst   == {255}
NoBursts   == {}
JustZero   == {0}
==============================================================================
