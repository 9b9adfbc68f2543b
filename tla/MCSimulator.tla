----------------------------- MODULE MCSimulator -----------------------------
(* The simulator on small instances, for TLC. *)
EXTENDS Simulator

AllOptions == [chunked : BOOLEAN, gimbal : BOOLEAN]

(* A frame of one full and one short chunk, one below a chunk, and another. *)
Sizes == [m \in {"HEARTBEAT", "ATTITUDE", "GIMBAL_DEVICE_ATTITUDE_STATUS"} |->
            IF m = "HEARTBEAT" THEN 3 ELSE 1]
Chunked == {[chunked |-> TRUE, gimbal |-> FALSE]}
==============================================================================
