--------------------------- MODULE GimbalEvidence ---------------------------
(***************************************************************************)
(* Gimbal detection of internal/decoder/gimbal.go: the evidence collected   *)
(* over a test and what CheckGimbalMessage does to it.  The details text    *)
(* and the attitude angles, which no code sets, are left out.               *)
(***************************************************************************)
EXTENDS Integers, Sequences, SequencesExt

VARIABLE evidence

NoKind == "none"
NoSource == <<0, 0>>

(* Component ids of a gimbal. *)
GimbalComponents == {154, 155}

(* Messages only a gimbal or its manager sends. *)
GimbalMessages ==
  {"GIMBAL_DEVICE_ATTITUDE_STATUS", "GIMBAL_DEVICE_INFORMATION",
   "GIMBAL_MANAGER_STATUS", "GIMBAL_MANAGER_INFORMATION", "MOUNT_ORIENTATION"}

(* Messages that set GimbalType; the others leave it as it was. *)
NamingMessages ==
  {"HEARTBEAT", "GIMBAL_DEVICE_ATTITUDE_STATUS", "GIMBAL_DEVICE_INFORMATION",
   "MOUNT_ORIENTATION"}

EvidenceInit ==
  evidence = [observed |-> FALSE, kind |-> NoKind, source |-> NoSource,
              seen |-> << >>]

(* Whether message m of component c is found to indicate a gimbal. *)
Indicates(m, c) ==
  \/ m.type \in GimbalMessages
  \/ m.type = "HEARTBEAT" /\ m.gimbal
  \/ c \in GimbalComponents

(* Mutant: a message seen before is listed again. *)
AppendAlways(seq, x) == Append(seq, x)

AppendUnique(seq, x) == IF Contains(seq, x) THEN seq ELSE Append(seq, x)

(* Mutant: whatever message a gimbal sends names it. *)
CheckNamesAny(m, k) ==
  evidence' =
    IF Indicates(m, k[2])
    THEN [observed |-> TRUE, kind |-> m.type, source |-> k,
          seen     |-> AppendUnique(evidence.seen, m.type)]
    ELSE evidence

CheckGimbalMessage(m, k) ==
  evidence' =
    IF Indicates(m, k[2])
    THEN [observed |-> TRUE,
          kind     |-> IF m.type \in NamingMessages THEN m.type ELSE evidence.kind,
          source   |-> k,
          seen     |-> AppendUnique(evidence.seen, m.type)]
    ELSE evidence
==============================================================================
