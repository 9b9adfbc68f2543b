-------------------------- MODULE MCUdpStreamServer --------------------------
(* The UDP stream server on small instances, for TLC.  The senders are model   *)
(* values of the configurations; nothing else needs a definition.              *)
EXTENDS UdpStreamServer
==============================================================================
