---------------------------- MODULE MCMqttIface -----------------------------
(* Instances of MqttIface for TLC. *)
EXTENDS MqttIface
=============================================================================
