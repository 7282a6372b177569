----------------------------- MODULE MCNetWifi ------------------------------
(* Instances of NetWifi for TLC. *)
EXTENDS NetWifi
=============================================================================
