---------------------------- MODULE MCSettings ------------------------------
(* Instances of Settings for TLC. *)
EXTENDS Settings
=============================================================================
