------------------------------ MODULE MCDtrOps ------------------------------
(* Instances of DtrOps for TLC. *)
EXTENDS DtrOps
=============================================================================
