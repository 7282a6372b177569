---------------------------- MODULE MCHttpServer -----------------------------
(* The instance TLC checks: one socket that may be purged and reused, so that *)
(* every reuse of a descriptor happens, and a loop that fills.               *)
EXTENDS HttpServer
=============================================================================
