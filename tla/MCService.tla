----------------------------- MODULE MCService -----------------------------
(* The service on a small instance. *)
EXTENDS Service
============================================================================
