--------------------------- MODULE MCLogRotation ---------------------------
(* LogRotation on a small instance. *)
EXTENDS LogRotation
============================================================================
