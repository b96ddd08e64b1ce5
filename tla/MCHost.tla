------------------------------- MODULE MCHost -------------------------------
(* Host on a small instance: two tools of an operator, one browser, two      *)
(* tokens, twenty minutes to live, with and without a password.              *)
EXTENDS Host
=============================================================================
