-------------------------- MODULE MCRuntimeConfig --------------------------
(* RuntimeConfig on a small instance: webhooks and requests are             *)
(* interchangeable.                                                         *)
EXTENDS RuntimeConfig, TLC

Symmetry == Permutations(Keys) \cup Permutations(Handlers)
============================================================================
