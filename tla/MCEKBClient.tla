---------------------------- MODULE MCEKBClient ----------------------------
(* EKBClient on a small instance: two hierarchies of fee types in which the  *)
(* same fee has another parent, and whose chains differ.                     *)
EXTENDS EKBClient, TLC

CONSTANTS f, g, h, root, NoParent

Hierarchies == {f :> g @@ g :> Nothing, f :> h @@ g :> h @@ h :> Nothing}
ParentsOfIds == {root, NoParent}
=============================================================================
