----------------------------- MODULE Selection -----------------------------
(***************************************************************************)
(* The loop that goes over a slice and appends some of its items to        *)
(* another one.                                                            *)
(***************************************************************************)
EXTENDS Integers, Sequences

\* The items of s that are in T, in the order of s.
Picked(s, T) ==
    LET upTo[n \in 0 .. Len(s)] ==
            IF n = 0 THEN <<>>
            ELSE IF s[n] \in T THEN Append(upTo[n - 1], s[n])
            ELSE upTo[n - 1]
    IN  upTo[Len(s)]
=============================================================================
