---------------------------- MODULE MCLoginFlow -----------------------------
(* Instances of LoginFlow for TLC. *)
EXTENDS LoginFlow, TLC

CONSTANTS p, q, a, b

\* One pack whose last chunk is full, one whose last chunk is not.
Sizes == (p :> 4) @@ (q :> 3)
=============================================================================
