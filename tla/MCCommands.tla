----------------------------- MODULE MCCommands ------------------------------
(* Two accounts, whose names are their own; the sessions are of one or both. *)
EXTENDS Commands, TLC

CONSTANTS p1, p2, alice, bob

AllNames == alice :> alice @@ bob :> bob
AllLogins == {p1 :> alice @@ p2 :> alice, p1 :> alice @@ p2 :> bob}
=============================================================================
