---------------------------- MODULE MCPlayerSync -----------------------------
(* Instances of PlayerSync for TLC. *)
EXTENDS PlayerSync, TLC

Symmetry == Permutations(Clients)

\* All but motd, which every session writes and no step reads: states that
\* differ in it only have the same successors.
AllButMotd == <<players, nextID, state, rid, conn, pc, todo, peers, count, list, actors, saved>>
=============================================================================
