-------------------------- MODULE MCChunkPublisher ---------------------------
(* A dimension from below zero to above it, and a flat world across zero. *)
EXTENDS ChunkPublisher

Bottom == -2
Base == -1
Flat == <<1, 2>>
SpawnColumn == -1
=============================================================================
