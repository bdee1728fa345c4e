-------------------------- MODULE MCLocalDbProducer --------------------------
(* Two raindexes, a chain of four blocks and RPCs up to two blocks behind.  *)
EXTENDS LocalDbProducer

MCNoBlock == NoBlock
=============================================================================
