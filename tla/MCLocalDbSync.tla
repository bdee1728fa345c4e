---------------------------- MODULE MCLocalDbSync ----------------------------
(***************************************************************************)
(* Two clients that share a database, over a chain of up to five blocks.   *)
(***************************************************************************)
EXTENDS LocalDbSync

CONSTANTS tab1, tab2

MCClients == {tab1, tab2}
MCNobody == {}
MCDumpEnds == {3, 4}
MCNoDumps == {}
MCNoBlock == NoBlock
=============================================================================
