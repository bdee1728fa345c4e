---------------------------- MODULE LocalDbWindow ----------------------------
(***************************************************************************)
(* The blocks that one cycle of the local DB's sync engine covers          *)
(* (crates/common/src/local_db/pipeline/adapters/window.rs).  A watermark  *)
(* of 0 stands for a target without one.  Block numbers are naturals: the  *)
(* additions that are checked or saturate in the code stay below 2^64 for  *)
(* every block number of a chain.                                          *)
(***************************************************************************)
EXTENDS Integers

CONSTANTS
    Deployment,  \* SyncConfig.deployment_block
    Depth,       \* FinalityConfig.depth
    MaxBlocks,   \* SyncConfig.max_blocks_per_cycle, 0 when there is no cap
    StartBlock,  \* WindowOverrides.start_block, or NoBlock
    EndBlock     \* WindowOverrides.end_block, or NoBlock

NoBlock == -1

ASSUME WindowAssumption ==
    /\ Deployment \in Nat \ {0}
    /\ Depth \in Nat
    /\ MaxBlocks \in Nat
    /\ StartBlock \in Nat \cup {NoBlock}
    /\ EndBlock \in Nat \cup {NoBlock}

Least(a, b) == IF a <= b THEN a ELSE b

Most(a, b) == IF a >= b THEN a ELSE b

\* Mutant: the finality depth is forgotten.
safe_head_unsafe(latest) == Most(latest, Deployment)

safe_head(latest) == Most(Most(latest - Depth, 0), Deployment)

requested_end_block(latest) ==
    IF EndBlock = NoBlock THEN safe_head(latest) ELSE Least(EndBlock, safe_head(latest))

\* Mutant: the block of the watermark is read again.
base_start_again(mark) == IF mark = 0 THEN Deployment ELSE mark

\* Mutant: a block is skipped after the watermark.
base_start_skips(mark) == IF mark = 0 THEN Deployment ELSE mark + 2

base_start(mark) == IF mark = 0 THEN Deployment ELSE mark + 1

window_start(mark) ==
    IF StartBlock = NoBlock THEN base_start(mark)
    ELSE Most(StartBlock, base_start(mark))

window_target(start, latest) ==
    LET end == requested_end_block(latest)
    IN  IF MaxBlocks > 0 /\ end >= start THEN Least(end, start + MaxBlocks - 1) ELSE end
=============================================================================
