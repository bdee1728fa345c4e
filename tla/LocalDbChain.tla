---------------------------- MODULE LocalDbChain ----------------------------
(***************************************************************************)
(* The chain as the local DB's sync engine sees it through its RPC nodes   *)
(* (latest_block, fetch_raindex, fetch_stores, block_hash of               *)
(* crates/common/src/local_db/pipeline/adapters/events.rs): it grows and   *)
(* reorganises, but no block that has ever had ReorgDepth blocks on top of *)
(* it is replaced.                                                         *)
(***************************************************************************)
EXTENDS Integers, Sequences, LocalDbWindow

CONSTANTS
    InitHeight,  \* the height at which the behaviour starts
    MaxHeight,   \* bound on the height
    ReorgDepth,  \* how many blocks at the head may be replaced
    MaxReorgs    \* bound on the number of reorganisations

VARIABLES
    chain,   \* what each block holds for the raindex
    peak,    \* the greatest height so far
    reorgs   \* the number of reorganisations so far

chainVars == <<chain, peak, reorgs>>

\* A block holds an order, which names its interpreter store; a Set event of that
\* store; or nothing that the engine reads.
Kinds == {"order", "set", "none"}

ASSUME ChainAssumption ==
    /\ InitHeight \in Nat /\ InitHeight >= Deployment + Depth
    /\ MaxHeight \in Nat /\ InitHeight <= MaxHeight
    /\ ReorgDepth \in Nat
    /\ MaxReorgs \in Nat

\* A block's hash commits to all blocks below it.
Hash(n) == SubSeq(chain, 1, n)

Log(n) == [block |-> n, hash |-> Hash(n)]

LogsOf(kind, from, to) == {Log(n) : n \in {m \in DOMAIN chain : from <= m /\ m <= to /\ chain[m] = kind}}

ChainInit ==
    /\ chain \in {s \in [1 .. InitHeight -> Kinds] : \A n \in 1 .. Deployment - 1 : s[n] = "none"}
    /\ peak = InitHeight
    /\ reorgs = 0

Grow ==
    /\ Len(chain) < MaxHeight
    /\ \E k \in Kinds : chain' = Append(chain, k)
    /\ peak' = IF Len(chain) + 1 > peak THEN Len(chain) + 1 ELSE peak
    /\ UNCHANGED reorgs

Reorg ==
    /\ reorgs < MaxReorgs
    /\ \E m \in Deployment .. Len(chain) - 1, k \in Kinds :
          /\ m >= peak - ReorgDepth
          /\ k # chain[m + 1]
          /\ chain' = Append(SubSeq(chain, 1, m), k)
    /\ reorgs' = reorgs + 1
    /\ UNCHANGED peak

ChainNext == Grow \/ Reorg
=============================================================================
