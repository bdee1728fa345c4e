---------------------------- MODULE LocalDbReplica ---------------------------
(***************************************************************************)
(* What the local DB promises its readers: at every moment it holds        *)
(* exactly the raindex's logs of the chain up to its watermark, which only *)
(* moves forward over blocks that are final, unless the data of the        *)
(* raindex is dropped as a whole.                                          *)
(***************************************************************************)
EXTENDS LocalDbChain

VARIABLES mark, rows

replicaVars == <<chain, peak, reorgs, mark, rows>>

Init == ChainInit /\ mark = 0 /\ rows = {}

Advance ==
    /\ \E n \in Deployment .. (peak - Depth) :
          /\ n > mark
          /\ mark' = n
          /\ rows' = LogsOf("order", Deployment, n)
    /\ UNCHANGED chainVars

Drop == mark' = 0 /\ rows' = {} /\ UNCHANGED chainVars

Next ==
    \/ ChainNext /\ UNCHANGED <<mark, rows>>
    \/ Advance
    \/ Drop

Spec == Init /\ [][Next]_replicaVars
=============================================================================
