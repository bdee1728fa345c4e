-------------------------- MODULE MCLocalDbScheduler -------------------------
EXTENDS LocalDbScheduler

CONSTANTS t1, t2, n1, n2, a, b, c

\* Two raindexes on one network and one on another.
MCNetworkOf == [x \in Targets |-> IF x = c THEN n2 ELSE n1]

\* The first visit, or one whose settings have gained a raindex and a network.
MCWarm == {{}, {a}}
=============================================================================
