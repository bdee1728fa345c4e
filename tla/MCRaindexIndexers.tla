-------------------------- MODULE MCRaindexIndexers --------------------------
EXTENDS RaindexIndexers

CONSTANTS alice, bob, x, y

\* Alice sells x for y out of a vault and is paid into her wallet, Bob the other way round.
MCOrders ==
    {[owner |-> alice, nonce |-> 1, input |-> [token |-> y, vault |-> 0], output |-> [token |-> x, vault |-> 1]],
     [owner |-> bob, nonce |-> 1, input |-> [token |-> x, vault |-> 1], output |-> [token |-> y, vault |-> 1]]}

MCBounties == {<<1, 0>>}

MCTakes == {<<2, 3>>}

\* A clear that pays both bounties, and one that pays none.
MCClearStates ==
    {[aliceOutput |-> 2, aliceInput |-> 1, bobOutput |-> 2, bobInput |-> 1],
     [aliceOutput |-> 1, aliceInput |-> 1, bobOutput |-> 1, bobInput |-> 1]}
=============================================================================
