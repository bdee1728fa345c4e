--------------------------- MODULE MCRaindexClear ---------------------------
(***************************************************************************)
(* clear4 of two orders that trade dai against eth, from a vault or from   *)
(* its owner's wallet into the other, with the bounty into a vault or into *)
(* the wallet of the clearer, who may be an owner of one of the orders.    *)
(***************************************************************************)
EXTENDS Raindex

CONSTANTS alice, bob, dai, eth

IO(t, v) == [token |-> t, vault |-> v]

MCAccounts == {alice, bob}
MCTokens == {dai, eth}
MCVaultIds == {0, 1}
MCUnit == [t \in MCTokens |-> 2]

AliceOrder == [owner |-> alice, inputs |-> {IO(eth, 0), IO(eth, 1)}, outputs |-> {IO(dai, 1)},
               sources |-> 2, nonce |-> 0]
BobOrder == [owner |-> bob, inputs |-> {IO(dai, 0)}, outputs |-> {IO(eth, 0), IO(dai, 1)},
             sources |-> 2, nonce |-> 0]
\* Bob's other order would cross his first one if clear4 let it.
BobBuysB == [owner |-> bob, inputs |-> {IO(eth, 1)}, outputs |-> {IO(dai, 1)},
             sources |-> 2, nonce |-> 0]
NoHandleIO == [owner |-> alice, inputs |-> {IO(eth, 0)}, outputs |-> {IO(dai, 1)},
               sources |-> 1, nonce |-> 0]
MCOrders == {AliceOrder, BobOrder, BobBuysB, NoHandleIO}

Quote(ok, max, num, den) == [ok |-> ok, max |-> max, ratio |-> [num |-> num, den |-> den]]

MCEvaluations ==
    [o \in MCOrders |->
        IF o = BobOrder THEN {Quote(TRUE, 2, 1, 1), Quote(TRUE, 4, 3, 2)}
        ELSE {Quote(TRUE, 3, 1, 2), Quote(TRUE, 2, 1, 1)}]

MCBudget == [a \in MCAccounts |-> 4]
MCTaskWrites == [a \in MCAccounts |-> IF a = alice THEN {0} ELSE {}]
MCTakeConfigs == {}
MCAmounts == {3}
MCTransfers == {[from |-> alice, to |-> Raindex, token |-> dai, amount |-> 1]}
MCLoanAmounts == {}
MCApprovals == {1}
MCInitWallet == [a \in MCAccounts |-> [t \in MCTokens |->
                    IF a = bob \/ t = dai THEN 2 ELSE 0]]
MCInitAllow == [a \in MCAccounts |-> [t \in MCTokens |->
                    IF a = bob \/ t = dai THEN MaxUint ELSE 1]]

\* A revert leads back to a state that the behaviour has been in, so states that
\* differ only in what their calls would restore are the same to the properties.
Unsaved == <<ledger, live, store, entered, take,
             [k \in DOMAIN stack |-> <<stack[k].kind, stack[k].caller, stack[k].lent>>]>>
=============================================================================
