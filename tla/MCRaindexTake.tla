---------------------------- MODULE MCRaindexTake ----------------------------
(***************************************************************************)
(* takeOrders5 with its callbacks and flash loans.  Alice's orders sell    *)
(* token dai for eth: one out of her vault into her wallet, one out of     *)
(* her wallet into her vault.  Tia takes them.  A base unit of either      *)
(* token is two quanta, so that half units round.                          *)
(***************************************************************************)
EXTENDS Raindex

CONSTANTS alice, tia, dai, eth

IO(t, v) == [token |-> t, vault |-> v]

MCAccounts == {alice, tia}
MCTokens == {dai, eth}
MCVaultIds == {0, 1}
MCUnit == [t \in MCTokens |-> 2]

FromVault == [owner |-> alice, inputs |-> {IO(eth, 0)}, outputs |-> {IO(dai, 1)}, sources |-> 2, nonce |-> 0]
FromWallet == [owner |-> alice, inputs |-> {IO(eth, 1)}, outputs |-> {IO(dai, 0)}, sources |-> 2, nonce |-> 0]
MCOrders == {FromVault, FromWallet}

Quote(ok, max, num, den) == [ok |-> ok, max |-> max, ratio |-> [num |-> num, den |-> den]]

MCEvaluations ==
    [o \in MCOrders |->
        IF o = FromVault THEN {Quote(TRUE, 3, 3, 2), Quote(TRUE, 3, 2, 1)}
        ELSE {Quote(TRUE, 2, 1, 1), Quote(TRUE, 1, 0, 1), Quote(FALSE, 0, 0, 1)}]

MCBudget == [a \in MCAccounts |-> 4]
MCTaskWrites == [a \in MCAccounts |-> {}]

Leg1(o) == [order |-> o, in |-> CHOOSE io \in o.inputs : TRUE, out |-> CHOOSE io \in o.outputs : TRUE]

Config(legs, isInput, min, max, data) ==
    [taker |-> tia, legs |-> legs, IOIsInput |-> isInput, minimumIO |-> min, maximumIO |-> max,
     maximumIORatio |-> [num |-> 3, den |-> 2], data |-> data]

MCTakeConfigs ==
    {Config(<<Leg1(FromVault), Leg1(FromWallet)>>, TRUE, 0, 4, TRUE),
     Config(<<Leg1(FromWallet), Leg1(FromVault)>>, FALSE, 1, 2, FALSE)}

MCAmounts == {3}
MCTransfers == {[from |-> alice, to |-> tia, token |-> eth, amount |-> 1]}
MCApprovals == {}
MCLoanAmounts == {1}
MCInitWallet == [a \in MCAccounts |-> [t \in MCTokens |->
                    CASE a = alice /\ t = dai -> 3 [] a = tia /\ t = eth -> 2 [] OTHER -> 0]]
MCInitAllow == [a \in MCAccounts |-> [t \in MCTokens |-> MaxUint]]

\* A revert leads back to a state that the behaviour has been in, so states that
\* differ only in what their calls would restore are the same to the properties.
Unsaved == <<ledger, live, store, entered, take,
             [k \in DOMAIN stack |-> <<stack[k].kind, stack[k].caller, stack[k].lent>>]>>
=============================================================================
