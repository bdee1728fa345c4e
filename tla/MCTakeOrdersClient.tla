------------------------- MODULE MCTakeOrdersClient -------------------------
(***************************************************************************)
(* Four orders of two Raindexes: split evenly or not, at prices up to and  *)
(* past a cap that is whole or not in base units, with capacities below    *)
(* and at the request, and every set of orders that revert.                *)
(***************************************************************************)
EXTENDS TakeOrdersClient

MCRaindexes == {<<1, 1, 1, 2>>, <<1, 2, 2, 1>>}

MCRatios == {<<2, 2, 4, 3>>, <<0, 3, 2, 5>>, <<4, 2, 3, 2>>}

MCMax == {<<1, 1, 2, 2>>, <<2, 1, 1, 3>>, <<3, 3, 0, 1>>, <<1, 2, 1, 1>>}

MCQuotes ==
    {[c \in 1..4 |-> [raindex |-> r[c], ratio |-> p[c], max |-> m[c] * Unit,
                      ok |-> ~(c = 4 /\ m[4] = 2)]]
        : r \in MCRaindexes, p \in MCRatios, m \in MCMax}

MCAllowance == {<<9, 9>>, <<9, 3>>, <<4, 4>>}

MCRequest ==
    [mode : {"BuyExact", "BuyUpTo", "SpendExact", "SpendUpTo"}, amount : {3 * Unit},
     cap : {3, 4}, quotes : MCQuotes, bad : SUBSET (1..4), shared : {{}, {1, 2}},
     allowance : MCAllowance, balance : {2, 9}]
=============================================================================
