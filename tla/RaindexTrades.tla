---------------------------- MODULE RaindexTrades ----------------------------
(***************************************************************************)
(* The arithmetic of a trade in RaindexV7: what a taker gives and gets for *)
(* one order of a batch (takeOrders5) and what two cleared orders and the  *)
(* clearer get (clear4).  An order's calculation q has the fields          *)
(*    ok     whether calculateOrderIO calculated anything                  *)
(*    max    outputMax, in quanta                                          *)
(*    ratio  IORatio, input per output, as a fraction                      *)
(***************************************************************************)
EXTENDS RaindexFloat

Calculations == [ok : BOOLEAN, max : Int, ratio : Ratios]

-----------------------------------------------------------------------------
(* takeOrders5                                                             *)

\* Mutant: the taker's maximum ratio is not looked at.
IsTakenAtAnyRatio(q, maximumIORatio) == q.ok /\ q.max > 0 /\ q.ratio.num >= 0

\* An order is taken when it was calculated, is within the taker's ratio,
\* and yields a positive output at a ratio that is not negative.
IsTaken(q, maximumIORatio) ==
    /\ q.ok
    /\ ~RatioGt(q.ratio, maximumIORatio)
    /\ q.max > 0
    /\ q.ratio.num >= 0

\* Mutant: the fill of an order is not limited to what is left of the taker's IO.
TakerIOUnlimited(IOIsInput, q, remaining) ==
    [input |-> q.max, output |-> FloatMul(q.max, q.ratio)]

\* What the taker receives (input) and pays (output) when "remaining" of its
\* IO is left.
TakerIO(IOIsInput, q, remaining) ==
    IF IOIsInput
    THEN LET input == MinOf(q.max, remaining)
         IN  [input |-> input, output |-> FloatMul(input, q.ratio)]
    ELSE LET output == MinOf(FloatMul(q.max, q.ratio), remaining)
         IN  [input  |-> IF q.ratio.num = 0 THEN q.max ELSE FloatDiv(output, q.ratio),
              output |-> output]

\* The side of a taker's IO that its maximumIO and minimumIO bound.
RelevantIO(IOIsInput, input, output) == IF IOIsInput THEN input ELSE output

-----------------------------------------------------------------------------
(* clear4                                                                  *)

IsClearable(q) == q.ok /\ q.max > 0 /\ q.ratio.num >= 0

calculateClearStateAlice(alice, bob) ==
    LET wanted == FloatMul(alice.max, alice.ratio)
    IN  IF wanted > bob.max
        THEN [input |-> bob.max, output |-> FloatDiv(bob.max, alice.ratio)]
        ELSE [input |-> wanted, output |-> alice.max]

\* Mutant: the bounty is the difference of the two outputs.
calculateClearStateChangeOutputs(alice, bob) ==
    LET a == calculateClearStateAlice(alice, bob)
        b == calculateClearStateAlice(bob, alice)
    IN  [alice |-> a, bob |-> b,
         aliceBounty |-> a.output - b.output,
         bobBounty   |-> b.output - a.output]

\* Both sides, and the spread each leaves to the clearer.
calculateClearStateChange(alice, bob) ==
    LET a == calculateClearStateAlice(alice, bob)
        b == calculateClearStateAlice(bob, alice)
    IN  [alice |-> a, bob |-> b,
         aliceBounty |-> a.output - b.input,
         bobBounty   |-> b.output - a.input]
=============================================================================
