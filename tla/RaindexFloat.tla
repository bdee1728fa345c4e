---------------------------- MODULE RaindexFloat ----------------------------
(***************************************************************************)
(* The operations of rain.math.float that RaindexV7 uses.  A non-negative  *)
(* Float is a number of quanta, a quantum being the least digit that the   *)
(* arithmetic keeps; a ratio is a fraction.  Products and quotients        *)
(* truncate.                                                               *)
(***************************************************************************)
EXTENDS Integers

Ratios == [num : Int, den : Nat \ {0}]

MinOf(a, b) == IF a <= b THEN a ELSE b

FloatMul(q, r) == (q * r.num) \div r.den

FloatDiv(q, r) == (q * r.den) \div r.num

RatioGt(r, s) == r.num * s.den > s.num * r.den
=============================================================================
