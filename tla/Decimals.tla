------------------------------ MODULE Decimals ------------------------------
(***************************************************************************)
(* Python Decimals as integers.  Money is a whole number of quanta         *)
(* (0.0001), a quantity a whole number of 10^-8 shares, and an exchange    *)
(* rate a whole number of 1/RateUnit.  Quotients keep Ulp units per        *)
(* quantum, half-even, where Python keeps 28 significant digits.           *)
(***************************************************************************)
EXTENDS Integers

CONSTANTS Ulp, RateUnit

ASSUME PrecisionAssumption == Ulp \in Nat \ {0} /\ RateUnit \in Nat \ {0}

\* Decimal division and quantize: round to nearest, ties to even.
RoundDiv(a, b) ==
  LET q == a \div b
      twice == 2 * (a % b)
  IN  IF twice > b \/ (twice = b /\ q % 2 = 1) THEN q + 1 ELSE q
=============================================================================
