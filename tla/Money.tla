--------------------------------- MODULE Money ---------------------------------
(* platform/money as operators: a decimal is [c, e], c * 10^-e, as in           *)
(* shopspring/decimal, whose rounding methods apply stands for. Sizes are       *)
(* unbounded in the code too (math/big).                                       *)
EXTENDS Integers, Sequences, FiniteSets, FiniteSetsExt

CONSTANTS
  Exponent,        \* of the asset: digits of its smallest unit
  divGuardDigits   \* 16 in the code

Modes == {"HalfEven", "HalfUp", "Down", "Up", "Ceil", "Floor"}
D(c, e) == [c |-> c, e |-> e]

AbsOf(n) == IF n < 0 THEN -n ELSE n
SignOf(n) == IF n < 0 THEN -1 ELSE IF n = 0 THEN 0 ELSE 1
Trunc(n, d) == SignOf(n) * SignOf(d) * (AbsOf(n) \div AbsOf(d))
Rem(n, d) == AbsOf(n) % AbsOf(d)

\* Sums and comparisons are at the larger of the two scales.
Common(x, y) == IF x.e > y.e THEN x.e ELSE y.e
Rescaled(x, e) == x.c * 10^(e - x.e)
Equal(x, y) == Rescaled(x, Common(x, y)) = Rescaled(y, Common(x, y))
Add(x, y) == D(Rescaled(x, Common(x, y)) + Rescaled(y, Common(x, y)), Common(x, y))
Sub(x, y) == D(Rescaled(x, Common(x, y)) - Rescaled(y, Common(x, y)), Common(x, y))
Mul(x, y) == D(x.c * y.c, x.e + y.e)
Shift(x, k) == IF k >= 0 THEN D(x.c * 10^k, x.e) ELSE D(x.c, x.e - k)

--------------------------------------------------------------------------------
\* Does the mode go away from zero, for a value of sign s whose kept digits are
\* q and whose dropped digits are the fraction r/u?
Away(mode, s, q, r, u) ==
  CASE mode = "HalfEven" -> 2 * r > u \/ (2 * r = u /\ q % 2 = 1)
    [] mode = "HalfUp" -> 2 * r >= u
    [] mode = "Down" -> FALSE
    [] mode = "Up" -> r > 0
    [] mode = "Ceil" -> r > 0 /\ s > 0
    [] mode = "Floor" -> r > 0 /\ s < 0

apply(mode, x, scale) ==
  IF x.e <= scale THEN x
  ELSE LET u == 10^(x.e - scale)
           q == AbsOf(x.c) \div u
           up == IF Away(mode, SignOf(x.c), q, AbsOf(x.c) % u, u) THEN 1 ELSE 0
       IN D(SignOf(x.c) * (q + up), scale)

Truncate(x, scale) == apply("Down", x, scale)
Whole(x) == Truncate(x, 0)
Fraction(x) == Sub(x, Whole(x))
Percent(x, p) == Mul(x, Shift(p, -2))

HasSubMinor(x) == ~Equal(Shift(x, Exponent), Truncate(Shift(x, Exponent), 0))
\* Minor, for an amount without dust.
Minor(x) == Trunc(Shift(x, Exponent).c, 10^x.e)
FromMinor(n) == D(n, Exponent)

--------------------------------------------------------------------------------
\* decimal.DivRound: to prec digits, half away from zero.
Quotient(x, y, prec) ==
  LET n == x.c * 10^(y.e + prec)
      d == y.c * 10^x.e
      s == SignOf(n) * SignOf(d)
  IN D(Trunc(n, d) + (IF 2 * Rem(n, d) >= AbsOf(d) THEN s ELSE 0), prec)

DivRound(x, y, scale, mode) == apply(mode, Quotient(x, y, scale + divGuardDigits), scale)

\* What a mode makes of the exact quotient: its floor or the integer above.
Exactly(x, y, scale, mode) ==
  LET n == x.c * 10^(y.e + scale)
      d == y.c * 10^x.e
      s == SignOf(n) * SignOf(d)
      up == Away(mode, s, AbsOf(n) \div AbsOf(d), Rem(n, d), AbsOf(d))
  IN D(Trunc(n, d) + (IF up THEN s ELSE 0), scale)

--------------------------------------------------------------------------------
SumSeq(s) == MapThenSumSet(LAMBDA i : s[i], DOMAIN s)

\* One unit each to the earliest parts, round and round.
HandOut(shares, rest) ==
  [i \in DOMAIN shares |-> shares[i] + Cardinality({k \in 1..rest : (k - 1) % Len(shares) = i - 1})]

\* The parts in smallest units; ratios are not negative and not all zero.
Allocate(x, ratios) ==
  LET minor == Minor(x)
      shares == [i \in DOMAIN ratios |-> (AbsOf(minor) * ratios[i]) \div SumSeq(ratios)]
      parts == HandOut(shares, AbsOf(minor) - SumSeq(shares))
  IN [i \in DOMAIN ratios |-> SignOf(minor) * parts[i]]

Split(x, n) == Allocate(x, [i \in 1..n |-> 1])

--------------------------------------------------------------------------------
\* The parts come to the whole, what is below the smallest unit dropped; each is
\* within one unit of its exact share, and equal parts differ by one at most,
\* the larger ones first (Allocate: "summing EXACTLY to m").
Conserved(x, ratios) ==
  LET parts == Allocate(x, ratios)
      equal == Split(x, Len(ratios))
      off(i) == parts[i] * SumSeq(ratios) - Minor(x) * ratios[i]
  IN /\ SumSeq(parts) = Minor(x)
     /\ \A i \in DOMAIN ratios : AbsOf(off(i)) <= SumSeq(ratios)
     /\ \A i, j \in DOMAIN ratios : i < j => AbsOf(equal[i]) - AbsOf(equal[j]) \in {0, 1}

\* DivRound's guard digits are enough to round the exact quotient as long as the
\* divisor, with the digits the amount has beyond scale, has no more than they
\* (DivRound: "mode rounds the true quotient").
RoundsTrueQuotient(x, y, scale, mode) ==
  AbsOf(y.c) * 10^Max({0, x.e - y.e - scale}) < 10^divGuardDigits =>
    Equal(DivRound(x, y, scale, mode), Exactly(x, y, scale, mode))

\* Percentages that make a hundred make the whole; whole and fraction make it
\* again; minor units come back where there is no dust.
NothingLost(x, p) ==
  /\ Equal(Add(Percent(x, p), Percent(x, Sub(D(100, 0), p))), x)
  /\ Equal(Add(Whole(x), Fraction(x)), x)
  /\ ~HasSubMinor(x) <=> Equal(FromMinor(Minor(x)), x)
================================================================================
