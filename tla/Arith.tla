-------------------------------- MODULE Arith --------------------------------
(***************************************************************************)
(* Exact arithmetic standing in for the Python floats of the reducers.     *)
(* Inputs are small integers (what getfloat parses from the benchmark      *)
(* files); sums, products and quotients of them are rationals <<n, d>> in  *)
(* lowest terms with d > 0.  The only irrational operation is math.sqrt in *)
(* listStddev, so a reducer's result is a Real: [s |-> sign, q |-> r]      *)
(* standing for s * sqrt(r) with r a non-negative rational.  Every         *)
(* rational x is the Real [Sgn(x), x*x]; Reals are closed under the        *)
(* products, quotients and fabs the code applies to a square root.  Both   *)
(* forms are canonical, so = on them is numeric equality.  Float rounding  *)
(* is not modelled (see README).                                           *)
(***************************************************************************)
EXTENDS Integers

RECURSIVE GCD(_, _)
GCD(a, b) == IF b = 0 THEN a ELSE GCD(b, a % b)

AbsInt(n) == IF n < 0 THEN -n ELSE n
SgnInt(n) == CASE n > 0 -> 1 [] n = 0 -> 0 [] OTHER -> -1

\* The rational n / d (d # 0) in lowest terms.
Q(n, d) ==
  LET g == GCD(AbsInt(n), AbsInt(d))
      s == SgnInt(d)
  IN  <<(s * n) \div g, (s * d) \div g>>

Int2Q(n) == <<n, 1>>
QZero    == <<0, 1>>
QAdd(x, y) == Q(x[1] * y[2] + y[1] * x[2], x[2] * y[2])
QSub(x, y) == Q(x[1] * y[2] - y[1] * x[2], x[2] * y[2])
QMul(x, y) == Q(x[1] * y[1], x[2] * y[2])
QDiv(x, y) == Q(x[1] * y[2], x[2] * y[1])          \* y # QZero
QLt(x, y)  == x[1] * y[2] < y[1] * x[2]
QAbs(x)    == <<AbsInt(x[1]), x[2]>>

\* Reals s * sqrt(q).
Real(x)    == [s |-> SgnInt(x[1]), q |-> QMul(x, x)]   \* a rational
RSqrt(x)   == [s |-> SgnInt(x[1]), q |-> x]            \* math.sqrt(x), x >= 0
RDiv(a, b) == [s |-> a.s * b.s, q |-> QDiv(a.q, b.q)]  \* b.s # 0
RAbs(a)    == [a EXCEPT !.s = AbsInt(@)]
RIsZero(a) == a.s = 0

\* Integer square root of n >= 0, by bisection (kept below 2^31).
RECURSIVE ISqrtIn(_, _, _)
ISqrtIn(n, lo, hi) ==
  IF lo >= hi THEN lo
  ELSE LET m == (lo + hi + 1) \div 2
       IN  IF m * m <= n THEN ISqrtIn(n, m, hi) ELSE ISqrtIn(n, lo, m - 1)
ISqrt(n) == ISqrtIn(n, 0, IF n < 46340 THEN n ELSE 46340)

\* d with its factors 2 and 5 divided out (d >= 1).
RECURSIVE Strip25(_)
Strip25(d) == CASE d % 2 = 0 -> Strip25(d \div 2)
                [] d % 5 = 0 -> Strip25(d \div 5)
                [] OTHER     -> d

\* The Real a is a rational whose decimal expansion does not terminate:
\* s * sqrt(n/d) with n, d perfect squares and sqrt(d) not of the form
\* 2^i * 5^j.
RNonTerminating(a) ==
  LET rn == ISqrt(a.q[1])
      rd == ISqrt(a.q[2])
  IN  rn * rn = a.q[1] /\ rd * rd = a.q[2] /\ Strip25(rd) # 1

====
