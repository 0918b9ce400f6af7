------------------------------ MODULE Rational ------------------------------
(***************************************************************************)
(* Exact rational arithmetic: <<n, d>> in lowest terms with d > 0.  The    *)
(* aggregation models use it where the code computes in f32 or f64.        *)
(***************************************************************************)
EXTENDS Integers, Functions

\* The pairs that stand for a number, in lowest terms or not.
Rat == {q \in Int \X Int : q[2] > 0}

\* Gcd[b][a] is the greatest common divisor of a and b.
Gcd[b \in Nat] == [a \in Nat |-> IF b = 0 THEN a ELSE Gcd[a % b][b]]

AbsInt(i) == IF i < 0 THEN -i ELSE i

\* n / d in lowest terms, for d # 0.
Q(n, d) ==
  LET g == Gcd[AbsInt(d)][AbsInt(n)]
      s == IF d < 0 THEN -1 ELSE 1
  IN  <<(s * n) \div g, (s * d) \div g>>

Int2Q(i) == <<i, 1>>
Zero == Int2Q(0)
One == Int2Q(1)

QAdd(a, b) == Q(a[1] * b[2] + b[1] * a[2], a[2] * b[2])
QSub(a, b) == Q(a[1] * b[2] - b[1] * a[2], a[2] * b[2])
QMul(a, b) == Q(a[1] * b[1], a[2] * b[2])
QDiv(a, b) == Q(a[1] * b[2], a[2] * b[1])
QAbs(a) == <<AbsInt(a[1]), a[2]>>
QLeq(a, b) == a[1] * b[2] <= b[1] * a[2]
QLess(a, b) == a[1] * b[2] < b[1] * a[2]
QMin(a, b) == IF QLeq(a, b) THEN a ELSE b
QMax(a, b) == IF QLeq(a, b) THEN b ELSE a
QFloor(a) == a[1] \div a[2]
QCeil(a) == -((-a[1]) \div a[2])

\* The sum of f[i] for i in S.
QSum(f, S) == FoldFunctionOnSet(QAdd, Zero, f, S)
=============================================================================
