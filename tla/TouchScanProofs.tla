--------------------------- MODULE TouchScanProofs ---------------------------
(***************************************************************************)
(* Theorems about TouchScan, for any sensor, panel, thresholds and fingers: *)
(* types, that the clients follow the driver, and that the path sent for a  *)
(* moving finger is smooth.                                                 *)
(***************************************************************************)
EXTENDS TouchScan, SequenceTheorems, TLAPS

(***************************************************************************)
(* Division: the point s of n on the way of length d.                       *)
(***************************************************************************)
LEMMA DivBounds ==
    ASSUME NEW a \in Nat, NEW n \in Nat \ {0}
    PROVE  a \div n \in Nat /\ (a \div n) * n <= a /\ a < (a \div n) * n + n
  OBVIOUS

LEMMA MulMonotone ==
    ASSUME NEW a \in Nat, NEW b \in Nat, NEW c \in Nat, a <= b
    PROVE  c * a <= c * b /\ c * a \in Nat /\ c * b \in Nat
  OBVIOUS

LEMMA MulCancel ==
    ASSUME NEW a \in Int, NEW b \in Int, NEW n \in Nat \ {0}, a * n < b * n
    PROVE  a < b
  OBVIOUS

Way(d, s, n) == (d * s) \div n

LEMMA WayEnds ==
    ASSUME NEW d \in Nat, NEW n \in Nat \ {0}
    PROVE  Way(d, 0, n) = 0 /\ Way(d, n, n) = d
<1>1. d * 0 = 0 /\ 0 \div n = 0
    OBVIOUS
<1>2. (d * n) \div n = d
    OBVIOUS
<1>3. QED  BY <1>1, <1>2 DEF Way

LEMMA WayMonotone ==
    ASSUME NEW d \in Nat, NEW n \in Nat \ {0}, NEW r \in Nat, NEW s \in Nat, r <= s
    PROVE  Way(d, r, n) \in Nat /\ Way(d, r, n) <= Way(d, s, n)
<1>1. d * r \in Nat /\ d * s \in Nat /\ d * r <= d * s
    BY MulMonotone
<1> DEFINE p == Way(d, r, n)
           q == Way(d, s, n)
<1>2. p \in Nat /\ q \in Nat /\ p * n <= d * r /\ d * s < q * n + n
    BY <1>1, DivBounds DEF Way
<1> HIDE DEF p, q
<1>3. q * n + n = (q + 1) * n
    BY <1>2
<1>4. p * n < (q + 1) * n
  <2>1. p * n \in Int /\ (q + 1) * n \in Int
    BY <1>2
  <2>2. QED  BY <1>1, <1>2, <1>3, <2>1
<1>5. p < q + 1
    BY <1>2, <1>4, MulCancel
<1>6. QED  BY <1>2, <1>5 DEF p, q

(* One of n steps on a way of at most n * m is at most m.                    *)
LEMMA WayStep ==
    ASSUME NEW d \in Nat, NEW n \in Nat \ {0}, NEW s \in Nat, NEW m \in Nat, d <= m * n
    PROVE  Way(d, s + 1, n) - Way(d, s, n) <= m
<1> DEFINE p == Way(d, s, n)
           q == Way(d, s + 1, n)
<1>1. d * s \in Nat /\ d * (s + 1) \in Nat /\ d * (s + 1) = d * s + d
    OBVIOUS
<1>2. p \in Nat /\ q \in Nat /\ q * n <= d * s + d /\ d * s < p * n + n
    BY <1>1, DivBounds DEF Way
<1> HIDE DEF p, q
<1>3. p * n + n + m * n = (p + 1 + m) * n
    BY <1>2
<1>4. q * n < (p + 1 + m) * n
  <2>1. /\ q * n \in Int /\ (p + 1 + m) * n \in Int /\ p * n \in Int /\ m * n \in Int
    BY <1>2
  <2>2. QED  BY <1>1, <1>2, <1>3, <2>1
<1>5. q < p + 1 + m
    BY <1>2, <1>4, MulCancel
<1>6. QED  BY <1>2, <1>5 DEF p, q

-----------------------------------------------------------------------------
(***************************************************************************)
(* The path of a moving finger.                                            *)
(***************************************************************************)
Point(x0, x, s, n) == x0 + Quot((x - x0) * s, n)

LEMMA PointIs ==
    ASSUME NEW x0 \in Nat, NEW x \in Nat, NEW s \in Nat, NEW n \in Nat \ {0}
    PROVE  /\ x0 <= x => Point(x0, x, s, n) = x0 + Way(x - x0, s, n)
           /\ x < x0 => Point(x0, x, s, n) = x0 - Way(x0 - x, s, n)
<1>1. CASE x0 <= x
  <2>1. x - x0 \in Nat /\ (x - x0) * s \in Nat
    BY <1>1
  <2>2. QED  BY <1>1, <2>1 DEF Point, Quot, Way
<1>2. CASE x < x0
  <2>1. x0 - x \in Nat /\ (x0 - x) * s \in Nat /\ (x - x0) * s = -((x0 - x) * s)
    BY <1>2
  <2>2. CASE (x0 - x) * s = 0
    <3>1. (x - x0) * s = 0 /\ 0 \div n = 0
      BY <2>1, <2>2
    <3>2. QED  BY <1>2, <2>2, <3>1 DEF Point, Quot, Way
  <2>3. CASE (x0 - x) * s > 0
    <3>1. (x - x0) * s < 0 /\ -((x - x0) * s) = (x0 - x) * s
      BY <2>1, <2>3
    <3>2. ((x0 - x) * s) \div n \in Nat
      BY <2>1, DivBounds
    <3>3. Point(x0, x, s, n) = x0 + (-(((x0 - x) * s) \div n))
      BY <3>1 DEF Point, Quot
    <3>4. QED  BY <1>2, <3>2, <3>3 DEF Way
  <2>4. QED  BY <2>1, <2>2, <2>3
<1>3. QED  BY <1>1, <1>2

LEMMA PointsInOrder ==
    ASSUME NEW x0 \in Nat, NEW x \in Nat, NEW n \in Nat \ {0}, NEW k \in 0 .. n - 1
    PROVE  /\ Point(x0, x, k, n) \in Nat /\ Point(x0, x, k + 1, n) \in Nat
           /\ Between(x0, Point(x0, x, k, n), x)
           /\ Between(Point(x0, x, k, n), Point(x0, x, k + 1, n), x)
           /\ \A m \in Nat : Abs(x - x0) <= m * n =>
                 Abs(Point(x0, x, k + 1, n) - Point(x0, x, k, n)) <= m
<1> DEFINE d == Abs(x - x0)
<1>0. d \in Nat /\ (x0 <= x => d = x - x0) /\ (x < x0 => d = x0 - x)
    BY DEF Abs
<1> HIDE DEF d
<1>1. /\ Way(d, k, n) \in Nat /\ Way(d, k + 1, n) \in Nat
      /\ Way(d, k, n) <= Way(d, k + 1, n) /\ Way(d, k + 1, n) <= d
    BY <1>0, WayMonotone, WayEnds
<1>2. \A m \in Nat : d <= m * n => Way(d, k + 1, n) - Way(d, k, n) <= m
    BY <1>0, WayStep
<1> DEFINE a == Way(d, k, n)
           b == Way(d, k + 1, n)
           p == Point(x0, x, k, n)
           q == Point(x0, x, k + 1, n)
<1>3. (x0 <= x => p = x0 + a /\ q = x0 + b) /\ (x < x0 => p = x0 - a /\ q = x0 - b)
  <2>1. k \in Nat /\ k + 1 \in Nat
    OBVIOUS
  <2>2. \A s \in Nat : /\ x0 <= x => Point(x0, x, s, n) = x0 + Way(x - x0, s, n)
                       /\ x < x0 => Point(x0, x, s, n) = x0 - Way(x0 - x, s, n)
    BY PointIs
  <2>3. CASE x0 <= x
    BY <1>0, <2>1, <2>2, <2>3
  <2>4. CASE x < x0
    BY <1>0, <2>1, <2>2, <2>4
  <2>5. QED  BY <2>3, <2>4
<1>4. a \in Nat /\ b \in Nat /\ a <= b /\ b <= d
    BY <1>1
<1>5. \A m \in Nat : d <= m * n => b - a <= m
    BY <1>2
<1> HIDE DEF a, b, p, q
<1>6. p \in Nat /\ q \in Nat /\ Between(x0, p, x) /\ Between(p, q, x) /\ Abs(q - p) = b - a
    BY <1>0, <1>3, <1>4 DEF Between, Abs
<1>7. \A m \in Nat : Abs(x - x0) <= m * n => Abs(q - p) <= m
    BY <1>5, <1>6 DEF d
<1>8. QED  BY <1>6, <1>7 DEF p, q

LEMMA PointsEnd ==
    ASSUME NEW x0 \in Nat, NEW x \in Nat, NEW n \in Nat \ {0}
    PROVE  Point(x0, x, 0, n) = x0 /\ Point(x0, x, n, n) = x
<1>1. CASE x0 <= x
  <2>1. x - x0 \in Nat
    BY <1>1
  <2>2. QED  BY <1>1, <2>1, WayEnds, PointIs
<1>2. CASE x < x0
  <2>1. x0 - x \in Nat
    BY <1>2
  <2>2. QED  BY <1>2, <2>1, WayEnds, PointIs
<1>3. QED  BY <1>1, <1>2

(* The number of calls a jump is divided into.                              *)
Steps(x0, x) ==
    LET want == (Abs(x - x0) + Sub - 1) \div Sub
    IN  IF Abs(x - x0) > Sub THEN IF want > MaxSteps THEN MaxSteps ELSE want ELSE 1

LEMMA StepsEnough ==
    ASSUME NEW x0 \in Nat, NEW x \in Nat
    PROVE  /\ Steps(x0, x) \in 1 .. MaxSteps
           /\ Abs(x - x0) <= MaxSteps * Sub => Abs(x - x0) <= Sub * Steps(x0, x)
<1> DEFINE d == Abs(x - x0)
           want == (d + Sub - 1) \div Sub
<1>0. d \in Nat /\ Sub \in Nat \ {0} /\ MaxSteps \in Nat \ {0}
    BY TouchAssumption DEF Abs
<1>1. want \in Nat /\ d + Sub - 1 < want * Sub + Sub
  <2>1. d + Sub - 1 \in Nat
    BY <1>0
  <2>2. QED  BY <1>0, <2>1, DivBounds
<1>2. Steps(x0, x) = IF d > Sub THEN IF want > MaxSteps THEN MaxSteps ELSE want ELSE 1
    BY DEF Steps
<1> HIDE DEF d, want
<1>3. d <= want * Sub /\ want * Sub = Sub * want /\ MaxSteps * Sub = Sub * MaxSteps
    BY <1>0, <1>1
<1>4. d > Sub => want >= 1
  <2>1. want = 0 => want * Sub = 0
    BY <1>0
  <2>2. QED  BY <1>0, <1>1, <1>3, <2>1
<1>5. Steps(x0, x) \in 1 .. MaxSteps
    BY <1>0, <1>1, <1>2, <1>4
<1>6. d <= MaxSteps * Sub => d <= Sub * Steps(x0, x)
    BY <1>0, <1>1, <1>2, <1>3
<1>7. QED  BY <1>5, <1>6 DEF d

LEMMA SubdivideIs ==
    ASSUME NEW x0 \in Nat, NEW x \in Nat
    PROVE  LET n == Steps(x0, x)
               r == Subdivide(x0, x) \o <<x>>
           IN  r \in Seq(Nat) /\ Len(r) = n /\ \A k \in 1 .. n : r[k] = Point(x0, x, k, n)
<1> DEFINE n == Steps(x0, x)
           u == Subdivide(x0, x)
<1>0. n \in Nat \ {0} /\ n \in 1 .. MaxSteps
  <2>1. n \in 1 .. MaxSteps /\ MaxSteps \in Nat
    BY StepsEnough, TouchAssumption
  <2> HIDE DEF n
  <2>2. QED  BY <2>1
<1>1. u = [s \in 1 .. n - 1 |-> Point(x0, x, s, n)]
  <2>1. CASE Abs(x - x0) > Sub
    BY <2>1 DEF Subdivide, Steps, Point
  <2>2. CASE ~(Abs(x - x0) > Sub)
    <3>1. u = <<>> /\ n = 1
      BY <2>2 DEF Subdivide, Steps
    <3>2. 1 .. 0 = {}
      OBVIOUS
    <3>3. [s \in {} |-> Point(x0, x, s, 1)] = <<>>
      OBVIOUS
    <3>4. QED  BY <3>1, <3>2, <3>3
  <2>3. QED  BY <2>1, <2>2
<1> HIDE DEF n, u
<1>2. ASSUME NEW s \in 1 .. n - 1 PROVE Point(x0, x, s, n) \in Nat
    BY <1>0, PointsInOrder
<1>3. u \in Seq(Nat) /\ Len(u) = n - 1 /\ \A s \in 1 .. n - 1 : u[s] = Point(x0, x, s, n)
  <2>1. n - 1 \in Nat
    BY <1>0
  <2>2. u \in [1 .. n - 1 -> Nat]
    BY <1>1, <1>2
  <2>3. u \in Seq(Nat)
    BY <2>1, <2>2, IsASeq
  <2>4. DOMAIN u = 1 .. n - 1
    BY <1>1
  <2>5. Len(u) = n - 1
    BY <2>1, <2>3, <2>4, LenProperties
  <2>6. QED  BY <1>1, <2>3, <2>5
<1>4. <<x>> \in Seq(Nat) /\ Len(<<x>>) = 1 /\ <<x>>[1] = x
    OBVIOUS
<1>5. Point(x0, x, n, n) = x
    BY <1>0, PointsEnd
<1> DEFINE r == u \o <<x>>
<1>6. /\ r \in Seq(Nat) /\ Len(r) = n
      /\ \A k \in 1 .. n : r[k] = IF k <= n - 1 THEN u[k] ELSE <<x>>[k - (n - 1)]
    BY <1>0, <1>3, <1>4, ConcatProperties
<1> HIDE DEF r
<1>7. \A k \in 1 .. n : r[k] = Point(x0, x, k, n)
  <2> TAKE k \in 1 .. n
  <2>1. CASE k <= n - 1
    BY <1>0, <1>3, <1>6, <2>1
  <2>2. CASE k = n
    BY <1>0, <1>4, <1>5, <1>6, <2>2
  <2>3. QED  BY <1>0, <2>1, <2>2
<1>8. QED  BY <1>6, <1>7 DEF r, u, n

LEMMA Prefixed ==
    ASSUME NEW a \in Nat, NEW q \in Seq(Nat)
    PROVE  LET t == <<a>> \o q
           IN  /\ t \in Seq(Nat) /\ Len(t) = Len(q) + 1 /\ t[1] = a
               /\ \A k \in 1 .. Len(q) : t[k + 1] = q[k]
<1>1. <<a>> \in Seq(Nat) /\ Len(<<a>>) = 1 /\ <<a>>[1] = a /\ Len(q) \in Nat
    BY LenProperties
<1> DEFINE t == <<a>> \o q
<1>2. /\ t \in Seq(Nat) /\ Len(t) = 1 + Len(q)
      /\ \A i \in 1 .. 1 + Len(q) : t[i] = IF i <= 1 THEN <<a>>[i] ELSE q[i - 1]
    BY <1>1, ConcatProperties
<1> HIDE DEF t
<1>3. \A k \in 1 .. Len(q) : t[k + 1] = q[k]
  <2> TAKE k \in 1 .. Len(q)
  <2>1. k + 1 \in 1 .. 1 + Len(q) /\ ~(k + 1 <= 1) /\ (k + 1) - 1 = k
    BY <1>1
  <2>2. QED  BY <1>2, <2>1
<1>4. t[1] = a /\ Len(t) = Len(q) + 1
    BY <1>1, <1>2
<1>5. QED  BY <1>2, <1>3, <1>4 DEF t

(***************************************************************************)
(* The calls t[2], ..., t[n] for a move from t[1] to x: in order, ending at *)
(* x, the first one short after rest, all of them unless the jump is long.  *)
(***************************************************************************)
SmoothTo(t, x, rested) ==
    /\ t \in Seq(Nat) /\ Len(t) \in 2 .. MaxSteps + 2 /\ t[Len(t)] = x
    /\ \A k \in 1 .. Len(t) - 1 :
          Between(t[1], t[k + 1], x) /\ Between(t[k], t[k + 1], x)
    /\ rested /\ Len(t) > 2 => Abs(t[2] - t[1]) <= Hyst
    /\ Abs(x - t[1]) <= MaxSteps * Sub =>
          \A k \in 1 .. Len(t) - 1 : Abs(t[k + 1] - t[k]) <= Sub

(* Subdivision alone.                                                      *)
LEMMA SubdivideSmooth ==
    ASSUME NEW x0 \in Nat, NEW x \in Nat, NEW rested \in BOOLEAN,
           rested => Abs(x - x0) <= Hyst
    PROVE  /\ SmoothTo(<<x0>> \o (Subdivide(x0, x) \o <<x>>), x, rested)
           /\ Len(<<x0>> \o (Subdivide(x0, x) \o <<x>>)) <= MaxSteps + 1
<1> DEFINE n == Steps(x0, x)
           r == Subdivide(x0, x) \o <<x>>
           t == <<x0>> \o r
<1>1. n \in 1 .. MaxSteps /\ MaxSteps \in Nat \ {0} /\ Sub \in Nat /\ Hyst \in Nat
    BY StepsEnough, TouchAssumption
<1>2. Abs(x - x0) <= MaxSteps * Sub => Abs(x - x0) <= Sub * n
    BY StepsEnough
<1>3. r \in Seq(Nat) /\ Len(r) = n /\ \A k \in 1 .. n : r[k] = Point(x0, x, k, n)
    BY SubdivideIs
<1>4. t \in Seq(Nat) /\ Len(t) = n + 1 /\ t[1] = x0 /\ \A k \in 1 .. n : t[k + 1] = r[k]
    BY <1>3, Prefixed
<1> HIDE DEF n, r, t
<1>5. n \in Nat \ {0}
    BY <1>1
<1>6. Point(x0, x, 0, n) = x0 /\ Point(x0, x, n, n) = x
    BY <1>5, PointsEnd
<1>7. ASSUME NEW k \in 1 .. n PROVE t[k] = Point(x0, x, k - 1, n) /\ t[k + 1] = Point(x0, x, k, n)
  <2>1. t[k + 1] = Point(x0, x, k, n)
    BY <1>3, <1>4
  <2>2. CASE k = 1
    BY <1>4, <1>6, <2>1, <2>2
  <2>3. CASE k # 1
    <3>1. k - 1 \in 1 .. n /\ (k - 1) + 1 = k
      BY <1>5, <2>3
    <3>2. t[(k - 1) + 1] = Point(x0, x, k - 1, n)
      BY <1>3, <1>4, <3>1
    <3>3. QED  BY <2>1, <3>1, <3>2
  <2>4. QED  BY <2>2, <2>3
<1>8. t[n + 1] = x
    BY <1>5, <1>6, <1>7
<1>9. ASSUME NEW k \in 1 .. n
      PROVE  /\ t[k] \in Nat /\ t[k + 1] \in Nat
             /\ Between(x0, t[k + 1], x) /\ Between(t[k], t[k + 1], x)
             /\ Abs(x - x0) <= Sub * n => Abs(t[k + 1] - t[k]) <= Sub
  <2>1. k - 1 \in 0 .. n - 1 /\ (k - 1) + 1 = k
    BY <1>5
  <2>2. /\ Point(x0, x, k - 1, n) \in Nat /\ Point(x0, x, (k - 1) + 1, n) \in Nat
        /\ Between(x0, Point(x0, x, k - 1, n), x)
        /\ Between(Point(x0, x, k - 1, n), Point(x0, x, (k - 1) + 1, n), x)
        /\ \A m \in Nat : Abs(x - x0) <= m * n =>
              Abs(Point(x0, x, (k - 1) + 1, n) - Point(x0, x, k - 1, n)) <= m
    BY <1>5, <2>1, PointsInOrder
  <2>3. /\ t[k] \in Nat /\ t[k + 1] \in Nat /\ Between(x0, t[k], x)
        /\ Between(t[k], t[k + 1], x)
        /\ Abs(x - x0) <= Sub * n => Abs(t[k + 1] - t[k]) <= Sub
    BY <1>1, <1>7, <2>1, <2>2
  <2>4. QED  BY <2>3 DEF Between
<1>10. rested => Abs(t[2] - t[1]) <= Hyst
  <2>1. 1 \in 1 .. n /\ 1 + 1 = 2
    BY <1>5
  <2>2. Between(x0, t[2], x) /\ t[2] \in Nat
    BY <1>9, <2>1
  <2>3. QED  BY <1>1, <1>4, <2>2 DEF Between, Abs
<1>11. Len(t) - 1 = n /\ Len(t) \in 2 .. MaxSteps + 2 /\ Len(t) <= MaxSteps + 1
    BY <1>1, <1>4
<1>12. SmoothTo(t, x, rested)
    BY <1>2, <1>4, <1>8, <1>9, <1>10, <1>11 DEF SmoothTo
<1>13. QED  BY <1>11, <1>12 DEF t, r

(* The hysteresis step is Hyst towards x.                                   *)
LEMMA HystPoint ==
    ASSUME NEW x0 \in Nat, NEW x \in Nat, Abs(x - x0) > Hyst
    PROVE  LET h == x0 + Quot((x - x0) * Hyst, Abs(x - x0))
           IN  /\ h \in Nat /\ Abs(h - x0) = Hyst /\ Between(x0, h, x)
               /\ Abs(x - h) <= Abs(x - x0)
<1> DEFINE d == Abs(x - x0)
           h == Point(x0, x, Hyst, d)
<1>1. Hyst \in Nat \ {0} /\ d \in Nat \ {0} /\ d > Hyst
    BY TouchAssumption DEF Abs
<1>2. (x0 <= x => d = x - x0) /\ (x < x0 => d = x0 - x)
    BY DEF Abs
<1>3. Way(d, Hyst, d) = Hyst
  <2>1. \A a \in Nat, b \in Nat \ {0} : (b * a) \div b = a
    OBVIOUS
  <2>2. QED  BY <1>1, <2>1 DEF Way
<1>4. /\ x0 <= x => Point(x0, x, Hyst, d) = x0 + Way(x - x0, Hyst, d)
      /\ x < x0 => Point(x0, x, Hyst, d) = x0 - Way(x0 - x, Hyst, d)
    BY <1>1, PointIs
<1>5. (x0 <= x => h = x0 + Hyst) /\ (x < x0 => h = x0 - Hyst)
    BY <1>2, <1>3, <1>4
<1>6. h = x0 + Quot((x - x0) * Hyst, Abs(x - x0))
    BY DEF Point
<1> HIDE DEF h
<1>7. h \in Nat /\ Abs(h - x0) = Hyst /\ Between(x0, h, x) /\ Abs(x - h) <= Abs(x - x0)
    BY <1>1, <1>2, <1>5 DEF Abs, Between
<1>8. QED  BY <1>6, <1>7

LEMMA SubdivideSeq ==
    ASSUME NEW x0 \in Nat, NEW x \in Nat
    PROVE  Subdivide(x0, x) \in Seq(Nat)
<1> DEFINE v == Subdivide(x0, x)
           m == Steps(x0, x)
<1>1. m \in 1 .. MaxSteps /\ MaxSteps \in Nat
    BY StepsEnough, TouchAssumption
<1>2. CASE Abs(x - x0) > Sub
  <2>1. v = [s \in 1 .. m - 1 |-> Point(x0, x, s, m)]
    BY <1>2 DEF Subdivide, Steps, Point
  <2> HIDE DEF v, m
  <2>2. m - 1 \in Nat /\ m \in Nat \ {0}
    BY <1>1
  <2>3. \A s \in 1 .. m - 1 : Point(x0, x, s, m) \in Nat
    BY <2>2, PointsInOrder
  <2>4. v \in Seq(Nat)
    BY <2>1, <2>2, <2>3, IsASeq
  <2>5. QED  BY <2>4 DEF v
<1>3. CASE ~(Abs(x - x0) > Sub)
    BY <1>3 DEF Subdivide
<1>4. QED  BY <1>2, <1>3

LEMMA MovePathSeq ==
    ASSUME NEW x0 \in Nat, NEW x \in Nat, NEW hasMoved \in BOOLEAN
    PROVE  MovePath(x0, x, hasMoved) \in Seq(Nat)
<1> DEFINE h == x0 + Quot((x - x0) * Hyst, Abs(x - x0))
<1>1. CASE ~hasMoved /\ Abs(x - x0) > Hyst
  <2>1. h \in Nat
    BY <1>1, HystPoint
  <2>2. MovePath(x0, x, hasMoved) = (<<h>> \o Subdivide(h, x)) \o <<x>>
    BY <1>1 DEF MovePath
  <2> HIDE DEF h
  <2>3. <<h>> \in Seq(Nat) /\ Subdivide(h, x) \in Seq(Nat) /\ <<x>> \in Seq(Nat)
    BY <2>1, SubdivideSeq
  <2>4. QED  BY <2>2, <2>3, ConcatProperties
<1>2. CASE ~(~hasMoved /\ Abs(x - x0) > Hyst)
  <2>1. MovePath(x0, x, hasMoved) = Subdivide(x0, x) \o <<x>>
    BY <1>2 DEF MovePath
  <2>2. QED  BY <2>1, SubdivideIs
<1>3. QED  BY <1>1, <1>2

LEMMA MovePathSmooth ==
    ASSUME NEW x0 \in Nat, NEW x \in Nat, NEW hasMoved \in BOOLEAN
    PROVE  SmoothTo(<<x0>> \o MovePath(x0, x, hasMoved), x, ~hasMoved)
<1> DEFINE h == x0 + Quot((x - x0) * Hyst, Abs(x - x0))
<1>0. Hyst \in Nat \ {0} /\ Sub \in Nat \ {0} /\ MaxSteps \in Nat \ {0} /\ Hyst <= Sub
    BY TouchAssumption, HystAssumption
<1>1. CASE ~hasMoved /\ Abs(x - x0) > Hyst
  <2>1. /\ h \in Nat /\ Abs(h - x0) = Hyst /\ Between(x0, h, x) /\ Abs(x - h) <= Abs(x - x0)
    BY <1>1, HystPoint
  <2> DEFINE q == Subdivide(h, x) \o <<x>>
             u == <<h>> \o q
             t == <<x0>> \o u
  <2>2. MovePath(x0, x, hasMoved) = (<<h>> \o Subdivide(h, x)) \o <<x>>
    BY <1>1 DEF MovePath
  <2> HIDE DEF h
  <2>3. (<<h>> \o Subdivide(h, x)) \o <<x>> = u
    <3>1. Subdivide(h, x) \in Seq(Nat)
      BY <2>1, SubdivideSeq
    <3>2. <<h>> \in Seq(Nat) /\ <<x>> \in Seq(Nat)
      BY <2>1
    <3>3. QED  BY <3>1, <3>2, ConcatAssociative
  <2>4. SmoothTo(u, x, FALSE) /\ Len(u) <= MaxSteps + 1
    BY <2>1, SubdivideSmooth
  <2>5. u \in Seq(Nat) /\ Len(u) \in 2 .. MaxSteps + 2 /\ u[Len(u)] = x
    BY <2>4 DEF SmoothTo
  <2>6. u[1] = h
    <3>1. q \in Seq(Nat)
      BY <2>1, SubdivideIs
    <3>2. QED  BY <2>1, <3>1, Prefixed
  <2> HIDE DEF u
  <2>7. /\ t \in Seq(Nat) /\ Len(t) = Len(u) + 1 /\ t[1] = x0
        /\ \A k \in 1 .. Len(u) : t[k + 1] = u[k]
    BY <2>5, Prefixed
  <2> HIDE DEF t
  <2>8. Len(t) \in 2 .. MaxSteps + 2 /\ t[Len(t)] = x
    <3>1. Len(u) \in 1 .. Len(u)
      BY <1>0, <2>5
    <3>2. t[Len(u) + 1] = x
      BY <2>5, <2>7, <3>1
    <3>3. Len(t) \in 2 .. MaxSteps + 2
      <4>1. Len(u) \in 2 .. MaxSteps + 2 /\ Len(u) <= MaxSteps + 1 /\ Len(t) = Len(u) + 1
        BY <2>4, <2>5, <2>7
      <4>2. MaxSteps \in Nat
        BY <1>0
      <4>3. QED  BY ONLY <4>1, <4>2
    <3>4. QED  BY <2>7, <3>2, <3>3
  <2>9. t[2] = h
    <3>1. 1 \in 1 .. Len(u) /\ 1 + 1 = 2
      BY <1>0, <2>5
    <3>2. QED  BY <2>6, <2>7, <3>1
  <2>10. ASSUME NEW k \in 1 .. Len(t) - 1
         PROVE  /\ Between(t[1], t[k + 1], x) /\ Between(t[k], t[k + 1], x)
                /\ Abs(x - t[1]) <= MaxSteps * Sub => Abs(t[k + 1] - t[k]) <= Sub
    <3>1. CASE k = 1
      <4>1. t[k + 1] = h /\ t[k] = x0
        BY <2>7, <2>9, <3>1
      <4>2. QED  BY <1>0, <2>1, <2>7, <4>1
    <3>2. CASE k # 1
      <4>1. k - 1 \in 1 .. Len(u) - 1 /\ (k - 1) + 1 = k
        BY <2>5, <2>7, <3>2
      <4>2. t[k + 1] = u[k] /\ t[k] = u[k - 1]
        <5>1. k \in 1 .. Len(u) /\ k - 1 \in 1 .. Len(u)
          BY <2>5, <4>1
        <5>2. t[(k - 1) + 1] = u[k - 1]
          BY <2>7, <5>1
        <5>3. QED  BY <2>7, <4>1, <5>1, <5>2
      <4>3. u[k] \in Nat
        BY <2>5, <4>1, ElementOfSeq
      <4>4. Between(u[1], u[(k - 1) + 1], x) /\ Between(u[k - 1], u[(k - 1) + 1], x)
        BY <2>4, <4>1 DEF SmoothTo
      <4>5. Abs(x - u[1]) <= MaxSteps * Sub => Abs(u[(k - 1) + 1] - u[k - 1]) <= Sub
        BY <2>4, <4>1 DEF SmoothTo
      <4>6. Between(x0, u[k], x)
        BY <2>1, <2>6, <4>1, <4>3, <4>4 DEF Between
      <4>7. Abs(x - x0) <= MaxSteps * Sub => Abs(x - h) <= MaxSteps * Sub
        <5>1. MaxSteps * Sub \in Int /\ Abs(x - x0) \in Int /\ Abs(x - h) \in Int
          BY <1>0, <2>1 DEF Abs
        <5>2. QED  BY <2>1, <5>1
      <4>8. QED  BY <2>6, <2>7, <4>1, <4>2, <4>4, <4>5, <4>6, <4>7
    <3>3. QED  BY <3>1, <3>2
  <2>11. Abs(t[2] - t[1]) <= Hyst
    BY <1>0, <2>1, <2>7, <2>9
  <2>12. SmoothTo(t, x, ~hasMoved)
    BY <2>7, <2>8, <2>10, <2>11 DEF SmoothTo
  <2>13. QED  BY <2>2, <2>3, <2>12 DEF t
<1>2. CASE ~(~hasMoved /\ Abs(x - x0) > Hyst)
  <2>1. MovePath(x0, x, hasMoved) = Subdivide(x0, x) \o <<x>>
    BY <1>2 DEF MovePath
  <2>2. ~hasMoved => Abs(x - x0) <= Hyst
    BY <1>0, <1>2 DEF Abs
  <2>3. QED  BY <2>1, <2>2, SubdivideSmooth
<1>3. QED  BY <1>1, <1>2

-----------------------------------------------------------------------------
(***************************************************************************)
(* The inductive invariant: what was last accepted of a finger is on the    *)
(* sensor, Function $12 tracks two fingers at most, and the clients have    *)
(* been told what the driver holds.                                         *)
(***************************************************************************)
Limit == IF env.f12 THEN MaxX ELSE F11MaxX

LastOnSensor == \A f \in Fingers : lastX[f] <= Limit

TwoFingers == env.f12 => active \subseteq {0, 1}

ToldAll ==
    ~env.noMem => fDown = active /\ \A f \in fDown : fX[f] = Clamp(lastX[f])

TouchInv == TypeOK /\ LastOnSensor /\ TwoFingers /\ ToldAll

LEMMA LastX ==
    ASSUME TouchInv, NEW f \in Fingers
    PROVE  lastX[f] \in Nat /\ lastX[f] <= Limit /\ lastX[f] \in 0 .. F11MaxX + MaxX
<1>1. MaxX \in Nat /\ F11MaxX \in Nat /\ \A x \in Positions : x \in Nat
    BY TouchAssumption
<1>2. lastX[f] \in Positions \cup {0} /\ lastX[f] <= Limit
    BY DEF TouchInv, TypeOK, LastOnSensor
<1>3. lastX[f] \in Nat
    BY <1>1, <1>2
<1>4. Limit \in Nat /\ Limit <= F11MaxX + MaxX
    BY <1>1 DEF Limit
<1>5. QED  BY <1>1, <1>2, <1>3, <1>4

(* A turn's calls: for a moved or new finger a path that ends at its place, *)
(* for a lifted one its last place, and all of them on the sensor.          *)
LEMMA CallsOf ==
    ASSUME TouchInv, NEW g \in [Fingers -> Positions \cup {Up}],
           NEW f \in Fingers, f \in Parsed, Down(g, f)
    PROVE  /\ g[f] \in Positions /\ g[f] \in Nat /\ g[f] <= Limit
           /\ Path(g, f) \in Seq(Nat) /\ Len(Path(g, f)) \in 1 .. MaxSteps + 1
           /\ Path(g, f)[Len(Path(g, f))] = g[f]
           /\ \A k \in 1 .. Len(Path(g, f)) :
                 Path(g, f)[k] \in 0 .. F11MaxX + MaxX
<1>0. /\ MaxX \in Nat /\ F11MaxX \in Nat /\ MaxSteps \in Nat \ {0} /\ Positions \subseteq Nat
    BY TouchAssumption
<1>1. g[f] \in Positions /\ g[f] \in Nat /\ g[f] <= Limit
    BY <1>0 DEF Down, DownF12, DownF11, Limit
<1>2. lastX[f] \in Nat /\ lastX[f] <= Limit /\ moved[f] \in BOOLEAN
    BY LastX DEF TouchInv, TypeOK
<1>3. Limit \in Nat /\ Limit <= F11MaxX + MaxX
    BY <1>0 DEF Limit
<1>4. CASE env.f12 /\ f \in active
  <2> DEFINE r == MovePath(lastX[f], g[f], moved[f])
             t == <<lastX[f]>> \o r
  <2>1. Path(g, f) = r
    BY <1>4 DEF Path
  <2>2. SmoothTo(t, g[f], ~moved[f])
    BY <1>1, <1>2, MovePathSmooth
  <2>3. r \in Seq(Nat)
    BY <1>1, <1>2, MovePathSeq
  <2>4. /\ t \in Seq(Nat) /\ Len(t) = Len(r) + 1 /\ t[1] = lastX[f]
        /\ \A k \in 1 .. Len(r) : t[k + 1] = r[k]
    BY <1>2, <2>3, Prefixed
  <2>5. Len(r) \in Nat
    BY <2>3, LenProperties
  <2> HIDE DEF r, t
  <2>6. Len(t) \in 2 .. MaxSteps + 2 /\ t[Len(t)] = g[f]
    BY <2>2 DEF SmoothTo
  <2>7. Len(r) \in 1 .. MaxSteps + 1 /\ r[Len(r)] = g[f]
    <3>1. Len(r) \in 1 .. MaxSteps + 1 /\ Len(r) \in 1 .. Len(r)
      BY <1>0, <2>4, <2>5, <2>6
    <3>2. QED  BY <2>4, <2>6, <3>1
  <2>8. ASSUME NEW k \in 1 .. Len(r) PROVE r[k] \in 0 .. F11MaxX + MaxX
    <3>1. k \in 1 .. Len(t) - 1
      BY <2>4, <2>5
    <3>2. Between(t[1], t[k + 1], g[f])
      BY <2>2, <3>1 DEF SmoothTo
    <3>3. Between(lastX[f], r[k], g[f]) /\ r[k] \in Nat
      BY <2>3, <2>4, <3>2, ElementOfSeq
    <3>4. QED  BY <1>0, <1>1, <1>2, <1>3, <3>3 DEF Between
  <2>9. QED  BY <1>1, <2>1, <2>3, <2>7, <2>8
<1>5. CASE ~(env.f12 /\ f \in active)
  <2>1. Path(g, f) = <<g[f]>>
    BY <1>5 DEF Path
  <2>2. g[f] \in 0 .. F11MaxX + MaxX
    BY <1>0, <1>1, <1>3
  <2>3. <<g[f]>> \in Seq(Nat) /\ Len(<<g[f]>>) = 1 /\ <<g[f]>>[1] = g[f]
    BY <1>1
  <2>4. QED  BY <1>0, <1>1, <2>1, <2>2, <2>3
<1>6. QED  BY <1>4, <1>5

(***************************************************************************)
(* What touch() does with calls that are not empty for the fingers in down  *)
(* and up: types, and without failures that clients learn the last call.    *)
(***************************************************************************)
LEMMA TouchTypes ==
    ASSUME NEW down \in SUBSET Fingers, NEW up \in SUBSET Fingers, NEW calls,
           calls \in [Fingers -> Seq(Nat)], touch(down, up, calls),
           fX \in [Fingers -> 0 .. MaxX], fDown \subseteq Fingers
    PROVE  fX' \in [Fingers -> 0 .. MaxX] /\ fDown' \subseteq Fingers
<1>1. PICK ok \in LastDone(calls) :
        LET done == {f \in Fingers : ok[f] > 0} IN
        /\ fDown' = (fDown \cup (down \cap done)) \ (up \cap done)
        /\ fX' = [f \in Fingers |-> IF f \in down \cap done
                                    THEN Clamp(calls[f][ok[f]]) ELSE fX[f]]
    BY DEF touch
<1>2. MaxX \in Nat /\ MaxSteps \in Nat
    BY TouchAssumption
<1>3. ASSUME NEW f \in Fingers, ok[f] > 0 PROVE Clamp(calls[f][ok[f]]) \in 0 .. MaxX
  <2>1. Len(calls[f]) \in Nat
    BY LenProperties
  <2>2. ok[f] \in 1 .. Len(calls[f])
    <3>1. CASE env.noMem
      <4>1. ok \in [Fingers -> 0 .. MaxSteps + 1] /\ ok[f] <= Len(calls[f])
        BY <3>1 DEF LastDone
      <4>2. QED  BY <1>2, <1>3, <2>1, <4>1
    <3>2. CASE ~env.noMem
      <4>1. ok = [e \in Fingers |-> Len(calls[e])]
        BY <3>2 DEF LastDone
      <4>2. QED  BY <1>3, <2>1, <4>1
    <3>3. QED  BY <3>1, <3>2
  <2>3. calls[f][ok[f]] \in Nat
    BY <2>2, ElementOfSeq
  <2>4. QED  BY <1>2, <2>3 DEF Clamp
<1>4. QED  BY <1>1, <1>3

LEMMA TouchTells ==
    ASSUME NEW down \in SUBSET Fingers, NEW up \in SUBSET Fingers, NEW calls,
           calls \in [Fingers -> Seq(Nat)], touch(down, up, calls), ~env.noMem,
           \A f \in down \cup up : Len(calls[f]) > 0
    PROVE  /\ fDown' = (fDown \cup down) \ up
           /\ \A f \in down : fX'[f] = Clamp(calls[f][Len(calls[f])])
<1>1. PICK ok \in LastDone(calls) :
        LET done == {f \in Fingers : ok[f] > 0} IN
        /\ fDown' = (fDown \cup (down \cap done)) \ (up \cap done)
        /\ fX' = [f \in Fingers |-> IF f \in down \cap done
                                    THEN Clamp(calls[f][ok[f]]) ELSE fX[f]]
    BY DEF touch
<1>2. ok = [f \in Fingers |-> Len(calls[f])]
    BY DEF LastDone
<1>3. down \cap {f \in Fingers : ok[f] > 0} = down /\ up \cap {f \in Fingers : ok[f] > 0} = up
    BY <1>2
<1>4. QED  BY <1>1, <1>2, <1>3

(* A turn with finger data.                                                 *)
LEMMA ApplyFingersStep ==
    ASSUME TouchInv, ApplyFingers
    PROVE  TouchInv'
<1> DEFINE g == raw[1]
           down == {f \in Parsed : Down(g, f)}
           up == (Parsed \ down) \cap active
           calls == [f \in Fingers |-> IF f \in down THEN Path(g, f)
                                       ELSE IF f \in up THEN <<lastX[f]>> ELSE <<>>]
<1>0. TypeOK
    BY DEF TouchInv
<1>1. /\ MaxX \in Nat /\ F11MaxX \in Nat /\ Positions \subseteq Nat /\ MaxSteps \in Nat
      /\ MaxFails \in Nat
    BY TouchAssumption
<1>2. g \in [Fingers -> Positions \cup {Up}]
    BY <1>0 DEF ApplyFingers, TypeOK
<1>3. Parsed \subseteq Fingers /\ down \subseteq Fingers /\ up \subseteq Fingers
    BY DEF Parsed
<1>4. /\ active' = down
      /\ lastX' = [f \in Fingers |-> IF f \in down THEN g[f] ELSE lastX[f]]
      /\ moved' = [f \in Fingers |->
            IF f \in down /\ f \in active
            THEN moved[f] \/ (env.f12 /\ Abs(g[f] - lastX[f]) > Jitter)
            ELSE IF f \in down \cup up THEN FALSE ELSE moved[f]]
      /\ touch(down, up, calls)
    BY DEF ApplyFingers
<1>5. /\ fails' = (IF env.f12 THEN 0 ELSE fails) /\ raw' = <<>> /\ pc' = "top"
      /\ UNCHANGED <<env, glass, attn, contacts, noIrq, tick>>
    BY DEF ApplyFingers, sensor
<1>6. ASSUME NEW f \in down
      PROVE  /\ g[f] \in Positions /\ g[f] \in Nat /\ g[f] <= Limit
             /\ calls[f] \in Seq(Nat) /\ Len(calls[f]) \in 1 .. MaxSteps + 1
             /\ calls[f][Len(calls[f])] = g[f]
             /\ \A k \in 1 .. Len(calls[f]) : calls[f][k] \in 0 .. F11MaxX + MaxX
  <2>1. f \in Fingers /\ f \in Parsed /\ Down(g, f) /\ calls[f] = Path(g, f)
    BY <1>3
  <2> HIDE DEF g, down, calls
  <2>2. QED  BY <1>2, <2>1, CallsOf
<1>7. ASSUME NEW f \in Fingers
      PROVE  lastX[f] \in Nat /\ lastX[f] <= Limit /\ lastX[f] \in 0 .. F11MaxX + MaxX
    BY LastX
<1>8. ASSUME NEW f \in Fingers, f \notin down
      PROVE  /\ calls[f] \in Seq(Nat) /\ (f \in up => Len(calls[f]) = 1)
             /\ \A k \in 1 .. Len(calls[f]) : calls[f][k] \in 0 .. F11MaxX + MaxX
  <2>1. CASE f \in up
    <3>1. calls[f] = <<lastX[f]>>
      BY <1>8, <2>1
    <3>2. <<lastX[f]>> \in Seq(Nat) /\ Len(<<lastX[f]>>) = 1 /\ <<lastX[f]>>[1] = lastX[f]
      BY <1>7
    <3> HIDE DEF calls, up, down, g
    <3>3. QED  BY <1>7, <3>1, <3>2
  <2>2. CASE f \notin up
    <3>1. calls[f] = <<>>
      BY <1>8, <2>2
    <3>2. <<>> \in Seq(Nat) /\ Len(<<>>) = 0
      OBVIOUS
    <3> HIDE DEF calls, up, down, g
    <3>3. QED  BY <2>2, <3>1, <3>2
  <2>3. QED  BY <2>1, <2>2
<1>9. calls \in [Fingers -> Seq(Nat)] /\ \A f \in down \cup up : Len(calls[f]) > 0
  <2>1. \A f \in Fingers : calls[f] \in Seq(Nat)
    BY <1>6, <1>8
  <2>2. calls = [f \in Fingers |-> calls[f]]
    OBVIOUS
  <2>3. up \cap down = {}
    OBVIOUS
  <2> HIDE DEF calls, down, up, g
  <2>4. (\A f \in down : Len(calls[f]) > 0) /\ \A f \in up : Len(calls[f]) > 0
    BY <1>1, <1>3, <1>6, <1>8, <2>3
  <2>5. QED  BY <2>1, <2>2, <2>3, <2>4
<1>10. sent' = calls
    BY <1>4 DEF touch
<1>a. \A f \in Fingers : \A k \in DOMAIN calls[f] : calls[f][k] \in 0 .. F11MaxX + MaxX
    <2> HIDE DEF calls, down
    <2>1. QED  BY <1>6, <1>8, <1>9, LenProperties
<1> HIDE DEF calls, down, up, g
<1>11. fX' \in [Fingers -> 0 .. MaxX] /\ fDown' \subseteq Fingers
    BY <1>0, <1>3, <1>4, <1>9, TouchTypes DEF TypeOK
<1>12. lastX' \in [Fingers -> Positions \cup {0}] /\ moved' \in [Fingers -> BOOLEAN]
    BY <1>0, <1>4, <1>6 DEF TypeOK
<1>13. TypeOK'
  <2>1. fails' \in 0 .. MaxFails
    BY <1>0, <1>1, <1>5 DEF TypeOK
  <2>2. \A f \in Fingers : \A k \in DOMAIN sent'[f] : sent'[f][k] \in 0 .. F11MaxX + MaxX
    BY <1>10, <1>a
  <2>3. active' \subseteq Fingers
    BY <1>3, <1>4
  <2>4. QED  BY <1>0, <1>5, <1>11, <1>12, <2>1, <2>2, <2>3 DEF TypeOK
<1>14. LastOnSensor'
    BY <1>4, <1>5, <1>6, <1>7 DEF LastOnSensor, Limit
<1>15. TwoFingers'
  <2>1. env.f12 => down \subseteq {0, 1}
    BY DEF down, Parsed
  <2>2. QED  BY <1>4, <1>5, <2>1 DEF TwoFingers
<1>16. ToldAll'
  <2>1. SUFFICES ASSUME ~env.noMem
                 PROVE  fDown' = active' /\ \A f \in fDown' : fX'[f] = Clamp(lastX'[f])
    BY <1>5 DEF ToldAll, Clamp
  <2>2. /\ fDown' = (fDown \cup down) \ up
        /\ \A f \in down : fX'[f] = Clamp(calls[f][Len(calls[f])])
    <3>1. down \in SUBSET Fingers /\ up \in SUBSET Fingers /\ ~env.noMem
      BY <1>3, <2>1
    <3>2. touch(down, up, calls)
      BY <1>4
    <3>3. QED  BY <1>9, <3>1, <3>2, TouchTells
  <2>3. active \subseteq Parsed
    BY <1>0 DEF TouchInv, TwoFingers, Parsed, TypeOK
  <2>4. fDown' = down
    BY <2>1, <2>2, <2>3 DEF TouchInv, ToldAll, up
  <2>5. \A f \in down : lastX'[f] = g[f] /\ fX'[f] = Clamp(g[f])
    BY <1>3, <1>4, <1>6, <2>2
  <2>6. QED  BY <1>4, <2>4, <2>5
<1>17. QED  BY <1>13, <1>14, <1>15, <1>16 DEF TouchInv

(* A turn whose read failed, which may be the one that releases everything. *)
LEMMA ApplyFailureStep ==
    ASSUME TouchInv, ApplyFailure
    PROVE  TouchInv'
<1> DEFINE calls == [f \in Fingers |-> IF f \in active THEN <<lastX[f]>> ELSE <<>>]
<1>0. TypeOK /\ pc' = "top" /\ UNCHANGED <<env, glass, attn, contacts, noIrq, tick, raw>>
    BY DEF TouchInv, ApplyFailure, sensor, scan
<1>1. MaxFails \in Nat \ {0} /\ MaxX \in Nat /\ F11MaxX \in Nat
    BY TouchAssumption
<1>2. CASE touch({}, active, calls) /\ active # {} /\ active' = {} /\ fails' = 0
           /\ UNCHANGED lastX /\ moved' = [f \in Fingers |-> f \notin active /\ moved[f]]
  <2>1. active \subseteq Fingers /\ sent' = calls
    BY <1>0, <1>2 DEF TypeOK, touch
  <2>2. ASSUME NEW f \in Fingers
        PROVE  /\ calls[f] \in Seq(Nat) /\ (f \in active => Len(calls[f]) > 0)
               /\ \A k \in DOMAIN calls[f] : calls[f][k] \in 0 .. F11MaxX + MaxX
    <3>1. lastX[f] \in Nat /\ lastX[f] \in 0 .. F11MaxX + MaxX
      BY LastX
    <3>2. CASE f \in active
      <4>1. calls[f] = <<lastX[f]>>
        BY <3>2
      <4> HIDE DEF calls
      <4>2. <<lastX[f]>> \in Seq(Nat) /\ Len(<<lastX[f]>>) = 1 /\ <<lastX[f]>>[1] = lastX[f]
            /\ DOMAIN <<lastX[f]>> = {1}
        BY <3>1
      <4>3. QED  BY <3>1, <4>1, <4>2
    <3>3. CASE f \notin active
      <4>1. calls[f] = <<>>
        BY <3>3
      <4> HIDE DEF calls
      <4>2. <<>> \in Seq(Nat) /\ DOMAIN <<>> = {}
        OBVIOUS
      <4>3. QED  BY <3>3, <4>1, <4>2
    <3>4. QED  BY <3>2, <3>3
  <2>3. calls \in [Fingers -> Seq(Nat)] /\ \A f \in {} \cup active : Len(calls[f]) > 0
    <3>1. calls = [f \in Fingers |-> calls[f]]
      OBVIOUS
    <3> HIDE DEF calls
    <3>2. QED  BY <2>1, <2>2, <3>1
  <2>4. \A f \in Fingers : \A k \in DOMAIN sent'[f] : sent'[f][k] \in 0 .. F11MaxX + MaxX
    BY <2>1, <2>2
  <2> HIDE DEF calls
  <2>5. {} \in SUBSET Fingers /\ active \in SUBSET Fingers /\ touch({}, active, calls)
    BY <1>2, <2>1
  <2>6. fX' \in [Fingers -> 0 .. MaxX] /\ fDown' \subseteq Fingers
    BY <1>0, <2>3, <2>5, TouchTypes DEF TypeOK
  <2>7. ~env.noMem => fDown' = (fDown \cup {}) \ active
    BY <2>3, <2>5, TouchTells
  <2>8. TypeOK'
    <3>1. moved' \in [Fingers -> BOOLEAN]
      BY <1>0, <1>2 DEF TypeOK
    <3>2. QED  BY <1>0, <1>1, <1>2, <2>4, <2>6, <3>1 DEF TypeOK
  <2>9. LastOnSensor' /\ TwoFingers'
    BY <1>0, <1>2 DEF TouchInv, LastOnSensor, TwoFingers, Limit
  <2>10. ToldAll'
    BY <1>0, <1>2, <2>7 DEF TouchInv, ToldAll
  <2>11. QED  BY <2>8, <2>9, <2>10 DEF TouchInv
<1>3. CASE UNCHANGED <<active, lastX, moved, hid>> /\ fails' \in 0 .. MaxFails
  <2>1. TypeOK'
    BY <1>0, <1>3 DEF TypeOK, hid
  <2>2. QED
    BY <1>0, <1>3, <2>1 DEF TouchInv, LastOnSensor, TwoFingers, ToldAll, Limit, Clamp, hid
<1>4. fails + 1 < MaxFails /\ fails' = fails + 1 => fails' \in 0 .. MaxFails
    BY <1>0, <1>1 DEF TypeOK
<1>5. fails' = fails => fails' \in 0 .. MaxFails
    BY <1>0 DEF TypeOK
<1>6. QED
  <2>1. CASE env.f12 /\ active # {} /\ fails + 1 >= MaxFails
    BY <1>2, <2>1 DEF ApplyFailure
  <2>2. CASE env.f12 /\ active # {} /\ ~(fails + 1 >= MaxFails)
    <3>1. fails + 1 < MaxFails
      BY <1>0, <1>1, <2>2 DEF TypeOK
    <3>2. QED  BY <1>3, <1>4, <2>2, <3>1 DEF ApplyFailure
  <2>3. CASE ~(env.f12 /\ active # {})
    BY <1>3, <1>5, <2>3 DEF ApplyFailure, track
  <2>4. QED  BY <2>1, <2>2, <2>3

(* The steps that only read.                                               *)
LEMMA ReadingStep ==
    ASSUME TouchInv,
           \/ SamplePin \/ ReadStatus \/ ReadFingers \/ ClearAttention \/ Report
           \/ \E f \in Fingers, p \in Positions \cup {Up} : Contact(f, p)
    PROVE  TouchInv'
<1> USE DEF sensor, scan, track, hid
<1>0. UNCHANGED <<env, track, hid>> /\ TypeOK
    BY DEF TouchInv, SamplePin, ReadStatus, ReadFingers, ClearAttention, Report, Contact
<1>1. HeldTicks \in Nat \ {0} /\ IdleTicks \in Nat \ {0} /\ MaxContacts \in Nat
    BY TouchAssumption
<1>2. /\ glass' \in [Fingers -> Positions \cup {Up}] /\ attn' \in BOOLEAN
      /\ contacts' \in 0 .. MaxContacts
  <2>1. CASE SamplePin \/ ReadStatus \/ ReadFingers \/ ClearAttention \/ Report
    BY <1>0, <2>1 DEF TypeOK, SamplePin, ReadStatus, ReadFingers, ClearAttention, Report
  <2>2. ASSUME NEW f \in Fingers, NEW p \in Positions \cup {Up}, Contact(f, p)
        PROVE  /\ glass' \in [Fingers -> Positions \cup {Up}] /\ attn' \in BOOLEAN
               /\ contacts' \in 0 .. MaxContacts
    <3>1. contacts + 1 \in 0 .. MaxContacts
      BY <1>0, <1>1, <2>2 DEF TypeOK, Contact
    <3>2. QED  BY <1>0, <2>2, <3>1 DEF TypeOK, Contact
  <2>3. QED  BY <2>1, <2>2
<1>3. noIrq' \in 0 .. HeldTicks /\ tick' \in 0 .. IdleTicks - 1
  <2>1. CASE SamplePin
    <3>1. (tick + 1) % IdleTicks \in 0 .. IdleTicks - 1
      BY <1>0, <1>1 DEF TypeOK
    <3>2. QED  BY <1>0, <1>1, <2>1, <3>1 DEF TypeOK, SamplePin
  <2>2. CASE ReadFingers
    <3>1. noIrq' = noIrq \/ noIrq' = 0
      BY <2>2 DEF ReadFingers
    <3>2. tick' = tick
      BY <2>2 DEF ReadFingers
    <3>3. QED  BY <1>0, <1>1, <3>1, <3>2 DEF TypeOK
  <2>3. CASE ~SamplePin /\ ~ReadFingers
    <3>1. noIrq' = noIrq /\ tick' = tick
      BY <2>3 DEF ReadStatus, ClearAttention, Report, Contact
    <3>2. QED  BY <1>0, <3>1 DEF TypeOK
  <2>4. QED  BY <2>1, <2>2, <2>3
<1>4. raw' \in {<<>>} \cup {<<g>> : g \in [Fingers -> Positions \cup {Up}]}
  <2>1. CASE ReadFingers
    <3>1. raw' = <<glass>> \/ raw' = <<>>
      BY <2>1 DEF ReadFingers
    <3>2. QED  BY <1>0, <3>1 DEF TypeOK
  <2>2. CASE ~ReadFingers
    <3>1. raw' = raw
      BY <2>2 DEF SamplePin, ReadStatus, ClearAttention, Report, Contact
    <3>2. QED  BY <1>0, <3>1 DEF TypeOK
  <2>3. QED  BY <2>1, <2>2
<1>5. pc' \in {"top", "status", "read", "clear", "apply"}
    BY <1>0 DEF TypeOK, SamplePin, ReadStatus, ReadFingers, ClearAttention, Report, Contact
<1>6. TypeOK'
    BY <1>0, <1>2, <1>3, <1>4, <1>5 DEF TypeOK
<1>7. QED
    BY <1>0, <1>6 DEF TouchInv, LastOnSensor, TwoFingers, ToldAll, Limit, Clamp

LEMMA InitTouch == Init => TouchInv
<1> SUFFICES ASSUME Init PROVE TouchInv
    OBVIOUS
<1>1. /\ HeldTicks \in Nat \ {0} /\ IdleTicks \in Nat \ {0} /\ MaxContacts \in Nat
      /\ MaxX \in Nat /\ F11MaxX \in Nat /\ MaxFails \in Nat
    BY TouchAssumption
<1>2. TypeOK
  <2>0. DOMAIN << >> = {}
    OBVIOUS
  <2>1. \A f \in Fingers : DOMAIN sent[f] = {}
    <3>1. \A f \in Fingers : sent[f] = << >>
      BY DEF Init
    <3>2. QED  BY <2>0, <3>1
  <2>2. /\ 0 \in 0 .. HeldTicks /\ 0 \in 0 .. IdleTicks - 1 /\ 0 \in 0 .. MaxContacts
        /\ 0 \in 0 .. MaxX /\ 0 \in 0 .. MaxFails
    BY <1>1
  <2>3. glass \in [Fingers -> Positions \cup {Up}] /\ lastX \in [Fingers -> Positions \cup {0}]
    BY DEF Init
  <2>4. fX \in [Fingers -> 0 .. MaxX] /\ moved \in [Fingers -> BOOLEAN]
    BY <2>2 DEF Init
  <2>5. QED  BY <2>1, <2>2, <2>3, <2>4 DEF Init, TypeOK
<1>3. LastOnSensor /\ TwoFingers /\ ToldAll
    BY <1>1 DEF Init, LastOnSensor, TwoFingers, ToldAll, Limit
<1>4. QED  BY <1>2, <1>3 DEF TouchInv

LEMMA NextTouch == TouchInv /\ [Next]_vars => TouchInv'
<1> SUFFICES ASSUME TouchInv, [Next]_vars PROVE TouchInv'
    OBVIOUS
<1>1. CASE Next
    BY <1>1, ApplyFingersStep, ApplyFailureStep, ReadingStep DEF Next, Thread
<1>2. CASE UNCHANGED vars
    BY <1>2 DEF vars, sensor, scan, track, hid, TouchInv, TypeOK, LastOnSensor, TwoFingers,
                ToldAll, Limit, Clamp
<1>3. QED  BY <1>1, <1>2

-----------------------------------------------------------------------------
(* The invariant holds throughout.                                         *)
THEOREM TouchInvariant == Spec => []TouchInv
  BY InitTouch, NextTouch, PTL DEF Spec

(* Type correctness: no coordinate leaves the panel or the sensor.          *)
THEOREM ScanTypes == Spec => []TypeOK
<1>1. TouchInv => TypeOK
    BY DEF TouchInv
<1>2. QED  BY <1>1, TouchInvariant, PTL

(* The clients are told of every finger the driver takes up or lets go.     *)
THEOREM ClientsFollowDriver == Spec => []HidFollowsDriver
<1>1. TouchInv => HidFollowsDriver
    BY DEF TouchInv, ToldAll, HidFollowsDriver
<1>2. QED  BY <1>1, TouchInvariant, PTL

(* Every turn's calls for a finger that stays are a smooth path.            *)
THEOREM PathsAreSmooth == Spec => PathIsSmooth
<1>1. ASSUME TouchInv, NEW f \in Fingers, ApplyFingers, env.f12, f \in active \cap active'
      PROVE  LET n == Len(sent'[f])
                 p == Points(f)
             IN  /\ p[n + 1] = lastX'[f]
                 /\ \A k \in 1 .. n : Between(p[k], p[k + 1], p[n + 1])
                 /\ ~moved[f] /\ n > 1 => Abs(p[2] - p[1]) <= Hyst
                 /\ Abs(p[n + 1] - p[1]) <= MaxSteps * Sub =>
                       \A k \in 1 .. n : Abs(p[k + 1] - p[k]) <= Sub
  <2> DEFINE g == raw[1]
             r == MovePath(lastX[f], g[f], moved[f])
             t == <<lastX[f]>> \o r
  <2>1. g \in [Fingers -> Positions \cup {Up}]
    BY <1>1 DEF ApplyFingers, TouchInv, TypeOK
  <2>2. f \in Parsed /\ Down(g, f) /\ lastX'[f] = g[f] /\ sent'[f] = Path(g, f)
    BY <1>1 DEF ApplyFingers, touch
  <2>3. sent'[f] = r
    BY <1>1, <2>2 DEF Path
  <2>4. g[f] \in Nat
    BY <1>1, <2>1, <2>2, CallsOf
  <2>5. lastX[f] \in Nat /\ moved[f] \in BOOLEAN
    BY <1>1, LastX DEF TouchInv, TypeOK
  <2>6. SmoothTo(t, g[f], ~moved[f]) /\ r \in Seq(Nat)
    BY <2>4, <2>5, MovePathSmooth, MovePathSeq
  <2>7. Len(t) = Len(r) + 1 /\ t[1] = lastX[f] /\ Len(r) \in Nat
    BY <2>5, <2>6, Prefixed, LenProperties
  <2>8. Points(f) = t
    BY <2>3 DEF Points
  <2> HIDE DEF t, r, g
  <2>9. Len(t) - 1 = Len(r) /\ (Len(r) > 1 => Len(t) > 2)
    BY <2>7
  <2>10. QED  BY <2>2, <2>3, <2>6, <2>7, <2>8, <2>9 DEF SmoothTo
<1>2. TouchInv /\ [Next]_vars =>
        [\A f \in Fingers : ApplyFingers /\ env.f12 /\ f \in active \cap active' =>
         LET n == Len(sent'[f])
             p == Points(f)
         IN  /\ p[n + 1] = lastX'[f]
             /\ \A k \in 1 .. n : Between(p[k], p[k + 1], p[n + 1])
             /\ ~moved[f] /\ n > 1 => Abs(p[2] - p[1]) <= Hyst
             /\ Abs(p[n + 1] - p[1]) <= MaxSteps * Sub =>
                   \A k \in 1 .. n : Abs(p[k + 1] - p[k]) <= Sub]_vars
    BY <1>1
<1>3. QED  BY <1>2, TouchInvariant, PTL DEF Spec, PathIsSmooth
=============================================================================
