---------------------------- MODULE GeohashProofs ----------------------------
(***************************************************************************)
(* Geohashes are the cells of a grid, at every precision.                    *)
(*                                                                         *)
(* The loops of encode and decode are recursive functions over the bits. That *)
(* such a function exists, and what holds of all its values, is shown by       *)
(* induction over the natural numbers, in the form that every set of them      *)
(* that holds 0 and with a number its successor holds all.                    *)
(***************************************************************************)
EXTENDS Geohash, SequenceTheorems, NaturalsInduction, WellFoundedInduction, TLAPS

(* Induction and recursion over the natural numbers.                         *)

\* A set of natural numbers has a least element.
LEMMA LeastOf ==
    ASSUME NEW T, T \subseteq Nat, T # {}
    PROVE  \E x \in T : \A y \in T : x <= y
  <1>1. PICK x \in T : \A y \in T : ~ (<<y, x>> \in OpToRel(<, Nat))
    BY NatLessThanWellFounded, WFMin
  <1>2. \A y \in Nat : y < x => <<y, x>> \in OpToRel(<, Nat)
    BY <1>1, Z3 DEF OpToRel
  <1>3. \A y \in T : ~ (y < x)
    BY <1>1, <1>2
  <1>4. ASSUME NEW y \in T PROVE x <= y
    <2>1. x \in Nat /\ y \in Nat /\ ~ (y < x)
      BY <1>3
    <2> QED BY <2>1
  <1> QED BY <1>4

\* A set that holds 0, and with a number the next one, holds all natural numbers.
LEMMA Induction ==
    ASSUME NEW S, 0 \in S, \A n \in Nat : n \in S => n + 1 \in S
    PROVE  \A n \in Nat : n \in S
  <1> SUFFICES ASSUME Nat \ S # {} PROVE FALSE
    OBVIOUS
  <1>1. PICK x \in Nat \ S : \A y \in Nat \ S : x <= y
    <2> DEFINE T == Nat \ S
    <2>1. T \subseteq Nat /\ T # {}
      OBVIOUS
    <2>2. \E x \in T : \A y \in T : x <= y
      BY <2>1, LeastOf
    <2> QED BY <2>2
  <1>2. x # 0 /\ x - 1 \in Nat /\ (x - 1) + 1 = x
    OBVIOUS
  <1>3. x - 1 \in S
    BY <1>1, <1>2
  <1> QED BY <1>2, <1>3

\* What a loop that starts with a and takes step in every round computes.
IsLoop(f, X, a, step) ==
    f \in [Nat -> X] /\ f[0] = a /\ \A n \in Nat : f[n + 1] = step[<<f[n], n + 1>>]

\* Such a loop computes something.
LEMMA Recursion ==
    ASSUME NEW X, NEW a \in X, NEW step \in [X \X Nat -> X]
    PROVE  \E f : IsLoop(f, X, a, step)
  <1> DEFINE Runs(n) == {g \in [0..n -> X] :
                            g[0] = a /\ \A k \in 0..n : k # n => g[k + 1] = step[<<g[k], k + 1>>]}
             S == {n \in Nat : \E g : Runs(n) = {g}}
  <1>1. 0 \in S
    <2> DEFINE g == [k \in 0..0 |-> a]
    <2>1. g \in Runs(0)
      BY 0..0 = {0}
    <2>2. ASSUME NEW h \in Runs(0) PROVE h = g
      BY 0..0 = {0}
    <2> HIDE DEF g, Runs
    <2>3. Runs(0) = {g}
      BY <2>1, <2>2
    <2> QED BY <2>3
  <1>2. ASSUME NEW n \in Nat, n \in S PROVE n + 1 \in S
    <2>1. PICK g : Runs(n) = {g}
      BY <1>2
    <2>2. g \in [0..n -> X] /\ g[0] = a /\ \A k \in 0..n : k # n => g[k + 1] = step[<<g[k], k + 1>>]
      BY <2>1
    <2> DEFINE h == [k \in 0..n+1 |-> IF k = n + 1 THEN step[<<g[n], n + 1>>] ELSE g[k]]
    <2>3. g[n] \in X /\ step[<<g[n], n + 1>>] \in X
      BY <2>2
    <2>4. h \in [0..n+1 -> X]
      <3>1. \A k \in 0..n+1 : k # n + 1 => k \in 0..n
        OBVIOUS
      <3> QED BY <2>2, <2>3, <3>1
    <2>5. h[0] = a /\ \A k \in 0..n+1 : k # n + 1 => h[k + 1] = step[<<h[k], k + 1>>]
      <3>1. h[0] = a
        BY <2>2
      <3>2. ASSUME NEW k \in 0..n+1, k # n + 1 PROVE h[k + 1] = step[<<h[k], k + 1>>]
        <4>1. k \in 0..n /\ h[k] = g[k]
          BY <3>2
        <4>2. CASE k = n
          BY <4>1, <4>2
        <4>3. CASE k # n
          BY <4>1, <4>3, <2>2
        <4> QED BY <4>2, <4>3
      <3> QED BY <3>1, <3>2
    <2>6. h \in Runs(n + 1)
      BY <2>4, <2>5
    <2>7. ASSUME NEW i \in Runs(n + 1) PROVE i = h
      <3> DEFINE j == [k \in 0..n |-> i[k]]
      <3>1. i \in [0..n+1 -> X] /\ i[0] = a
            /\ \A k \in 0..n+1 : k # n + 1 => i[k + 1] = step[<<i[k], k + 1>>]
        BY <2>7
      <3>2. j \in [0..n -> X] /\ j[0] = a
        BY <3>1
      <3>3. ASSUME NEW k \in 0..n, k # n PROVE j[k + 1] = step[<<j[k], k + 1>>]
        BY <3>1, <3>3
      <3>4. j \in Runs(n)
        BY <3>2, <3>3
      <3> HIDE DEF j, Runs
      <3>5. j = g
        BY <2>1, <3>4
      <3>6. \A k \in 0..n : i[k] = g[k]
        BY <3>5 DEF j
      <3>7. i[n + 1] = step[<<i[n], n + 1>>]
        BY <3>1
      <3>8. \A k \in 0..n+1 : i[k] = h[k]
        BY <3>6, <3>7
      <3> QED BY <3>1, <2>4, <3>8
    <2> HIDE DEF h, Runs
    <2>8. Runs(n + 1) = {h}
      BY <2>6, <2>7
    <2> QED BY <2>8
  <1> HIDE DEF Runs
  <1>3. \A n \in Nat : n \in S
    <2> HIDE DEF S
    <2> QED BY <1>1, <1>2, Induction
  <1> DEFINE run(n) == CHOOSE g : Runs(n) = {g}
             f == [n \in Nat |-> run(n)[n]]
  <1>4. ASSUME NEW n \in Nat PROVE Runs(n) = {run(n)}
    <2>1. n \in S
      BY <1>3
    <2>2. \E g : Runs(n) = {g}
      BY <2>1
    <2> QED BY <2>2
  <1>5. ASSUME NEW n \in Nat
        PROVE  /\ run(n) \in [0..n -> X] /\ run(n)[0] = a
               /\ \A k \in 0..n : k # n => run(n)[k + 1] = step[<<run(n)[k], k + 1>>]
    <2> HIDE DEF run
    <2>1. run(n) \in Runs(n)
      BY <1>4
    <2> QED BY <2>1 DEF Runs
  <1>6. ASSUME NEW n \in Nat PROVE run(n + 1)[n] = run(n)[n]
    <2> HIDE DEF run
    <2> DEFINE j == [k \in 0..n |-> run(n + 1)[k]]
    <2>1. /\ run(n + 1) \in [0..n+1 -> X] /\ run(n + 1)[0] = a
          /\ \A k \in 0..n+1 : k # n + 1 => run(n + 1)[k + 1] = step[<<run(n + 1)[k], k + 1>>]
      BY <1>5, n + 1 \in Nat
    <2>2. j \in [0..n -> X] /\ j[0] = a
      BY <2>1
    <2>3. ASSUME NEW k \in 0..n, k # n PROVE j[k + 1] = step[<<j[k], k + 1>>]
      BY <2>1, <2>3
    <2>4. j \in Runs(n)
      BY <2>2, <2>3 DEF Runs
    <2> HIDE DEF j
    <2>5. j = run(n)
      BY <2>4, <1>4
    <2> QED BY <2>5 DEF j
  <1> HIDE DEF run
  <1>7. f \in [Nat -> X]
    <2>1. \A n \in Nat : run(n)[n] \in X
      BY <1>5
    <2> QED BY <2>1
  <1>8. f[0] = a
    BY <1>5
  <1>9. ASSUME NEW n \in Nat PROVE f[n + 1] = step[<<f[n], n + 1>>]
    <2>1. run(n + 1)[n + 1] = step[<<run(n + 1)[n], n + 1>>]
      BY <1>5, n + 1 \in Nat, n \in 0..n+1, n # n + 1
    <2> QED BY <2>1, <1>6
  <1> QED BY <1>7, <1>8, <1>9 DEF IsLoop

-----------------------------------------------------------------------------
(* Arithmetic.                                                              *)

\* The powers of two.
LEMMA Powers ==
    /\ Pow2 \in [Nat -> Nat]
    /\ Pow2[0] = 1
    /\ \A n \in Nat : Pow2[n + 1] = 2 * Pow2[n]
  <1> DEFINE step == [x \in Nat \X Nat |-> 2 * x[1]]
  <1>1. step \in [Nat \X Nat -> Nat]
    OBVIOUS
  <1>2. PICK f : IsLoop(f, Nat, 1, step)
    <2> HIDE DEF step
    <2>1. 1 \in Nat
      OBVIOUS
    <2> QED BY <1>1, <2>1, Recursion, Zenon
  <1>3. ASSUME NEW n \in Nat PROVE f[n + 1] = 2 * f[n]
    <2>1. <<f[n], n + 1>> \in Nat \X Nat
      BY <1>2 DEF IsLoop
    <2>2. step[<<f[n], n + 1>>] = 2 * f[n]
      BY <2>1
    <2> QED BY <1>2, <2>2 DEF IsLoop
  <1>4. f = [n \in Nat |-> IF n = 0 THEN 1 ELSE 2 * f[n - 1]]
    <2>1. ASSUME NEW n \in Nat, n # 0 PROVE f[n] = 2 * f[n - 1]
      <3>1. n - 1 \in Nat /\ (n - 1) + 1 = n
        BY <2>1
      <3> QED BY <3>1, <1>3
    <2> QED BY <1>2, <2>1 DEF IsLoop
  <1>5. Pow2 = [n \in Nat |-> IF n = 0 THEN 1 ELSE 2 * Pow2[n - 1]]
    BY <1>4 DEF Pow2
  <1>6. \A n \in Nat : Pow2[n + 1] = 2 * Pow2[n]
    BY <1>5
  <1>7. Pow2[0] = 1
    BY <1>5
  <1>8. \A n \in Nat : Pow2[n] \in Nat
    <2> DEFINE S == {n \in Nat : Pow2[n] \in Nat}
    <2>1. 0 \in S /\ \A n \in Nat : n \in S => n + 1 \in S
      BY <1>6, <1>7
    <2> HIDE DEF S
    <2>2. \A n \in Nat : n \in S
      BY <2>1, Induction
    <2> QED BY <2>2 DEF S
  <1> QED BY <1>5, <1>6, <1>7, <1>8

\* They are positive.
LEMMA PowersPositive == \A n \in Nat : Pow2[n] \in Nat /\ Pow2[n] >= 1
  <1> DEFINE S == {n \in Nat : Pow2[n] >= 1}
  <1>1. 0 \in S /\ \A n \in Nat : n \in S => n + 1 \in S
    BY Powers
  <1> HIDE DEF S
  <1>2. \A n \in Nat : n \in S
    BY <1>1, Induction
  <1> QED BY <1>2, Powers DEF S

\* The first of them, which the bits of a letter are worth.
LEMMA SmallPowers == Pow2[0] = 1 /\ Pow2[1] = 2 /\ Pow2[2] = 4 /\ Pow2[3] = 8 /\ Pow2[4] = 16
  <1>1. Pow2[0 + 1] = 2 /\ Pow2[1 + 1] = 2 * Pow2[1]
        /\ Pow2[2 + 1] = 2 * Pow2[2] /\ Pow2[3 + 1] = 2 * Pow2[3]
    BY Powers
  <1> QED BY <1>1, Powers

\* The quotient is the only multiple that leaves a remainder below the divisor.
LEMMA Quotient ==
    ASSUME NEW x \in Int, NEW d \in Nat, d > 0, NEW q \in Int, d * q <= x, x < d * q + d
    PROVE  x \div d = q
  OBVIOUS

\* A number is not below a multiple exactly when its quotient is not below the factor.
LEMMA QuotientAtLeast ==
    ASSUME NEW x \in Int, NEW d \in Nat, d > 0, NEW m \in Int
    PROVE  /\ x \div d \in Int
           /\ d * (x \div d) <= x /\ x < d * (x \div d) + d
           /\ x >= d * m <=> x \div d >= m
  <1> DEFINE q == x \div d
  <1>1. q \in Int /\ d * q <= x /\ x < d * q + d
    OBVIOUS
  <1> HIDE DEF q
  <1>2. q >= m => d * q >= d * m
    BY <1>1
  <1>3. ASSUME ~ (q >= m) PROVE d * q + d <= d * m
    <2>1. q + 1 <= m
      BY <1>1, <1>3
    <2>2. d * (q + 1) <= d * m
      BY <2>1, <1>1
    <2> QED BY <2>2, <1>1
  <1>4. x >= d * m <=> q >= m
    BY <1>1, <1>2, <1>3
  <1> QED BY <1>1, <1>4 DEF q

-----------------------------------------------------------------------------
(* The loops of encode and decode.                                          *)

Ranges == [lat : Int \X Int, lng : Int \X Int]

\* The two ranges that a loop of encode or decode narrows stay ranges.
LEMMA NarrowTyped ==
    ASSUME NEW r \in Ranges, NEW k \in Nat, NEW upper
    PROVE  Narrow(r, k, upper) \in Ranges
  <1>1. Mid(r.lat) \in Int /\ Mid(r.lng) \in Int
    BY DEF Mid, Ranges
  <1>2. Half(r.lat, upper) \in Int \X Int /\ Half(r.lng, upper) \in Int \X Int
    BY <1>1 DEF Half, Ranges
  <1> HIDE DEF IsLng
  <1> QED BY <1>2 DEF Narrow, Ranges

\* They begin as ranges.
LEMMA WorldTyped ==
    ASSUME NEW p \in Nat
    PROVE  World(p) \in Ranges
  <1>1. LatBits(p) \in Nat /\ LngBits(p) \in Nat
    BY DEF LatBits, LngBits
  <1>2. Pow2[LatBits(p)] \in Nat /\ Pow2[LngBits(p)] \in Nat
    BY <1>1, Powers
  <1> QED BY <1>2, GeohashAssumption DEF World, LatRange, LngRange, Ranges

\* A loop of so many rounds computes the ranges after each of them.
LEMMA Rounds ==
    ASSUME NEW rounds \in Nat, NEW a \in Ranges, NEW step \in [Ranges \X Nat -> Ranges]
    PROVE  \E f \in [0..rounds -> Ranges] :
              f[0] = a /\ \A k \in 1..rounds : f[k] = step[<<f[k - 1], k>>]
  <1> HIDE DEF Ranges
  <1>1. PICK g : IsLoop(g, Ranges, a, step)
    BY Recursion, Zenon
  <1> DEFINE f == [k \in 0..rounds |-> g[k]]
  <1>2. f \in [0..rounds -> Ranges] /\ f[0] = a
    BY <1>1 DEF IsLoop
  <1>3. ASSUME NEW k \in 1..rounds PROVE f[k] = step[<<f[k - 1], k>>]
    <2>1. k - 1 \in Nat /\ (k - 1) + 1 = k
      OBVIOUS
    <2>2. g[k] = step[<<g[k - 1], k>>]
      BY <1>1, <2>1 DEF IsLoop
    <2>3. f[k] = g[k] /\ f[k - 1] = g[k - 1]
      OBVIOUS
    <2> QED BY <2>2, <2>3
  <1> QED BY <1>2, <1>3

\* What encode does to the ranges, bit by bit.
LEMMA BisectionIsTheLoop ==
    ASSUME NEW spot, NEW p \in Nat
    PROVE  /\ Bisection(spot, p) \in [0..5*p -> Ranges]
           /\ Bisection(spot, p)[0] = World(p)
           /\ \A k \in 1..5*p : LET c == Bisection(spot, p)[k - 1]
                                IN Bisection(spot, p)[k] = Narrow(c, k, IsUpper(spot, c, k))
  <1> DEFINE next(c, k) == Narrow(c, k, IsUpper(spot, c, k))
             step == [x \in Ranges \X Nat |-> next(x[1], x[2])]
  <1>2. ASSUME NEW c \in Ranges, NEW k \in Nat PROVE next(c, k) \in Ranges
    BY NarrowTyped
  <1> HIDE DEF next, Ranges
  <1>3. step \in [Ranges \X Nat -> Ranges]
    BY <1>2
  <1>4. PICK f \in [0..5*p -> Ranges] :
            f[0] = World(p) /\ \A k \in 1..5*p : f[k] = step[<<f[k - 1], k>>]
    <2> HIDE DEF step
    <2> QED BY <1>3, WorldTyped, Rounds, 5*p \in Nat
  <1>5. ASSUME NEW k \in 1..5*p PROVE f[k] = next(f[k - 1], k)
    <2>1. <<f[k - 1], k>> \in Ranges \X Nat
      OBVIOUS
    <2> QED BY <2>1, <1>4
  <1>6. f = [k \in 0..5*p |-> IF k = 0 THEN World(p) ELSE next(f[k - 1], k)]
    BY <1>4, <1>5
  <1> DEFINE cut == Bisection(spot, p)
  <1>7. cut = [k \in 0..5*p |-> IF k = 0 THEN World(p) ELSE next(cut[k - 1], k)]
    BY <1>6 DEF Bisection, next
  <1> HIDE DEF cut
  <1>8. cut[0] = World(p)
    BY <1>7
  <1>9. ASSUME NEW k \in 1..5*p PROVE cut[k] = next(cut[k - 1], k)
    BY <1>7
  <1>10. cut \in [0..5*p -> Ranges]
    <2> DEFINE S == {k \in Nat : k \in 0..5*p => cut[k] \in Ranges}
    <2>1. 0 \in S
      BY <1>8, WorldTyped
    <2>2. ASSUME NEW k \in Nat, k \in S PROVE k + 1 \in S
      <3>1. k + 1 \in 1..5*p => cut[k + 1] = next(cut[k], k + 1)
        BY <1>9
      <3> QED BY <2>2, <3>1, <1>2
    <2> HIDE DEF S
    <2>3. \A k \in Nat : k \in S
      BY <2>1, <2>2, Induction
    <2>4. \A k \in 0..5*p : cut[k] \in Ranges
      BY <2>3 DEF S
    <2> QED BY <2>4, <1>7
  <1> QED BY <1>8, <1>9, <1>10 DEF cut, next

-----------------------------------------------------------------------------
(* Cells. A coordinate off the map, which neighbors may ask encode about, ends *)
(* up in the cell at the rim.                                               *)

CellOf(x, cells) == IF x < 0 THEN 0 ELSE IF x >= Unit * cells THEN cells - 1 ELSE x \div Unit

\* The cells a ... a + width - 1 of an axis.
Stretch(a, width) == <<Unit * a, Unit * (a + width)>>

\* A range is a stretch of so many cells, that of the coordinate among them.
Holds(range, x, cells, width) ==
    \E a \in Nat : /\ range = Stretch(a, width)
                   /\ a <= CellOf(x, cells) /\ CellOf(x, cells) < a + width
                   /\ a + width <= cells

\* Every coordinate has a cell.
LEMMA CellTyped ==
    ASSUME NEW x \in Int, NEW cells \in Nat, cells >= 1
    PROVE  CellOf(x, cells) \in 0..cells-1
  <1>1. CASE x < 0
    BY <1>1 DEF CellOf
  <1>2. CASE ~ (x < 0) /\ x >= Unit * cells
    BY <1>2 DEF CellOf
  <1>3. CASE ~ (x < 0) /\ ~ (x >= Unit * cells)
    <2>1. Unit \in Nat /\ Unit > 0 /\ Unit * 0 = 0
      BY GeohashAssumption
    <2>2. x \div Unit \in Int /\ x \div Unit >= 0 /\ ~ (x \div Unit >= cells)
      BY <1>3, <2>1, QuotientAtLeast
    <2> QED BY <1>3, <2>2 DEF CellOf
  <1> QED BY <1>1, <1>2, <1>3

\* The middle of an even stretch.
LEMMA MiddleOfStretch ==
    ASSUME NEW a \in Nat, NEW half \in Nat
    PROVE  Mid(Stretch(a, 2 * half)) = Unit * (a + half)
  <1>1. Unit \in Nat
    BY GeohashAssumption
  <1>2. Unit * a + Unit * (a + 2 * half) = 2 * (Unit * (a + half))
    BY <1>1
  <1>3. Unit * (a + half) \in Nat
    BY <1>1
  <1> QED BY <1>2, <1>3 DEF Mid, Stretch

\* A coordinate is in the upper half of a stretch exactly when its cell is.
LEMMA UpperByCell ==
    ASSUME NEW x \in Int, NEW cells \in Nat, NEW a \in Nat, NEW half \in Nat \ {0},
           a + 2 * half <= cells
    PROVE  InUpperHalf(x, Stretch(a, 2 * half)) <=> CellOf(x, cells) >= a + half
  <1> DEFINE m == a + half
  <1>1. Unit \in Nat /\ Unit > 0
    BY GeohashAssumption
  <1>2. m \in Nat /\ m >= 1 /\ m <= cells - 1
    OBVIOUS
  <1>3. InUpperHalf(x, Stretch(a, 2 * half)) <=> x >= Unit * m
    BY MiddleOfStretch DEF InUpperHalf
  <1> HIDE DEF m
  <1>4. Unit * m >= 0 /\ Unit * m <= Unit * cells
    BY <1>1, <1>2
  <1>5. CASE x < 0
    BY <1>2, <1>3, <1>4, <1>1, <1>5 DEF CellOf, m
  <1>6. CASE ~ (x < 0) /\ x >= Unit * cells
    <2>1. x >= Unit * m
      BY <1>1, <1>2, <1>4, <1>6
    <2>2. CellOf(x, cells) >= m
      BY <1>2, <1>6 DEF CellOf
    <2> QED BY <1>3, <2>1, <2>2 DEF m
  <1>7. CASE ~ (x < 0) /\ ~ (x >= Unit * cells)
    <2>1. x >= Unit * m <=> x \div Unit >= m
      BY <1>1, <1>2, QuotientAtLeast
    <2> QED BY <1>3, <1>7, <2>1 DEF CellOf, m
  <1> QED BY <1>5, <1>6, <1>7

\* A bit halves the stretch and keeps the coordinate's cell in it.
LEMMA HalfHolds ==
    ASSUME NEW x \in Int, NEW cells \in Nat, cells >= 1, NEW half \in Nat \ {0}, NEW range,
           Holds(range, x, cells, 2 * half)
    PROVE  Holds(Half(range, InUpperHalf(x, range)), x, cells, half)
  <1>1. PICK a \in Nat : /\ range = Stretch(a, 2 * half)
                         /\ a <= CellOf(x, cells) /\ CellOf(x, cells) < a + 2 * half
                         /\ a + 2 * half <= cells
    BY DEF Holds
  <1>2. CellOf(x, cells) \in Int
    BY CellTyped
  <1>3. InUpperHalf(x, range) <=> CellOf(x, cells) >= a + half
    BY <1>1, UpperByCell
  <1>4. Mid(range) = Unit * (a + half)
    BY <1>1, MiddleOfStretch
  <1>5. CASE InUpperHalf(x, range)
    <2>1. Half(range, InUpperHalf(x, range)) = Stretch(a + half, half)
      <3>1. (a + half) + half = a + 2 * half
        OBVIOUS
      <3> QED BY <1>1, <1>4, <1>5, <3>1 DEF Half, Stretch
    <2> QED BY <2>1, <1>1, <1>2, <1>3, <1>5, a + half \in Nat DEF Holds
  <1>6. CASE ~ InUpperHalf(x, range)
    <2>1. Half(range, InUpperHalf(x, range)) = Stretch(a, half)
      BY <1>1, <1>4, <1>6 DEF Half, Stretch
    <2> QED BY <2>1, <1>1, <1>2, <1>3, <1>6 DEF Holds
  <1> QED BY <1>5, <1>6

\* How many cells of an axis are left after k bits, of which every second is its own.
LatLeft(p, k) == Pow2[LatBits(p) - k \div 2]
LngLeft(p, k) == Pow2[LngBits(p) - (k + 1) \div 2]

RowOf(spot, p) == CellOf(spot[1], Pow2[LatBits(p)])
ColumnOf(spot, p) == CellOf(spot[2], Pow2[LngBits(p)])

\* A bit halves what is left of its axis and leaves the other one alone.
LEMMA LeftIsHalved ==
    ASSUME NEW p \in Nat, NEW k \in 1..5*p
    PROVE  /\ LatLeft(p, k) \in Nat \ {0} /\ LngLeft(p, k) \in Nat \ {0}
           /\ IF IsLng(k) THEN LatLeft(p, k - 1) = LatLeft(p, k) /\ LngLeft(p, k - 1) = 2 * LngLeft(p, k)
              ELSE LatLeft(p, k - 1) = 2 * LatLeft(p, k) /\ LngLeft(p, k - 1) = LngLeft(p, k)
  <1> DEFINE lat == LatBits(p) - k \div 2
             lng == LngBits(p) - (k + 1) \div 2
  <1>1. lat \in Nat /\ lng \in Nat
    BY DEF LatBits, LngBits
  <1>2. CASE IsLng(k)
    <2>1. LatBits(p) - (k - 1) \div 2 = lat /\ LngBits(p) - ((k - 1) + 1) \div 2 = lng + 1
      BY <1>2 DEF IsLng, LatBits, LngBits
    <2> HIDE DEF lat, lng
    <2>2. Pow2[lng + 1] = 2 * Pow2[lng]
      BY <1>1, Powers
    <2> QED BY <1>1, <1>2, <2>1, <2>2, PowersPositive DEF LatLeft, LngLeft, lat, lng
  <1>3. CASE ~ IsLng(k)
    <2>1. LatBits(p) - (k - 1) \div 2 = lat + 1 /\ LngBits(p) - ((k - 1) + 1) \div 2 = lng
      BY <1>3 DEF IsLng, LatBits, LngBits
    <2> HIDE DEF lat, lng
    <2>2. Pow2[lat + 1] = 2 * Pow2[lat]
      BY <1>1, Powers
    <2> QED BY <1>1, <1>3, <2>1, <2>2, PowersPositive DEF LatLeft, LngLeft, lat, lng
  <1> QED BY <1>2, <1>3

\* After every bit of encode the cell of the spot is in the ranges that are left.
BisectionAt(spot, p, k) ==
    /\ Holds(Bisection(spot, p)[k].lat, spot[1], Pow2[LatBits(p)], LatLeft(p, k))
    /\ Holds(Bisection(spot, p)[k].lng, spot[2], Pow2[LngBits(p)], LngLeft(p, k))

LEMMA BisectionCloses ==
    ASSUME NEW spot \in Int \X Int, NEW p \in Nat, NEW k \in 0..5*p
    PROVE  BisectionAt(spot, p, k)
  <1>1. LatBits(p) \in Nat /\ LngBits(p) \in Nat
    BY DEF LatBits, LngBits
  <1>2. /\ Pow2[LatBits(p)] \in Nat /\ Pow2[LatBits(p)] >= 1
        /\ Pow2[LngBits(p)] \in Nat /\ Pow2[LngBits(p)] >= 1
    BY <1>1, PowersPositive
  <1>3. spot[1] \in Int /\ spot[2] \in Int
    OBVIOUS
  <1>4. BisectionAt(spot, p, 0)
    <2>1. RowOf(spot, p) \in 0..Pow2[LatBits(p)]-1 /\ ColumnOf(spot, p) \in 0..Pow2[LngBits(p)]-1
      BY <1>2, <1>3, CellTyped DEF RowOf, ColumnOf
    <2>2. LatLeft(p, 0) = Pow2[LatBits(p)] /\ LngLeft(p, 0) = Pow2[LngBits(p)]
      <3>1. LatBits(p) - 0 \div 2 = LatBits(p) /\ LngBits(p) - (0 + 1) \div 2 = LngBits(p)
        BY <1>1
      <3> QED BY <3>1 DEF LatLeft, LngLeft
    <2>3. LatRange(p) = Stretch(0, Pow2[LatBits(p)]) /\ LngRange(p) = Stretch(0, Pow2[LngBits(p)])
      BY <1>2, GeohashAssumption DEF LatRange, LngRange, Stretch
    <2>4. Bisection(spot, p)[0] = World(p)
      BY BisectionIsTheLoop
    <2>5. Holds(LatRange(p), spot[1], Pow2[LatBits(p)], LatLeft(p, 0))
      BY <1>2, <2>1, <2>2, <2>3 DEF Holds, RowOf
    <2>6. Holds(LngRange(p), spot[2], Pow2[LngBits(p)], LngLeft(p, 0))
      BY <1>2, <2>1, <2>2, <2>3 DEF Holds, ColumnOf
    <2> QED BY <2>4, <2>5, <2>6 DEF BisectionAt, World
  <1>5. ASSUME NEW i \in 1..5*p, BisectionAt(spot, p, i - 1) PROVE BisectionAt(spot, p, i)
    <2> DEFINE c == Bisection(spot, p)[i - 1]
               d == Bisection(spot, p)[i]
    <2>1. c \in Ranges /\ d = Narrow(c, i, IsUpper(spot, c, i))
      BY BisectionIsTheLoop
    <2> HIDE DEF c, d
    <2>2. CASE IsLng(i)
      <3>1. d.lat = c.lat /\ d.lng = Half(c.lng, InUpperHalf(spot[2], c.lng))
        BY <2>1, <2>2 DEF Narrow, IsUpper, Ranges
      <3>2. LatLeft(p, i - 1) = LatLeft(p, i) /\ LngLeft(p, i - 1) = 2 * LngLeft(p, i)
            /\ LngLeft(p, i) \in Nat \ {0}
        BY <2>2, LeftIsHalved
      <3>3. Holds(d.lng, spot[2], Pow2[LngBits(p)], LngLeft(p, i))
        BY <1>2, <1>3, <1>5, <3>1, <3>2, HalfHolds DEF BisectionAt, c
      <3> QED BY <1>5, <3>1, <3>2, <3>3 DEF BisectionAt, c, d
    <2>3. CASE ~ IsLng(i)
      <3>1. d.lng = c.lng /\ d.lat = Half(c.lat, InUpperHalf(spot[1], c.lat))
        BY <2>1, <2>3 DEF Narrow, IsUpper, Ranges
      <3>2. LngLeft(p, i - 1) = LngLeft(p, i) /\ LatLeft(p, i - 1) = 2 * LatLeft(p, i)
            /\ LatLeft(p, i) \in Nat \ {0}
        BY <2>3, LeftIsHalved
      <3>3. Holds(d.lat, spot[1], Pow2[LatBits(p)], LatLeft(p, i))
        BY <1>2, <1>3, <1>5, <3>1, <3>2, HalfHolds DEF BisectionAt, c
      <3> QED BY <1>5, <3>1, <3>2, <3>3 DEF BisectionAt, c, d
    <2> QED BY <2>2, <2>3
  <1> DEFINE S == {i \in Nat : i \in 0..5*p => BisectionAt(spot, p, i)}
  <1>6. 0 \in S
    BY <1>4
  <1>7. ASSUME NEW i \in Nat, i \in S PROVE i + 1 \in S
    <2>1. CASE i + 1 \in 1..5*p
      <3>1. i \in 0..5*p /\ (i + 1) - 1 = i
        BY <2>1
      <3>2. BisectionAt(spot, p, (i + 1) - 1)
        BY <1>7, <3>1
      <3>3. BisectionAt(spot, p, i + 1)
        BY <1>5, <2>1, <3>2
      <3> QED BY <3>3
    <2>2. CASE i + 1 \notin 1..5*p
      BY <2>2
    <2> QED BY <2>1, <2>2
  <1> HIDE DEF S
  <1>8. \A i \in Nat : i \in S
    BY <1>6, <1>7, Induction
  <1> QED BY <1>8 DEF S

\* In the end the ranges are those of one cell, and their middles its centre.
LEMMA BisectionEnds ==
    ASSUME NEW spot \in Int \X Int, NEW p \in Nat
    PROVE  LET last == Bisection(spot, p)[5 * p]
           IN /\ Mid(last.lat) = Unit * RowOf(spot, p) + Unit \div 2
              /\ Mid(last.lng) = Unit * ColumnOf(spot, p) + Unit \div 2
  <1>1. LatLeft(p, 5 * p) = 1 /\ LngLeft(p, 5 * p) = 1
    BY Powers DEF LatLeft, LngLeft, LatBits, LngBits
  <1>2. ASSUME NEW range, NEW x, NEW cells \in Nat, CellOf(x, cells) \in Nat,
               Holds(range, x, cells, 1)
        PROVE  Mid(range) = Unit * CellOf(x, cells) + Unit \div 2
    <2>1. PICK a \in Nat : /\ range = Stretch(a, 1)
                           /\ a <= CellOf(x, cells) /\ CellOf(x, cells) < a + 1
      BY <1>2 DEF Holds
    <2>2. a = CellOf(x, cells)
      BY <1>2, <2>1
    <2>3. Unit \in Nat /\ Unit % 2 = 0
      BY GeohashAssumption
    <2>4. Unit * a + Unit * (a + 1) = 2 * (Unit * a) + Unit /\ Unit * a \in Nat
      BY <2>3
    <2>5. Mid(range) = Unit * a + Unit \div 2
      BY <2>1, <2>3, <2>4 DEF Mid, Stretch
    <2> QED BY <2>2, <2>5
  <1>3. BisectionAt(spot, p, 5 * p)
    BY BisectionCloses, 5 * p \in 0..5*p
  <1>4. Pow2[LatBits(p)] \in Nat /\ Pow2[LatBits(p)] >= 1 /\ Pow2[LngBits(p)] \in Nat /\ Pow2[LngBits(p)] >= 1
    BY PowersPositive DEF LatBits, LngBits
  <1>5. RowOf(spot, p) \in Nat /\ ColumnOf(spot, p) \in Nat
    <2>1. spot[1] \in Int /\ spot[2] \in Int
      OBVIOUS
    <2>2. /\ RowOf(spot, p) \in 0..Pow2[LatBits(p)]-1
          /\ ColumnOf(spot, p) \in 0..Pow2[LngBits(p)]-1
      BY <2>1, <1>4, CellTyped DEF RowOf, ColumnOf
    <2> HIDE DEF RowOf, ColumnOf
    <2> QED BY <2>2, <1>4
  <1> QED BY <1>1, <1>2, <1>3, <1>4, <1>5 DEF BisectionAt, RowOf, ColumnOf

SameCell(s, t, p) == RowOf(s, p) = RowOf(t, p) /\ ColumnOf(s, p) = ColumnOf(t, p)

\* A bit depends on the cell only.
LEMMA UpperBySameCell ==
    ASSUME NEW x \in Int, NEW y \in Int, NEW cells \in Nat, cells >= 1, NEW half \in Nat \ {0},
           NEW range, Holds(range, x, cells, 2 * half), CellOf(x, cells) = CellOf(y, cells)
    PROVE  InUpperHalf(x, range) <=> InUpperHalf(y, range)
  <1>1. PICK a \in Nat : range = Stretch(a, 2 * half) /\ a + 2 * half <= cells
    BY DEF Holds
  <1>2. InUpperHalf(x, range) <=> CellOf(x, cells) >= a + half
    BY <1>1, UpperByCell
  <1>3. InUpperHalf(y, range) <=> CellOf(y, cells) >= a + half
    BY <1>1, UpperByCell
  <1> QED BY <1>2, <1>3

\* The bits of two spots in one cell are the same, and so are the ranges they leave.
LEMMA SameBisection ==
    ASSUME NEW s \in Int \X Int, NEW t \in Int \X Int, NEW p \in Nat, SameCell(s, t, p)
    PROVE  \A k \in 1..5*p :
              /\ Bisection(s, p)[k - 1] = Bisection(t, p)[k - 1]
              /\ IsUpper(s, Bisection(s, p)[k - 1], k) <=> IsUpper(t, Bisection(t, p)[k - 1], k)
  <1> DEFINE c == Bisection(s, p)
             d == Bisection(t, p)
  <1>1. c[0] = d[0]
    BY BisectionIsTheLoop
  <1>2. Pow2[LatBits(p)] \in Nat /\ Pow2[LatBits(p)] >= 1 /\ Pow2[LngBits(p)] \in Nat /\ Pow2[LngBits(p)] >= 1
    BY PowersPositive DEF LatBits, LngBits
  <1>3. s[1] \in Int /\ s[2] \in Int /\ t[1] \in Int /\ t[2] \in Int
    OBVIOUS
  <1>4. ASSUME NEW k \in 1..5*p, c[k - 1] = d[k - 1]
        PROVE  IsUpper(s, c[k - 1], k) <=> IsUpper(t, d[k - 1], k)
    <2>1. BisectionAt(s, p, k - 1)
      BY BisectionCloses, k - 1 \in 0..5*p
    <2> HIDE DEF c, d
    <2>2. CASE IsLng(k)
      <3>1. LngLeft(p, k - 1) = 2 * LngLeft(p, k) /\ LngLeft(p, k) \in Nat \ {0}
        BY <2>2, LeftIsHalved
      <3>2. Holds(c[k - 1].lng, s[2], Pow2[LngBits(p)], 2 * LngLeft(p, k))
        BY <2>1, <3>1 DEF BisectionAt, c
      <3>3. CellOf(s[2], Pow2[LngBits(p)]) = CellOf(t[2], Pow2[LngBits(p)])
        BY DEF SameCell, ColumnOf
      <3>4. InUpperHalf(s[2], c[k - 1].lng) <=> InUpperHalf(t[2], c[k - 1].lng)
        BY <1>2, <1>3, <3>1, <3>2, <3>3, UpperBySameCell
      <3> QED BY <1>4, <2>2, <3>4 DEF IsUpper
    <2>3. CASE ~ IsLng(k)
      <3>1. LatLeft(p, k - 1) = 2 * LatLeft(p, k) /\ LatLeft(p, k) \in Nat \ {0}
        BY <2>3, LeftIsHalved
      <3>2. Holds(c[k - 1].lat, s[1], Pow2[LatBits(p)], 2 * LatLeft(p, k))
        BY <2>1, <3>1 DEF BisectionAt, c
      <3>3. CellOf(s[1], Pow2[LatBits(p)]) = CellOf(t[1], Pow2[LatBits(p)])
        BY DEF SameCell, RowOf
      <3>4. InUpperHalf(s[1], c[k - 1].lat) <=> InUpperHalf(t[1], c[k - 1].lat)
        BY <1>2, <1>3, <3>1, <3>2, <3>3, UpperBySameCell
      <3> QED BY <1>4, <2>3, <3>4 DEF IsUpper
    <2> QED BY <2>2, <2>3
  <1> DEFINE S == {k \in Nat : k \in 0..5*p => c[k] = d[k]}
  <1>5. 0 \in S
    BY <1>1
  <1>6. ASSUME NEW k \in Nat, k \in S PROVE k + 1 \in S
    <2>1. CASE k + 1 \in 1..5*p
      <3>1. (k + 1) - 1 = k /\ k \in 0..5*p
        BY <2>1
      <3>2. c[(k + 1) - 1] = d[(k + 1) - 1]
        BY <1>6, <3>1
      <3>3. IsUpper(s, c[(k + 1) - 1], k + 1) <=> IsUpper(t, d[(k + 1) - 1], k + 1)
        BY <1>4, <2>1, <3>2
      <3>4. c[k + 1] = Narrow(c[(k + 1) - 1], k + 1, IsUpper(s, c[(k + 1) - 1], k + 1))
            /\ d[k + 1] = Narrow(d[(k + 1) - 1], k + 1, IsUpper(t, d[(k + 1) - 1], k + 1))
        BY <2>1, BisectionIsTheLoop
      <3> HIDE DEF c, d
      <3>5. c[k + 1] = d[k + 1]
        BY <3>2, <3>3, <3>4 DEF Narrow, Half
      <3> QED BY <3>5
    <2>2. CASE k + 1 \notin 1..5*p
      BY <2>2
    <2> QED BY <2>1, <2>2
  <1> HIDE DEF S, c, d
  <1>7. \A k \in Nat : k \in S
    BY <1>5, <1>6, Induction
  <1>8. ASSUME NEW k \in 1..5*p PROVE c[k - 1] = d[k - 1]
    <2>1. k - 1 \in Nat /\ k - 1 \in 0..5*p
      OBVIOUS
    <2> QED BY <1>7, <2>1 DEF S
  <1> QED BY <1>4, <1>8 DEF c, d

\* Spots in one cell have one geohash.
LEMMA SameCellSameHash ==
    ASSUME NEW s \in Int \X Int, NEW t \in Int \X Int, NEW p \in Nat, SameCell(s, t, p)
    PROVE  Encode(s, p) = Encode(t, p)
  <1>1. \A k \in 1..5*p : Bit(Bits(s, p)[k]) = Bit(Bits(t, p)[k])
    BY SameBisection DEF Bit, Bits
  <1>2. ASSUME NEW c \in 1..p
        PROVE  {5*c - 4, 5*c - 3, 5*c - 2, 5*c - 1, 5*c} \subseteq 1..5*p
    OBVIOUS
  <1> HIDE DEF Bits
  <1>3. ASSUME NEW c \in 1..p PROVE Encode(s, p)[c] = Encode(t, p)[c]
    BY <1>1, <1>2 DEF Encode
  <1> QED BY <1>3 DEF Encode

\* A geohash has as many letters as it should.
LEMMA EncodeTyped ==
    ASSUME NEW spot, NEW p \in Nat
    PROVE  Encode(spot, p) \in Seq(Nat) /\ Len(Encode(spot, p)) = p
  <1>1. \A b : Bit(b) \in Nat
    BY DEF Bit
  <1> HIDE DEF Bit, Bits
  <1>2. Encode(spot, p) \in [1..p -> Nat]
    BY <1>1 DEF Encode
  <1> HIDE DEF Encode
  <1>3. Encode(spot, p) \in Seq(Nat)
    BY <1>2
  <1>4. DOMAIN Encode(spot, p) = 1..Len(Encode(spot, p)) /\ Len(Encode(spot, p)) \in Nat
    BY <1>3, LenProperties
  <1> QED BY <1>2, <1>3, <1>4

\* The bits that decode takes from a letter are those that encode put there.
LEMMA BitsComeBack ==
    ASSUME NEW spot, NEW p \in Nat, NEW k \in 1..5*p
    PROVE  BitOf(Encode(spot, p), k) <=> Bits(spot, p)[k]
  <1> DEFINE c == (k - 1) \div 5 + 1
             b == Bits(spot, p)
             letter == 16 * Bit(b[5*c - 4]) + 8 * Bit(b[5*c - 3]) + 4 * Bit(b[5*c - 2])
                       + 2 * Bit(b[5*c - 1]) + Bit(b[5*c])
  <1>1. c \in 1..p
    OBVIOUS
  <1>2. \A u : Bit(u) \in {0, 1} /\ (Bit(u) = 1 <=> u)
    BY DEF Bit
  <1> HIDE DEF Bit, b
  <1>3. Encode(spot, p)[c] = letter
    BY <1>1 DEF Encode, b
  <1>4. BitOf(Encode(spot, p), k) <=> (letter \div Pow2[4 - ((k - 1) % 5)]) % 2 = 1
    BY <1>3 DEF BitOf
  <1>5. (k - 1) % 5 \in 0..4 /\ k = (5*c - 4) + ((k - 1) % 5)
    <2>1. \A i \in Nat : i % 5 \in 0..4 /\ i = 5 * (i \div 5) + (i % 5) /\ i \div 5 \in Nat
      OBVIOUS
    <2>2. k - 1 \in Nat
      OBVIOUS
    <2> QED BY <2>1, <2>2
  <1> HIDE DEF c
  <1>6. CASE (k - 1) % 5 = 0
    <2>1. (letter \div 16) % 2 = Bit(b[5*c - 4])
      BY <1>2
    <2>2. k = 5*c - 4
      BY <1>1, <1>5, <1>6
    <2>3. 4 - ((k - 1) % 5) = 4
      BY <1>6
    <2> QED BY <1>2, <1>4, <2>1, <2>2, <2>3, SmallPowers DEF b
  <1>7. CASE (k - 1) % 5 = 1
    <2>1. (letter \div 8) % 2 = Bit(b[5*c - 3])
      BY <1>2
    <2>2. k = 5*c - 3
      BY <1>1, <1>5, <1>7
    <2>3. 4 - ((k - 1) % 5) = 3
      BY <1>7
    <2> QED BY <1>2, <1>4, <2>1, <2>2, <2>3, SmallPowers DEF b
  <1>8. CASE (k - 1) % 5 = 2
    <2>1. (letter \div 4) % 2 = Bit(b[5*c - 2])
      BY <1>2
    <2>2. k = 5*c - 2
      BY <1>1, <1>5, <1>8
    <2>3. 4 - ((k - 1) % 5) = 2
      BY <1>8
    <2> QED BY <1>2, <1>4, <2>1, <2>2, <2>3, SmallPowers DEF b
  <1>9. CASE (k - 1) % 5 = 3
    <2>1. (letter \div 2) % 2 = Bit(b[5*c - 1])
      BY <1>2
    <2>2. k = 5*c - 1
      BY <1>1, <1>5, <1>9
    <2>3. 4 - ((k - 1) % 5) = 1
      BY <1>9
    <2> QED BY <1>2, <1>4, <2>1, <2>2, <2>3, SmallPowers DEF b
  <1>10. CASE (k - 1) % 5 = 4
    <2>1. (letter \div 1) % 2 = Bit(b[5*c])
      BY <1>2
    <2>2. k = 5*c /\ Pow2[4 - ((k - 1) % 5)] = 1
      BY <1>1, <1>5, <1>10, SmallPowers
    <2> QED BY <1>2, <1>4, <2>1, <2>2 DEF b
  <1> QED BY <1>5, <1>6, <1>7, <1>8, <1>9, <1>10

\* So decode goes through the ranges that encode went through.
LEMMA DecodeRetraces ==
    ASSUME NEW spot, NEW p \in Nat
    PROVE  Retraced(Encode(spot, p)) = Bisection(spot, p)
  <1> DEFINE hash == Encode(spot, p)
             f == Bisection(spot, p)
             cut == Retraced(hash)
             next(c, k) == Narrow(c, k, BitOf(hash, k))
  <1>1. Len(hash) = p
    BY EncodeTyped
  <1>2. ASSUME NEW k \in 1..5*p PROVE f[k] = next(f[k - 1], k)
    <2>1. f[k] = Narrow(f[k - 1], k, IsUpper(spot, f[k - 1], k))
      BY BisectionIsTheLoop
    <2>2. Bits(spot, p)[k] = IsUpper(spot, f[k - 1], k)
      BY DEF Bits
    <2>3. BitOf(hash, k) <=> IsUpper(spot, f[k - 1], k)
      BY <2>2, BitsComeBack
    <2> HIDE DEF f, hash
    <2> QED BY <2>1, <2>3 DEF Narrow, Half
  <1>3. f \in [0..5*p -> Ranges] /\ f[0] = World(p)
    BY BisectionIsTheLoop
  <1> HIDE DEF f, hash, next
  <1>4. f = [k \in 0..5*p |-> IF k = 0 THEN World(p) ELSE next(f[k - 1], k)]
    <2>1. \A k \in 0..5*p : f[k] = IF k = 0 THEN World(p) ELSE next(f[k - 1], k)
      BY <1>2, <1>3
    <2> QED BY <2>1, <1>3
  <1>5. cut = [k \in 0..5*p |-> IF k = 0 THEN World(p) ELSE next(cut[k - 1], k)]
    BY <1>1, <1>4 DEF Retraced, next
  <1> HIDE DEF cut
  <1> DEFINE S == {k \in Nat : k \in 0..5*p => cut[k] = f[k]}
  <1>6. 0 \in S
    BY <1>3, <1>5
  <1>7. ASSUME NEW k \in Nat, k \in S PROVE k + 1 \in S
    <2>1. CASE k + 1 \in 1..5*p
      <3>1. k \in 0..5*p /\ (k + 1) - 1 = k /\ k + 1 \in 0..5*p /\ k + 1 # 0
        BY <2>1
      <3>2. cut[k + 1] = next(cut[(k + 1) - 1], k + 1)
        BY <1>5, <3>1
      <3>3. f[k + 1] = next(f[(k + 1) - 1], k + 1)
        BY <1>2, <2>1
      <3> QED BY <1>7, <3>1, <3>2, <3>3
    <2>2. CASE k + 1 \notin 1..5*p
      BY <2>2
    <2> QED BY <2>1, <2>2
  <1> HIDE DEF S
  <1>8. \A k \in Nat : k \in S
    BY <1>6, <1>7, Induction
  <1>9. \A k \in 0..5*p : cut[k] = f[k]
    BY <1>8 DEF S
  <1>10. DOMAIN cut = 0..5*p /\ cut = [k \in 0..5*p |-> cut[k]]
    BY <1>5
  <1>11. cut = f
    BY <1>3, <1>9, <1>10
  <1> QED BY <1>11 DEF cut, f, hash

\* decode takes the geohash of a spot to the centre of its cell.
LEMMA DecodeIsTheCentre ==
    ASSUME NEW spot \in Int \X Int, NEW p \in Nat
    PROVE  Decode(Encode(spot, p)) = <<Unit * RowOf(spot, p) + Unit \div 2,
                                       Unit * ColumnOf(spot, p) + Unit \div 2>>
  BY EncodeTyped, DecodeRetraces, BisectionEnds DEF Decode

\* Every spot is in a cell of the grid.
LEMMA GridTyped ==
    ASSUME NEW spot \in Int \X Int, NEW p \in Nat
    PROVE  RowOf(spot, p) \in 0..Pow2[LatBits(p)]-1 /\ ColumnOf(spot, p) \in 0..Pow2[LngBits(p)]-1
  <1>1. spot[1] \in Int /\ spot[2] \in Int
    OBVIOUS
  <1>2. Pow2[LatBits(p)] \in Nat /\ Pow2[LatBits(p)] >= 1 /\ Pow2[LngBits(p)] \in Nat /\ Pow2[LngBits(p)] >= 1
    BY PowersPositive DEF LatBits, LngBits
  <1> QED BY <1>1, <1>2, CellTyped DEF RowOf, ColumnOf

\* Two spots have one geohash exactly when they are in one cell.
LEMMA HashIsTheCell ==
    ASSUME NEW s \in Int \X Int, NEW t \in Int \X Int, NEW p \in Nat
    PROVE  Encode(s, p) = Encode(t, p) <=> SameCell(s, t, p)
  <1>1. ASSUME Encode(s, p) = Encode(t, p) PROVE SameCell(s, t, p)
    <2>1. /\ Unit * RowOf(s, p) + Unit \div 2 = Unit * RowOf(t, p) + Unit \div 2
          /\ Unit * ColumnOf(s, p) + Unit \div 2 = Unit * ColumnOf(t, p) + Unit \div 2
      BY <1>1, DecodeIsTheCentre
    <2>2. RowOf(s, p) \in Int /\ RowOf(t, p) \in Int /\ ColumnOf(s, p) \in Int /\ ColumnOf(t, p) \in Int
      <3>1. Pow2[LatBits(p)] \in Nat /\ Pow2[LngBits(p)] \in Nat
        BY Powers DEF LatBits, LngBits
      <3> QED BY <3>1, GridTyped
    <2>3. Unit \in Nat /\ Unit > 0 /\ Unit \div 2 \in Nat
      BY GeohashAssumption
    <2>4. ASSUME NEW i \in Int, NEW j \in Int, Unit * i + Unit \div 2 = Unit * j + Unit \div 2
          PROVE  i = j
      <3>1. Unit * (i - j) = 0
        BY <2>3, <2>4
      <3> QED BY <2>3, <3>1
    <2> QED BY <2>1, <2>2, <2>4 DEF SameCell
  <1> QED BY <1>1, SameCellSameHash

-----------------------------------------------------------------------------
(* The cells that neighbors reaches.                                        *)

\* A cell of the axis, or the one at the rim that a step off the map ends in.
Clamped(m, cells) == IF m < 0 THEN 0 ELSE IF m >= cells THEN cells - 1 ELSE m

\* The cell of a coordinate is the multiple of Unit below it, clamped.
LEMMA CellIsClamped ==
    ASSUME NEW x \in Int, NEW m \in Int, NEW cells \in Nat, cells >= 1,
           Unit * m <= x, x < Unit * m + Unit
    PROVE  CellOf(x, cells) = Clamped(m, cells)
  <1>1. Unit \in Nat /\ Unit > 0
    BY GeohashAssumption
  <1>2. x \div Unit = m
    BY <1>1, Quotient
  <1>3. x >= Unit * cells <=> m >= cells
    BY <1>1, <1>2, QuotientAtLeast
  <1>4. x >= Unit * 0 <=> m >= 0
    <2>1. x >= Unit * 0 <=> x \div Unit >= 0
      BY <1>1, QuotientAtLeast
    <2> QED BY <2>1, <1>2
  <1>5. Unit * 0 = 0
    BY <1>1
  <1> QED BY <1>2, <1>3, <1>4, <1>5 DEF CellOf, Clamped

\* A step of n cells and less than half of one more, from the centre of a cell.
StepsOver(d, n) == /\ Unit * n <= Unit \div 2 + d /\ Unit \div 2 + d < Unit * n + Unit
                   /\ 0 - Unit * n <= Unit \div 2 - d /\ Unit \div 2 - d < Unit - Unit * n

\* Where the steps to either side of a cell's centre lead.
LEMMA StepsReach ==
    ASSUME NEW i \in Nat, NEW cells \in Nat, i < cells, NEW d \in Int, NEW n \in Nat,
           StepsOver(d, n)
    PROVE  /\ CellOf((Unit * i + Unit \div 2) + d, cells) = Clamped(i + n, cells)
           /\ CellOf((Unit * i + Unit \div 2) + 0, cells) = i
           /\ CellOf((Unit * i + Unit \div 2) + (0 - d), cells) = Clamped(i - n, cells)
  <1>1. Unit \in Nat /\ Unit > 0 /\ Unit \div 2 \in Nat /\ Unit \div 2 < Unit
    BY GeohashAssumption
  <1>2. /\ Unit * (i + n) = Unit * i + Unit * n
        /\ Unit * (i - n) = Unit * i - Unit * n
        /\ Unit * i \in Nat /\ Unit * n \in Nat
    BY <1>1
  <1> DEFINE c == Unit * i + Unit \div 2
  <1>3. c \in Int /\ c + d \in Int /\ c + 0 \in Int /\ c + (0 - d) \in Int
    BY <1>1, <1>2
  <1>4. CellOf(c + d, cells) = Clamped(i + n, cells)
    <2>1. Unit * (i + n) <= c + d /\ c + d < Unit * (i + n) + Unit
      BY <1>1, <1>2 DEF StepsOver
    <2> HIDE DEF c
    <2> QED BY <1>3, <2>1, CellIsClamped
  <1>5. CellOf(c + 0, cells) = i
    <2>1. Unit * i <= c + 0 /\ c + 0 < Unit * i + Unit
      BY <1>1, <1>2
    <2>2. Clamped(i, cells) = i
      BY DEF Clamped
    <2> HIDE DEF c
    <2> QED BY <1>3, <2>1, <2>2, CellIsClamped
  <1>6. CellOf(c + (0 - d), cells) = Clamped(i - n, cells)
    <2>1. Unit * (i - n) <= c + (0 - d) /\ c + (0 - d) < Unit * (i - n) + Unit
      BY <1>1, <1>2 DEF StepsOver
    <2> HIDE DEF c
    <2> QED BY <1>3, <2>1, CellIsClamped
  <1> QED BY <1>4, <1>5, <1>6

\* At an odd precision neighbors steps over one cell, 181/128 of its length.
LEMMA OddSteps ==
    ASSUME NEW p \in Nat, p % 2 = 1
    PROVE  /\ Step(LatRange(p), 5 * p - 2) \in Int /\ StepsOver(Step(LatRange(p), 5 * p - 2), 1)
           /\ Step(LngRange(p), 5 * p) \in Int /\ StepsOver(Step(LngRange(p), 5 * p), 1)
  <1> DEFINE d == (Unit * 181) \div 128
  <1>1. Unit \in Nat /\ Unit > 0 /\ Unit % 2 = 0
    BY GeohashAssumption
  <1>2. d \in Int /\ StepsOver(d, 1)
    BY <1>1 DEF StepsOver
  <1>3. ASSUME NEW w \in Nat, w > 0 PROVE ((Unit * w) * 181) \div (128 * w) = d
    <2>1. d \in Int /\ 128 * d <= Unit * 181 /\ Unit * 181 < 128 * d + 128
      BY <1>1
    <2> HIDE DEF d
    <2>2. (128 * d) * w <= (Unit * 181) * w /\ (Unit * 181) * w < (128 * d + 128) * w
      BY <1>1, <1>3, <2>1
    <2>3. /\ (128 * d) * w = (128 * w) * d /\ (128 * d + 128) * w = (128 * w) * d + 128 * w
          /\ (Unit * 181) * w = (Unit * w) * 181
      BY <1>1, <2>1
    <2>4. (Unit * w) * 181 \in Int /\ 128 * w \in Nat /\ 128 * w > 0
      BY <1>1, <1>3
    <2> QED BY <2>1, <2>2, <2>3, <2>4, Quotient
  <1>4. /\ (5 * p - 2) % 2 = 1 /\ ((5 * p - 2) + 1) \div 2 = LatBits(p)
        /\ (5 * p) % 2 = 1 /\ (5 * p + 1) \div 2 = LngBits(p)
    BY DEF LatBits, LngBits
  <1>5. /\ Pow2[LatBits(p)] \in Nat /\ Pow2[LatBits(p)] > 0
        /\ Pow2[LngBits(p)] \in Nat /\ Pow2[LngBits(p)] > 0
    BY PowersPositive DEF LatBits, LngBits
  <1> HIDE DEF d
  <1>6. Step(LatRange(p), 5 * p - 2) = d
    BY <1>3, <1>4, <1>5 DEF Step, LatRange
  <1>7. Step(LngRange(p), 5 * p) = d
    BY <1>3, <1>4, <1>5 DEF Step, LngRange
  <1> QED BY <1>2, <1>6, <1>7

\* At an even one it steps over two rows and one column.
LEMMA EvenSteps ==
    ASSUME NEW p \in Nat \ {0}, p % 2 = 0
    PROVE  /\ Step(LatRange(p), 5 * p - 2) \in Int /\ StepsOver(Step(LatRange(p), 5 * p - 2), 2)
           /\ Step(LngRange(p), 5 * p) \in Int /\ StepsOver(Step(LngRange(p), 5 * p), 1)
  <1>1. Unit \in Nat /\ Unit > 0 /\ Unit % 2 = 0
    BY GeohashAssumption
  <1>2. StepsOver(2 * Unit, 2) /\ StepsOver(Unit, 1)
    BY <1>1 DEF StepsOver
  <1> DEFINE n == (5 * p - 2) \div 2
  <1>3. /\ n \in Nat /\ LatBits(p) = n + 1 /\ (5 * p - 2) % 2 = 0
        /\ LngBits(p) = (5 * p) \div 2 /\ (5 * p) % 2 = 0 /\ (5 * p) \div 2 \in Nat
    BY DEF LatBits, LngBits
  <1> HIDE DEF n
  <1>4. Step(LatRange(p), 5 * p - 2) = 2 * Unit
    <2>1. Pow2[n] \in Nat /\ Pow2[n] > 0 /\ Pow2[n + 1] = 2 * Pow2[n]
      BY <1>3, PowersPositive, Powers
    <2>2. Unit * (2 * Pow2[n]) = Pow2[n] * (2 * Unit) /\ Unit * (2 * Pow2[n]) \in Int
      BY <1>1, <2>1
    <2>3. (Unit * (2 * Pow2[n])) \div Pow2[n] = 2 * Unit
      BY <1>1, <2>1, <2>2, Quotient
    <2> QED BY <1>3, <2>1, <2>3 DEF Step, LatRange, n
  <1>5. Step(LngRange(p), 5 * p) = Unit
    <2> DEFINE w == Pow2[(5 * p) \div 2]
    <2>1. w \in Nat /\ w > 0
      BY <1>3, PowersPositive
    <2> HIDE DEF w
    <2>2. Unit * w = w * Unit /\ Unit * w \in Int
      BY <1>1, <2>1
    <2>3. (Unit * w) \div w = Unit
      BY <1>1, <2>1, <2>2, Quotient
    <2> QED BY <1>3, <2>3 DEF Step, LngRange, w
  <1> QED BY <1>1, <1>2, <1>4, <1>5

\* The cells within n steps on an axis that neighbors looks at.
Reached(i, cells, n) == {Clamped(i - n, cells), i, Clamped(i + n, cells)}

\* A cell and its neighbors: the rows reached, by the columns reached.
LEMMA SearchReaches ==
    ASSUME NEW p \in Nat, NEW s \in Int \X Int, NEW t \in Int \X Int,
           NEW dlat \in Int, dlat = Step(LatRange(p), 5 * p - 2),
           NEW dlng \in Int, dlng = Step(LngRange(p), 5 * p),
           NEW m \in Nat, StepsOver(dlat, m), NEW n \in Nat, StepsOver(dlng, n)
    PROVE  Encode(t, p) \in Neighbors(Encode(s, p)) \cup {Encode(s, p)} <=>
              /\ RowOf(t, p) \in Reached(RowOf(s, p), Pow2[LatBits(p)], m)
              /\ ColumnOf(t, p) \in Reached(ColumnOf(s, p), Pow2[LngBits(p)], n)
  <1> DEFINE lat == Unit * RowOf(s, p) + Unit \div 2
             lng == Unit * ColumnOf(s, p) + Unit \div 2
             beside(o) == <<lat + o[1], lng + o[2]>>
             offsets == {0 - dlat, 0, dlat} \X {0 - dlng, 0, dlng}
             rows == Pow2[LatBits(p)]
             columns == Pow2[LngBits(p)]
  <1>1. rows \in Nat /\ columns \in Nat
    BY Powers DEF LatBits, LngBits
  <1>2. RowOf(s, p) \in 0..rows-1 /\ ColumnOf(s, p) \in 0..columns-1
    BY GridTyped
  <1>3. lat \in Int /\ lng \in Int
    <2> HIDE DEF RowOf, ColumnOf
    <2> QED BY <1>1, <1>2, GeohashAssumption
  <1>4. Neighbors(Encode(s, p)) = {Encode(beside(o), p) : o \in offsets \ {<<0, 0>>}}
    <2> DEFINE hash == Encode(s, p)
    <2>1. Len(hash) = p
      BY EncodeTyped
    <2>2. Decode(hash) = <<lat, lng>>
      BY DecodeIsTheCentre
    <2> HIDE DEF hash, lat, lng
    <2>3. Neighbors(hash) = {Encode(<<Decode(hash)[1] + o[1], Decode(hash)[2] + o[2]>>, p) :
                                o \in offsets \ {<<0, 0>>}}
      BY <2>1 DEF Neighbors, Offsets
    <2> QED BY <2>2, <2>3 DEF hash
  <1>5. \A o \in offsets : beside(o) \in Int \X Int
    <2> HIDE DEF lat, lng
    <2> QED BY <1>3
  <1>6. /\ CellOf(lat + dlat, rows) = Clamped(RowOf(s, p) + m, rows)
        /\ CellOf(lat + 0, rows) = RowOf(s, p)
        /\ CellOf(lat + (0 - dlat), rows) = Clamped(RowOf(s, p) - m, rows)
    <2> HIDE DEF RowOf, rows
    <2> QED BY <1>1, <1>2, StepsReach
  <1>7. /\ CellOf(lng + dlng, columns) = Clamped(ColumnOf(s, p) + n, columns)
        /\ CellOf(lng + 0, columns) = ColumnOf(s, p)
        /\ CellOf(lng + (0 - dlng), columns) = Clamped(ColumnOf(s, p) - n, columns)
    <2> HIDE DEF ColumnOf, columns
    <2> QED BY <1>1, <1>2, StepsReach
  <1>8. RowOf(beside(<<0, 0>>), p) = RowOf(s, p) /\ ColumnOf(beside(<<0, 0>>), p) = ColumnOf(s, p)
    BY <1>6, <1>7 DEF RowOf, ColumnOf
  <1>9. Encode(beside(<<0, 0>>), p) = Encode(s, p)
    <2>1. <<0, 0>> \in offsets
      OBVIOUS
    <2>2. beside(<<0, 0>>) \in Int \X Int
      BY <1>5, <2>1
    <2> HIDE DEF beside
    <2> QED BY <1>8, <2>2, HashIsTheCell DEF SameCell
  <1>10. Neighbors(Encode(s, p)) \cup {Encode(s, p)} = {Encode(beside(o), p) : o \in offsets}
    <2>1. <<0, 0>> \in offsets
      OBVIOUS
    <2> HIDE DEF beside, offsets
    <2> QED BY <1>4, <1>9, <2>1
  <1>11. ASSUME NEW o \in offsets
        PROVE  Encode(t, p) = Encode(beside(o), p) <=>
                  RowOf(t, p) = CellOf(lat + o[1], rows) /\ ColumnOf(t, p) = CellOf(lng + o[2], columns)
    <2>1. beside(o) \in Int \X Int
      BY <1>5
    <2>2. RowOf(beside(o), p) = CellOf(lat + o[1], rows)
          /\ ColumnOf(beside(o), p) = CellOf(lng + o[2], columns)
      BY DEF RowOf, ColumnOf
    <2> HIDE DEF beside, lat, lng, rows, columns
    <2> QED BY <2>1, <2>2, HashIsTheCell DEF SameCell
  <1>12. {CellOf(lat + o, rows) : o \in {0 - dlat, 0, dlat}} = Reached(RowOf(s, p), rows, m)
    <2> HIDE DEF lat, rows
    <2> QED BY <1>6 DEF Reached
  <1>13. {CellOf(lng + o, columns) : o \in {0 - dlng, 0, dlng}} = Reached(ColumnOf(s, p), columns, n)
    <2> HIDE DEF lng, columns
    <2> QED BY <1>7 DEF Reached
  <1>14. (\E o \in offsets : RowOf(t, p) = CellOf(lat + o[1], rows)
                             /\ ColumnOf(t, p) = CellOf(lng + o[2], columns))
         <=> /\ RowOf(t, p) \in {CellOf(lat + o, rows) : o \in {0 - dlat, 0, dlat}}
             /\ ColumnOf(t, p) \in {CellOf(lng + o, columns) : o \in {0 - dlng, 0, dlng}}
    <2> DEFINE A == {0 - dlat, 0, dlat}
               B == {0 - dlng, 0, dlng}
    <2> HIDE DEF A, B, lat, lng, rows, columns, RowOf, ColumnOf, CellOf
    <2>1. (\E o \in A \X B : RowOf(t, p) = CellOf(lat + o[1], rows)
                              /\ ColumnOf(t, p) = CellOf(lng + o[2], columns))
          <=> \E a \in A, b \in B : RowOf(t, p) = CellOf(lat + a, rows)
                                    /\ ColumnOf(t, p) = CellOf(lng + b, columns)
      <3>1. ASSUME NEW a \in A, NEW b \in B PROVE <<a, b>> \in A \X B
        OBVIOUS
      <3>2. ASSUME NEW o \in A \X B PROVE o[1] \in A /\ o[2] \in B
        OBVIOUS
      <3> QED BY <3>1, <3>2
    <2> QED BY <2>1 DEF A, B
  <1> HIDE DEF beside, offsets, lat, lng, rows, columns
  <1>15. Encode(t, p) \in {Encode(beside(o), p) : o \in offsets} <=>
            \E o \in offsets : RowOf(t, p) = CellOf(lat + o[1], rows)
                               /\ ColumnOf(t, p) = CellOf(lng + o[2], columns)
    BY <1>11
  <1> QED BY <1>10, <1>12, <1>13, <1>14, <1>15 DEF rows, columns

\* One step from a cell reaches the adjacent ones and no other, two skip those.
LEMMA ReachedIsAdjacent ==
    ASSUME NEW cells \in Nat, NEW i \in 0..cells-1, NEW j \in 0..cells-1
    PROVE  /\ j \in Reached(i, cells, 1) <=> Distance(j, i) <= 1
           /\ j \in Reached(i, cells, 2) => Distance(j, i) <= 2
  BY DEF Reached, Clamped, Distance

-----------------------------------------------------------------------------
(* The behaviours.                                                          *)

IInv ==
    /\ precision \in Precisions
    /\ place \in Spots(precision)
    /\ stored \in {<<>>, Encode(place, precision)}
    /\ asked \in {Nowhere} \cup Spots(precision)

\* A spot is on the map, in the cell that its coordinates say.
LEMMA SpotsAreOnTheMap ==
    ASSUME NEW p \in Precisions, NEW spot \in Spots(p)
    PROVE  /\ p \in Nat \ {0} /\ spot \in Int \X Int
           /\ RowOf(spot, p) = Row(spot) /\ Row(spot) \in 0..Pow2[LatBits(p)]-1
           /\ ColumnOf(spot, p) = Column(spot) /\ Column(spot) \in 0..Pow2[LngBits(p)]-1
  <1>1. p \in Nat \ {0} /\ Unit \in Nat /\ Unit > 0
    BY GeohashAssumption
  <1>2. Pow2[LatBits(p)] \in Nat /\ Pow2[LngBits(p)] \in Nat
    BY <1>1, Powers DEF LatBits, LngBits
  <1>3. ASSUME NEW cells \in Nat, NEW S \in SUBSET (0..cells-1), NEW x \in Edges(S)
        PROVE  x \in Int /\ CellOf(x, cells) = x \div Unit /\ x \div Unit \in 0..cells-1
    <2>1. PICK c \in S : x = c * Unit \/ x = c * Unit + Unit - 1
      BY DEF Edges
    <2>2. c \in 0..cells-1 /\ c * Unit \in Int /\ Unit * c = c * Unit
      BY <1>1, <2>1
    <2>3. x \in Int /\ Unit * c <= x /\ x < Unit * c + Unit
      BY <1>1, <2>1, <2>2
    <2>4. x \div Unit = c
      BY <1>1, <2>2, <2>3, Quotient
    <2>5. CellOf(x, cells) = Clamped(c, cells)
      BY <2>2, <2>3, CellIsClamped
    <2> QED BY <2>2, <2>3, <2>4, <2>5 DEF Clamped
  <1>4. Rows[p] \in SUBSET (0..Pow2[LatBits(p)]-1) /\ Columns[p] \in SUBSET (0..Pow2[LngBits(p)]-1)
    BY GeohashAssumption
  <1>5. spot[1] \in Edges(Rows[p]) /\ spot[2] \in Edges(Columns[p]) /\ spot = <<spot[1], spot[2]>>
    BY DEF Spots
  <1>6. spot[1] \in Int /\ CellOf(spot[1], Pow2[LatBits(p)]) = Row(spot) /\ Row(spot) \in 0..Pow2[LatBits(p)]-1
    BY <1>2, <1>3, <1>4, <1>5 DEF Row
  <1>7. spot[2] \in Int /\ CellOf(spot[2], Pow2[LngBits(p)]) = Column(spot) /\ Column(spot) \in 0..Pow2[LngBits(p)]-1
    BY <1>2, <1>3, <1>4, <1>5 DEF Column
  <1> QED BY <1>1, <1>5, <1>6, <1>7 DEF RowOf, ColumnOf

\* What is stored and what is asked about are what the steps make of spots.
LEMMA IInvHolds == Spec => []IInv
<1>1. Init => IInv
  BY DEF Init, IInv
<1>2. IInv /\ [Next]_vars => IInv'
  BY DEF IInv, Next, LogFailedRoute, GetAttemptsNear, vars
<1> QED BY <1>1, <1>2, PTL DEF Spec

\* The geohash in the database identifies the cell of the end point, whatever the
\* precision and the size of the map, and decodes to its centre.
THEOREM CellsFormTheGrid == Spec => []CellsAreTheGrid
<1>1. ASSUME IInv PROVE CellsAreTheGrid
  <2>1. SUFFICES ASSUME stored # <<>> PROVE
           /\ Decode(stored) = <<Row(place) * Unit + Unit \div 2, Column(place) * Unit + Unit \div 2>>
           /\ asked # Nowhere => (stored = Encode(asked, precision) <=>
                                    Row(place) = Row(asked) /\ Column(place) = Column(asked))
    BY DEF CellsAreTheGrid
  <2>2. stored = Encode(place, precision) /\ precision \in Precisions /\ place \in Spots(precision)
    BY <1>1, <2>1 DEF IInv
  <2>3. /\ precision \in Nat /\ place \in Int \X Int
        /\ RowOf(place, precision) = Row(place) /\ Row(place) \in Int
        /\ ColumnOf(place, precision) = Column(place) /\ Column(place) \in Int
    BY <2>2, SpotsAreOnTheMap
  <2>4. Unit * Row(place) = Row(place) * Unit /\ Unit * Column(place) = Column(place) * Unit
    BY <2>3, GeohashAssumption
  <2>5. Decode(stored) = <<Row(place) * Unit + Unit \div 2, Column(place) * Unit + Unit \div 2>>
    BY <2>2, <2>3, <2>4, DecodeIsTheCentre
  <2>6. ASSUME asked # Nowhere
        PROVE  stored = Encode(asked, precision) <=>
                  Row(place) = Row(asked) /\ Column(place) = Column(asked)
    <3>1. asked \in Spots(precision)
      BY <1>1, <2>6 DEF IInv
    <3>2. asked \in Int \X Int /\ RowOf(asked, precision) = Row(asked)
          /\ ColumnOf(asked, precision) = Column(asked)
      BY <2>2, <3>1, SpotsAreOnTheMap
    <3> QED BY <2>2, <2>3, <3>2, HashIsTheCell DEF SameCell
  <2> QED BY <2>5, <2>6
<1> QED BY <1>1, IInvHolds, PTL

\* A search finds the attempt exactly when it is in the cell asked about or an adjacent
\* one, at every odd precision; at an even one it finds none that is further than two rows.
THEOREM NearbyCellsAreFound == Spec => NearbyIsFound
<1>1. ASSUME IInv, Next, asked # asked'
      PROVE  LET rows == Distance(Row(place), Row(asked'))
                 columns == Distance(Column(place), Column(asked'))
             IN IF precision % 2 = 1 THEN found' <=> rows <= 1 /\ columns <= 1
                                     ELSE found' => rows <= 2 /\ columns <= 1
  <2>1. PICK spot \in Spots(precision) : GetAttemptsNear(spot)
    BY <1>1 DEF Next, LogFailedRoute
  <2> DEFINE p == precision
             h == Pow2[LatBits(p)]
             w == Pow2[LngBits(p)]
  <2>2. stored = Encode(place, p) /\ p \in Precisions /\ place \in Spots(p) /\ asked' = spot
    BY <1>1, <2>1 DEF IInv, GetAttemptsNear
  <2>3. found' <=> Encode(place, p) \in Neighbors(Encode(spot, p)) \cup {Encode(spot, p)}
    BY <2>1, <2>2 DEF GetAttemptsNear
  <2>4. /\ p \in Nat \ {0} /\ place \in Int \X Int /\ spot \in Int \X Int
        /\ RowOf(place, p) = Row(place) /\ Row(place) \in 0..h-1
        /\ ColumnOf(place, p) = Column(place) /\ Column(place) \in 0..w-1
        /\ RowOf(spot, p) = Row(spot) /\ Row(spot) \in 0..h-1
        /\ ColumnOf(spot, p) = Column(spot) /\ Column(spot) \in 0..w-1
    BY <2>2, SpotsAreOnTheMap
  <2>5. h \in Nat /\ w \in Nat
    BY <2>4, Powers DEF LatBits, LngBits
  <2> HIDE DEF p, h, w
  <2>6. CASE p % 2 = 1
    <3>1. found' <=> Row(place) \in Reached(Row(spot), h, 1) /\ Column(place) \in Reached(Column(spot), w, 1)
      <4> DEFINE dlat == Step(LatRange(p), 5 * p - 2)
                 dlng == Step(LngRange(p), 5 * p)
      <4>1. dlat \in Int /\ dlng \in Int /\ StepsOver(dlat, 1) /\ StepsOver(dlng, 1)
        BY <2>4, <2>6, OddSteps
      <4>2. dlat = Step(LatRange(p), 5 * p - 2) /\ dlng = Step(LngRange(p), 5 * p)
        OBVIOUS
      <4> HIDE DEF dlat, dlng
      <4>3. Encode(place, p) \in Neighbors(Encode(spot, p)) \cup {Encode(spot, p)} <=>
               /\ RowOf(place, p) \in Reached(RowOf(spot, p), h, 1)
               /\ ColumnOf(place, p) \in Reached(ColumnOf(spot, p), w, 1)
        BY <2>4, <4>1, <4>2, SearchReaches DEF h, w
      <4> QED BY <2>3, <2>4, <4>3
    <3>2. /\ Row(place) \in Reached(Row(spot), h, 1) <=> Distance(Row(place), Row(spot)) <= 1
          /\ Column(place) \in Reached(Column(spot), w, 1) <=> Distance(Column(place), Column(spot)) <= 1
      BY <2>4, <2>5, ReachedIsAdjacent
    <3> QED BY <2>2, <2>6, <3>1, <3>2 DEF p
  <2>7. CASE p % 2 # 1
    <3>1. p % 2 = 0
      BY <2>4, <2>7
    <3>2. found' <=> Row(place) \in Reached(Row(spot), h, 2) /\ Column(place) \in Reached(Column(spot), w, 1)
      <4> DEFINE dlat == Step(LatRange(p), 5 * p - 2)
                 dlng == Step(LngRange(p), 5 * p)
      <4>1. dlat \in Int /\ dlng \in Int /\ StepsOver(dlat, 2) /\ StepsOver(dlng, 1)
        BY <2>4, <3>1, EvenSteps
      <4>2. dlat = Step(LatRange(p), 5 * p - 2) /\ dlng = Step(LngRange(p), 5 * p)
        OBVIOUS
      <4> HIDE DEF dlat, dlng
      <4>3. Encode(place, p) \in Neighbors(Encode(spot, p)) \cup {Encode(spot, p)} <=>
               /\ RowOf(place, p) \in Reached(RowOf(spot, p), h, 2)
               /\ ColumnOf(place, p) \in Reached(ColumnOf(spot, p), w, 1)
        BY <2>4, <4>1, <4>2, SearchReaches DEF h, w
      <4> QED BY <2>3, <2>4, <4>3
    <3>3. /\ Row(place) \in Reached(Row(spot), h, 2) => Distance(Row(place), Row(spot)) <= 2
          /\ Column(place) \in Reached(Column(spot), w, 1) <=> Distance(Column(place), Column(spot)) <= 1
      BY <2>4, <2>5, ReachedIsAdjacent
    <3> QED BY <2>2, <2>7, <3>2, <3>3 DEF p
  <2> QED BY <2>6, <2>7
<1>2. IInv /\ [Next]_vars =>
        [asked # asked' =>
           LET rows == Distance(Row(place), Row(asked'))
               columns == Distance(Column(place), Column(asked'))
           IN IF precision % 2 = 1 THEN found' <=> rows <= 1 /\ columns <= 1
                                   ELSE found' => rows <= 2 /\ columns <= 1]_vars
  BY <1>1
<1> QED BY <1>2, IInvHolds, PTL DEF Spec, NearbyIsFound
=============================================================================
