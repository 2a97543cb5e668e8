-------------------------- MODULE ArraySizes_proofs --------------------------
(***************************************************************************)
(* Proofs about the sizes and indices, for every width of an int.          *)
(***************************************************************************)
EXTENDS ArraySizes, TLAPS

\* What integer division returns.
LEMMA Division ==
  ASSUME NEW n \in Nat, NEW d \in Nat \ {0}
  PROVE  /\ n \div d \in Nat /\ n % d \in Nat
         /\ n = d * (n \div d) + (n % d)
         /\ n % d < d
<1>1. n \div d \in Nat
  BY Z3
<1>2. n % d \in Nat /\ n % d < d
  BY Z3
<1>3. n = d * (n \div d) + (n % d)
  BY Z3
<1> QED BY <1>1, <1>2, <1>3

\* Quotient and remainder are unique.
LEMMA Remainder ==
  ASSUME NEW d \in Nat \ {0}, NEW q \in Nat, NEW r \in Nat, r < d,
         NEW n \in Nat, n = d * q + r
  PROVE  n % d = r /\ n \div d = q
<1> DEFINE q2 == n \div d
           r2 == n % d
<1>1. q2 \in Nat /\ r2 \in Nat /\ n = d * q2 + r2 /\ r2 < d
  BY Division
<1> HIDE DEF q2, r2
<1>2. ASSUME NEW x \in Nat, NEW y \in Nat, x < y PROVE d * x + d <= d * y
  <2>1. d * (x + 1) = d * x + d
    BY Z3
  <2>2. d * (x + 1) <= d * y
    BY <1>2, Z3
  <2> QED
    BY <2>1, <2>2
<1> DEFINE p == d * q
           p2 == d * q2
<1>3. p \in Nat /\ p2 \in Nat /\ n = p + r /\ n = p2 + r2
  <2>1. d * q \in Nat /\ d * q2 \in Nat
    BY <1>1, Z3
  <2> QED
    BY <1>1, <2>1
<1>4. (q < q2 => p + d <= p2) /\ (q2 < q => p2 + d <= p)
  BY <1>1, <1>2
<1> HIDE DEF p, p2
<1>5. q = q2
  BY <1>1, <1>3, <1>4
<1>6. p = p2
  BY <1>5 DEF p, p2
<1>7. r = r2
  BY <1>1, <1>3, <1>6
<1> QED
  BY <1>5, <1>7 DEF q2, r2

\* Eight times a number has eight times its remainder.
LEMMA Scaled ==
  ASSUME NEW x \in Nat, NEW y \in Nat \ {0}
  PROVE  ((8 * x) % (8 * y)) \div 8 = x % y
<1> DEFINE q == x \div y
           r == x % y
<1>1. q \in Nat /\ r \in Nat /\ x = y * q + r /\ r < y
  BY Division
<1> HIDE DEF q, r
<1>2. 8 * x = (8 * y) * q + 8 * r
  <2> DEFINE p == y * q
  <2>1. (8 * y) * q = 8 * p
    BY <1>1, Z3
  <2>2. p \in Nat
    BY <1>1, Z3
  <2> HIDE DEF p
  <2>3. x = p + r
    BY <1>1 DEF p
  <2> QED
    BY <1>1, <2>1, <2>2, <2>3
<1>3. (8 * x) % (8 * y) = 8 * r
  <2> DEFINE d == 8 * y
             e == 8 * r
             n == 8 * x
  <2>1. d \in Nat \ {0} /\ e \in Nat /\ e < d /\ n \in Nat /\ n = d * q + e
    BY <1>1, <1>2
  <2> HIDE DEF d, e, n
  <2>2. n % d = e
    BY <1>1, <2>1, Remainder
  <2> QED
    BY <2>2 DEF d, e, n
<1>4. (8 * r) \div 8 = r
  BY <1>1
<1> QED
  BY <1>3, <1>4 DEF r

\* A remainder grows with the modulus.
LEMMA SmallerModulus ==
  ASSUME NEW x \in Nat, NEW d \in Nat \ {0}, NEW f \in Nat \ {0}
  PROVE  x % d <= x % (f * d)
<1> DEFINE D == f * d
           q == x \div D
           r == x % D
           s == r \div d
           t == r % d
<1>1. D \in Nat \ {0}
  BY Z3
<1>2. q \in Nat /\ r \in Nat /\ x = D * q + r /\ r < D
  BY <1>1, Division
<1>3. s \in Nat /\ t \in Nat /\ r = d * s + t /\ t < d
  BY <1>2, Division
<1> HIDE DEF q, r, s, t
<1>4. x = d * (f * q + s) + t
  <2>1. D * q = d * (f * q)
    BY <1>2, Z3
  <2>2. d * (f * q + s) = d * (f * q) + d * s
    BY <1>2, <1>3, Z3
  <2> DEFINE u == d * (f * q)
             v == d * s
             w == d * (f * q + s)
  <2>3. x = u + r /\ r = v + t /\ w = u + v /\ u \in Nat /\ v \in Nat
    <3>1. d * (f * q) \in Nat /\ d * s \in Nat
      BY <1>2, <1>3, Z3
    <3> QED
      BY <1>2, <1>3, <2>1, <2>2, <3>1
  <2> HIDE DEF u, v, w
  <2>4. x = w + t
    BY <1>3, <2>3
  <2> QED
    BY <2>4 DEF w
<1>5. f * q + s \in Nat
  BY <1>2, <1>3, Z3
<1>6. x % d = t
  BY <1>3, <1>4, <1>5, Remainder
<1>7. t <= r
  <2>1. d * s \in Nat
    BY <1>3, Z3
  <2> DEFINE v == d * s
  <2>2. r = v + t /\ v \in Nat
    BY <1>3, <2>1
  <2> HIDE DEF v
  <2> QED
    BY <1>2, <1>3, <2>2
<1>8. r = x % (f * d)
  BY DEF r
<1> QED
  BY <1>6, <1>7, <1>8, <1>2

\* The sizes are positive.
LEMMA Words == W \in Nat \ {0} /\ Half \in Nat \ {0} /\ W = 2 * Half /\ Half > 1
BY WordAssumption DEF W, Half

\* Fewer entries are accessed than were allocated.
LEMMA CountFits ==
  ASSUME size \in Int
  PROVE  Count \in Nat /\ Capacity \in Nat /\ Count <= Capacity
<1> DEFINE x == unsigned * unsigned
           y == W8 * W
<1>1. unsigned \in Nat
  BY Words DEF unsigned
<1>2. x \in Nat
  BY <1>1, Z3
<1>3. y \in Nat \ {0} /\ Wide = 8 * y
  <2>1. y \in Nat \ {0}
    BY Words, WordAssumption, Z3
  <2>2. W * W = 8 * (W8 * W)
    BY Words, WordAssumption, Z3 DEF W
  <2> QED
    BY <2>1, <2>2 DEF Wide
<1>4. Capacity = x % y
  <2> HIDE DEF x, y
  <2>1. ((8 * x) % (8 * y)) \div 8 = x % y
    BY <1>2, <1>3, Scaled
  <2> QED
    BY <1>3, <2>1 DEF Capacity, x
<1>5. Count <= x % y /\ Count \in Nat /\ x % y \in Nat
  <2>1. Count = x % W
    BY DEF Count
  <2> HIDE DEF x
  <2>2. x % W <= x % (W8 * W)
    BY <1>2, Words, WordAssumption, SmallerModulus
  <2>3. x % W \in Nat /\ x % y \in Nat
    BY <1>2, <1>3, Words, Division
  <2> QED
    BY <2>1, <2>2, <2>3
<1> QED
  BY <1>4, <1>5

\* Sizes whose square fits an int are not changed by the conversions.
LEMMA SmallCount ==
  ASSUME size \in Nat, size * size <= Half
  PROVE  Count = size * size
<1>1. size < W
  <2>1. ASSUME size >= W PROVE FALSE
    <3>1. size * size >= size
      BY Z3
    <3>2. size * size \in Nat
      BY Z3
    <3> DEFINE s == size * size
    <3>3. s >= size /\ s <= Half /\ s \in Nat
      BY <3>1, <3>2
    <3> HIDE DEF s
    <3> QED
      BY <2>1, <3>3, Words
  <2> QED
    BY <2>1, Words
<1>2. unsigned = size
  <2>1. size = W * 0 + size
    BY Words
  <2> QED
    BY <1>1, <2>1, Words, Remainder DEF unsigned
<1> DEFINE s == size * size
<1>3. s \in Nat /\ s <= Half
  BY Z3
<1>4. Count = s % W
  BY <1>2 DEF Count
<1> HIDE DEF s
<1>5. s < W /\ s = W * 0 + s
  BY <1>3, Words
<1>6. s % W = s
  BY <1>3, <1>5, Words, Remainder
<1> QED
  BY <1>4, <1>6 DEF s

\* The last index of a row is below the number of entries.
LEMMA LastInRow ==
  ASSUME size \in Nat, NEW r \in Nat, r < size
  PROVE  LastIndex(r) \in Nat /\ LastIndex(r) < size * size
<1>1. r * size \in Nat /\ (r + 1) * size = r * size + size
  BY Z3
<1>2. (r + 1) * size <= size * size
  BY Z3
<1> DEFINE p == r * size
           s == size * size
<1>3. p \in Nat /\ s \in Nat /\ p + size <= s
  <2>1. size * size \in Nat
    BY Z3
  <2> QED
    BY <1>1, <1>2, <2>1
<1>4. LastIndex(r) = p + (size - 1)
  BY DEF LastIndex
<1> HIDE DEF p, s
<1>5. LastIndex(r) \in Nat /\ LastIndex(r) < s
  BY <1>3, <1>4
<1> QED
  BY <1>5 DEF s

-----------------------------------------------------------------------------
\* How far each loop is, and when something goes wrong.
Inv ==
  /\ size \in -Half .. (Half - 1)
  /\ i \in Nat
  /\ fault \in {"none", "undefined", "uninitialized"}
  /\ fault # "none" => size * size > Half
  /\ phase \in {"generate", "duplicate", "solve"} => compared = 0
  /\ phase = "generate" => filled = i /\ i <= Count
  /\ phase # "generate" => filled = Count
  /\ phase = "check" => compared = i /\ i <= Count
  /\ phase = "ok" => compared = Count

LEMMA InitInv == Init => Inv
<1> SUFFICES ASSUME Init PROVE Inv
  OBVIOUS
<1>1. Count \in Nat
  BY CountFits, Words DEF Init
<1> QED
  BY <1>1, Words DEF Init, Inv

LEMMA InvStep == Inv /\ [Next \/ Stopped]_vars => Inv'
<1> SUFFICES ASSUME Inv, [Next \/ Stopped]_vars PROVE Inv'
  OBVIOUS
<1> USE DEF Inv
<1>1. size \in Int /\ Count \in Nat /\ Capacity \in Nat /\ Count <= Capacity
  BY CountFits, Words
<1>2. size' = size /\ Count' = Count
  BY DEF Next, Stopped, vars, Generate, Generated, Duplicate, SolveRow, SolveReturns,
         Agree, Differ, AllAgree, Count, unsigned
<1>3. CASE fault = "none" /\ Generate
  BY <1>1, <1>2, <1>3 DEF Generate, InBuffer
<1>4. CASE fault = "none" /\ Generated
  BY <1>1, <1>2, <1>4 DEF Generated
<1>5. CASE fault = "none" /\ Duplicate
  BY <1>1, <1>2, <1>5 DEF Duplicate
<1>6. CASE fault = "none" /\ SolveRow
  <2>1. size \in Nat /\ LastIndex(i) \in Nat /\ LastIndex(i) < size * size
    BY <1>1, <1>6, LastInRow DEF SolveRow
  <2> DEFINE s == size * size
             l == LastIndex(i)
  <2>2. s \in Nat /\ l \in Nat /\ l < s
    <3>1. size * size \in Nat
      BY <2>1, Z3
    <3> QED
      BY <2>1, <3>1
  <2>3. /\ fault' \in {"none", "undefined", "uninitialized"}
        /\ fault' # "none" => l >= Half \/ l >= Capacity \/ l >= filled
    BY <1>6 DEF SolveRow
  <2>4. s <= Half => Count = s
    BY <2>1, SmallCount
  <2>5. filled = Count /\ phase = "solve"
    BY <1>6 DEF SolveRow
  <2> HIDE DEF s, l
  <2>6. fault' # "none" => s > Half
    BY <1>1, <2>2, <2>3, <2>4, <2>5, Words
  <2>7. fault' # "none" => size' * size' > Half
    BY <1>2, <2>6 DEF s
  <2> QED
    BY <1>1, <1>2, <1>6, <2>3, <2>7 DEF SolveRow
<1>7. CASE fault = "none" /\ SolveReturns
  <2>1. ASSUME size - 1 < -Half PROVE size * size > Half
    <3>1. size = -Half
      BY <2>1, Words
    <3>2. Half * Half > Half
      BY Words, Z3
    <3>3. size * size = Half * Half
      BY <3>1, Words, Z3
    <3> QED
      BY <3>2, <3>3
  <2> QED
    BY <1>1, <1>2, <1>7, <2>1 DEF SolveReturns
<1>8. CASE fault = "none" /\ Agree
  BY <1>1, <1>2, <1>8 DEF Agree, InBuffer, CheckCount
<1>9. CASE fault = "none" /\ Differ
  BY <1>1, <1>2, <1>9 DEF Differ, InBuffer, CheckCount
<1>10. CASE fault = "none" /\ AllAgree
  BY <1>1, <1>2, <1>10 DEF AllAgree, CheckCount
<1>11. CASE UNCHANGED vars
  BY <1>2, <1>11 DEF vars
<1> QED
  BY <1>3, <1>4, <1>5, <1>6, <1>7, <1>8, <1>9, <1>10, <1>11 DEF Next, Stopped

LEMMA Invariance == Spec => []Inv
BY InitInv, InvStep, PTL DEF Spec

\* The loops and copies of main.c (lines 10-50) stay within their buffers for
\* every size, whatever the width of an int.
THEOREM LoopsStayInBounds == Spec => []LoopsInBounds
<1>1. Inv => LoopsInBounds
  BY DEF Inv, LoopsInBounds
<1> QED
  BY <1>1, Invariance, PTL

\* The indices of my_dgesv (dgesv.c, lines 11-61) are defined and refer to
\* generated entries while size * size fits an int.
THEOREM SmallSizesAreDefined == Spec => []SmallIsDefined
<1>1. Inv => SmallIsDefined
  BY DEF Inv, SmallIsDefined
<1> QED
  BY <1>1, Invariance, PTL

\* For those sizes check_result (main.c, lines 40-50) compares all of b before
\* main says ok.
THEOREM OkIsAboutTheSystem == Spec => []OkCoversSystem
<1>1. Inv => OkCoversSystem
  <2> SUFFICES ASSUME Inv, phase = "ok", size >= 0, size * size <= Half
               PROVE  compared = size * size /\ filled = size * size
    BY DEF OkCoversSystem
  <2>1. size \in Nat
    BY Words DEF Inv
  <2>2. Count = size * size
    BY <2>1, SmallCount
  <2> QED
    BY <2>2 DEF Inv
<1> QED
  BY <1>1, Invariance, PTL

=============================================================================
