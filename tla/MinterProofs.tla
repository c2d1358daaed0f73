----------------------------- MODULE MinterProofs -----------------------------
(***************************************************************************)
(* Proofs about the minter and the requests that mint, for all alphabets,  *)
(* primes, masks and rules.                                                *)
(*                                                                         *)
(* No number is dealt out twice under one mask (Dealt): the numbers under  *)
(* the present mask are the ones each counter has passed, every counter    *)
(* keeps to a range of its own, and older masks are shorter.  The minter   *)
(* never stops, and before it extends a mask every string of the mask was  *)
(* minted (Counted, AllMinted): the count of mints is the sum of the       *)
(* counters' values, the tops of the counters sum to the total, the total  *)
(* is the product of the bases of the mask, and a number modulo the total  *)
(* and the string of its digits determine each other.  A minter behind the *)
(* identifier table (Claims): every failure is paid for by an identifier it*)
(* did not know of, and passes that one for good.                          *)
(*                                                                         *)
(* What a fold over a mask computes is shown by a least counterexample, as *)
(* the natural numbers are well-founded.                                   *)
(***************************************************************************)
EXTENDS Minting, SequenceTheorems, FiniteSetTheorems, WellFoundedInduction, TLAPS

\* Where the numbers minted so far come from.
Dealt ==
    \A m \in minted :
        \/ Len(m.mask) < Len(minter.mask)
        \/ /\ m.mask = minter.mask
           /\ \E k \in DOMAIN minter.counters :
                 \E v \in 1..minter.counters[k].value :
                     m.number = v + k * minter.perCounter

\* The row has the fields of the code's and no other.
IsRow(m) ==
    m = [mask |-> m.mask, baseCount |-> m.baseCount, combined |-> m.combined,
         total |-> m.total, perCounter |-> m.perCounter, counters |-> m.counters,
         active |-> m.active]

IInv == RowOK /\ IsRow(minter) /\ Len(minter.mask) <= MaxLength /\ Dealt

-----------------------------------------------------------------------------
(* Masks *)

\* _extend_mask returns a mask, "add0" the same one and "addN" a longer one.
LEMMA ExtendMaskLonger ==
    ASSUME NEW mask \in Masks \ {<<>>}, NEW n \in Nat
    PROVE  /\ ExtendMask(mask, n) \in Masks \ {<<>>}
           /\ Len(mask) <= Len(ExtendMask(mask, n))
           /\ n # 0 => Len(mask) < Len(ExtendMask(mask, n))
           /\ n = 0 => Len(ExtendMask(mask, n)) = Len(mask)
<1> DEFINE j == IF n < Len(mask) THEN n ELSE Len(mask)
<1>1. Len(mask) \in Nat \ {0} /\ j \in 0..Len(mask)
  BY EmptySeq, LenProperties DEF Masks
<1>2. SubSeq(mask, 1, j) \in Masks /\ Len(SubSeq(mask, 1, j)) = j
  BY <1>1, SubSeqProperties DEF Masks
<1>3. SubSeq(mask, 1, j) \o mask \in Masks /\ Len(SubSeq(mask, 1, j) \o mask) = j + Len(mask)
  BY <1>2, ConcatProperties DEF Masks
<1>4. ExtendMask(mask, n) = SubSeq(mask, 1, j) \o mask
  BY DEF ExtendMask
<1> HIDE DEF j
<1>5. n # 0 => j # 0
  BY <1>1 DEF j
<1>6. n = 0 => j = 0
  BY <1>1 DEF j
<1>7. ExtendMask(mask, n) # <<>>
  BY <1>1, <1>3, <1>4, EmptySeq
<1>8. QED
  BY <1>1, <1>3, <1>4, <1>5, <1>6, <1>7

-----------------------------------------------------------------------------
(* Weights                                                                 *)

LEMMA LeastNumber ==
    ASSUME NEW S \in SUBSET Nat, S # {}
    PROVE  \E n \in S : \A m \in S : n <= m
<1>1. PICK n \in S : \A m \in S : ~(<<m, n>> \in OpToRel(<, Nat))
  BY NatLessThanWellFounded, WFMin
<1>2. \A m \in S : ~(m < n)
  BY <1>1 DEF OpToRel
<1>3. QED
  BY <1>2

\* p[s] is the product of the f[x] for x in s.
Product(f, n, p) ==
    /\ p \in [SUBSET (1..n) -> Nat \ {0}]
    /\ p[{}] = 1
    /\ \A s \in SUBSET (1..n) : \A x \in s : p[s] = f[x] * p[s \ {x}]

LEMMA ProductExists ==
    ASSUME NEW n \in Nat, NEW f \in [1..n -> Nat \ {0}]
    PROVE  \E p : Product(f, n, p)
<1> DEFINE Bad == {k \in 0..n : ~\E p : Product(f, k, p)}
<1> SUFFICES ASSUME Bad # {} PROVE FALSE
  <2>1. n \in 0..n
    OBVIOUS
  <2>2. QED
    BY <2>1
<1>1. PICK k \in Bad : \A m \in Bad : k <= m
  <2>1. Bad \in SUBSET Nat
    OBVIOUS
  <2>2. QED
    BY <2>1, LeastNumber
<1>2. k # 0
  <2> DEFINE p == [s \in SUBSET (1..0) |-> 1]
  <2>1. \A s \in SUBSET (1..0) : s = {}
    OBVIOUS
  <2>2. Product(f, 0, p)
    BY <2>1 DEF Product
  <2>3. QED
    BY <2>2
<1>3. k \in 1..n /\ k - 1 \in 0..n /\ k - 1 \notin Bad
  BY <1>1, <1>2
<1>4. PICK q : Product(f, k - 1, q)
  BY <1>3
<1> DEFINE old == SUBSET (1..(k - 1))
           p == [s \in SUBSET (1..k) |-> IF k \in s THEN f[k] * q[s \ {k}] ELSE q[s]]
<1>5. /\ q \in [old -> Nat \ {0}] /\ q[{}] = 1
      /\ \A s \in old : \A x \in s : q[s] = f[x] * q[s \ {x}]
  BY <1>4 DEF Product
<1>6. f[k] \in Nat \ {0} /\ \A x \in 1..k : f[x] \in Nat \ {0}
  BY <1>3
<1>7. \A s \in SUBSET (1..k) : s \ {k} \in old /\ (k \notin s => s \in old)
  BY <1>3
<1>8. ASSUME NEW a \in Nat \ {0}, NEW b \in Nat \ {0} PROVE a * b \in Nat \ {0}
  OBVIOUS
<1>9. p \in [SUBSET (1..k) -> Nat \ {0}]
  <2>1. ASSUME NEW s \in SUBSET (1..k)
        PROVE  (IF k \in s THEN f[k] * q[s \ {k}] ELSE q[s]) \in Nat \ {0}
    <3>1. CASE k \in s
      <4>1. q[s \ {k}] \in Nat \ {0}
        BY <1>5, <1>7
      <4>2. QED
        BY <1>6, <1>8, <3>1, <4>1
    <3>2. CASE k \notin s
      BY <1>5, <1>7, <3>2
    <3>3. QED
      BY <3>1, <3>2
  <2>2. QED
    BY <2>1
<1>10. p[{}] = 1
  BY <1>5
<1>11. ASSUME NEW s \in SUBSET (1..k), NEW x \in s
       PROVE  p[s] = f[x] * p[s \ {x}]
  <2>1. x \in 1..k /\ s \ {x} \in SUBSET (1..k)
    OBVIOUS
  <2>2. CASE x = k
    BY <2>1, <2>2
  <2>3. CASE x # k /\ k \notin s
    BY <1>5, <1>7, <2>1, <2>3
  <2>4. CASE x # k /\ k \in s
    <3>1. /\ p[s] = f[k] * q[s \ {k}]
          /\ p[s \ {x}] = f[k] * q[(s \ {x}) \ {k}]
      BY <2>1, <2>4
    <3>2. s \ {k} \in old /\ x \in s \ {k} /\ (s \ {k}) \ {x} = (s \ {x}) \ {k}
      BY <1>7, <2>4
    <3>3. q[s \ {k}] = f[x] * q[(s \ {x}) \ {k}]
      BY <1>5, <3>2
    <3>4. q[(s \ {x}) \ {k}] \in Nat
      BY <1>5, <1>7, <2>1
    <3>5. \A a, b, c \in Nat : a * (b * c) = b * (a * c)
      OBVIOUS
    <3>6. f[k] \in Nat /\ f[x] \in Nat
      BY <1>6, <2>1
    <3> HIDE DEF p
    <3>7. QED
      BY <3>1, <3>3, <3>4, <3>5, <3>6
  <2>5. QED
    BY <2>2, <2>3, <2>4
<1>12. Product(f, k, p)
  <2> HIDE DEF p
  <2>1. QED
    BY <1>9, <1>10, <1>11 DEF Product
<1>13. QED
  BY <1>1, <1>12

\* What a fold over positions satisfies, whatever order it chooses.
FoldsTo(f, P, g) ==
    g = [s \in SUBSET P |->
           IF s = {} THEN 1 ELSE f[CHOOSE x \in s : TRUE] * g[s \ {CHOOSE x \in s : TRUE}]]

\* The product is what Weight folds to.
LEMMA WeightIsProduct ==
    ASSUME NEW mask \in Masks, NEW P \in SUBSET DOMAIN mask,
           NEW p, Product([i \in DOMAIN mask |-> base(mask[i])], Len(mask), p)
    PROVE  Weight(mask, P) = p[P]
<1> DEFINE n == Len(mask)
           f == [i \in DOMAIN mask |-> base(mask[i])]
           g == CHOOSE h : FoldsTo(f, P, h)
           w == [s \in SUBSET P |-> p[s]]
<1>1. n \in Nat /\ DOMAIN mask = 1..n
  BY DEF Masks
<1>2. Weight(mask, P) = g[P]
  BY DEF Weight, FoldFunctionOnSet, MapThenFoldSet, FoldsTo
<1> HIDE DEF f, n
<1>3. /\ p[{}] = 1
      /\ \A s \in SUBSET (1..n) : \A x \in s : p[s] = f[x] * p[s \ {x}]
  BY DEF Product, n, f
<1>4. \A s \in SUBSET P :
          p[s] = IF s = {} THEN 1
                 ELSE f[CHOOSE x \in s : TRUE] * p[s \ {CHOOSE x \in s : TRUE}]
  <2> TAKE s \in SUBSET P
  <2>1. CASE s # {}
    <3>1. (CHOOSE x \in s : TRUE) \in s
      BY <2>1
    <3>2. QED
      BY <1>1, <1>3, <2>1, <3>1
  <2>2. CASE s = {}
    BY <1>3, <2>2
  <2>3. QED
    BY <2>1, <2>2
<1>5. FoldsTo(f, P, w)
  <2>1. \A s \in SUBSET P : w[s] = p[s] /\ w[s \ {CHOOSE x \in s : TRUE}] = p[s \ {CHOOSE x \in s : TRUE}]
    OBVIOUS
  <2>2. w = [s \in SUBSET P |->
               IF s = {} THEN 1
               ELSE f[CHOOSE x \in s : TRUE] * w[s \ {CHOOSE x \in s : TRUE}]]
    BY <1>4, <2>1
  <2> HIDE DEF w
  <2>3. QED
    BY <2>2 DEF FoldsTo
<1>6. FoldsTo(f, P, g)
  BY <1>5
<1> HIDE DEF g
<1>7. \A s \in SUBSET P :
          g[s] = IF s = {} THEN 1
                 ELSE f[CHOOSE x \in s : TRUE] * g[s \ {CHOOSE x \in s : TRUE}]
  BY <1>6 DEF FoldsTo
<1>8. \A s \in SUBSET P : IsFiniteSet(s) /\ Cardinality(s) \in Nat
  <2> TAKE s \in SUBSET P
  <2>1. IsFiniteSet(1..n) /\ s \in SUBSET (1..n)
    BY <1>1, FS_Interval
  <2>2. IsFiniteSet(s)
    BY <2>1, FS_Subset
  <2>3. QED
    BY <2>2, FS_CardinalityType
<1> DEFINE Bad == {c \in Nat : \E s \in SUBSET P : Cardinality(s) = c /\ g[s] # p[s]}
<1>9. Bad = {}
  <2> SUFFICES ASSUME Bad # {} PROVE FALSE
    OBVIOUS
  <2>1. PICK c \in Bad : \A d \in Bad : c <= d
    BY LeastNumber
  <2>2. PICK s \in SUBSET P : Cardinality(s) = c /\ g[s] # p[s]
    BY <2>1
  <2>3. s # {}
    BY <1>4, <1>7, <2>2
  <2> DEFINE x == CHOOSE x \in s : TRUE
  <2>4. x \in s
    BY <2>3
  <2> HIDE DEF x
  <2>5. Cardinality(s \ {x}) = c - 1 /\ c - 1 \in Nat
    <3>1. Cardinality(s \ {x}) = c - 1
      BY <1>8, <2>2, <2>4, FS_RemoveElement
    <3>2. Cardinality(s \ {x}) \in Nat
      BY <1>8
    <3>3. QED
      BY <3>1, <3>2
  <2>6. ~(c <= c - 1)
    BY <2>5
  <2>7. g[s \ {x}] = p[s \ {x}]
    BY <2>1, <2>5, <2>6
  <2>8. QED
    BY <1>4, <1>7, <2>2, <2>3, <2>7 DEF x
<1>10. Cardinality(P) \in Nat /\ P \in SUBSET P
  BY <1>8
<1>11. QED
  BY <1>2, <1>9, <1>10

\* A weight is the base of any one of its positions times that of the others.
LEMMA Weights ==
    ASSUME NEW mask \in Masks
    PROVE  /\ Weight(mask, {}) = 1
           /\ \A P \in SUBSET DOMAIN mask : Weight(mask, P) \in Nat \ {0}
           /\ \A P \in SUBSET DOMAIN mask : \A x \in P :
                 Weight(mask, P) = base(mask[x]) * Weight(mask, P \ {x})
<1> DEFINE n == Len(mask)
           f == [i \in DOMAIN mask |-> base(mask[i])]
<1>1. n \in Nat /\ DOMAIN mask = 1..n
  BY DEF Masks
<1>2. f \in [1..n -> Nat \ {0}]
  BY <1>1, MinterAssumption DEF base
<1> HIDE DEF n
<1>3. PICK p : Product(f, n, p)
  <2> HIDE DEF f
  <2>1. QED
    BY <1>1, <1>2, ProductExists
<1>4. \A P \in SUBSET DOMAIN mask : Weight(mask, P) = p[P]
  BY <1>3, WeightIsProduct DEF n
<1>5. /\ p \in [SUBSET (1..n) -> Nat \ {0}] /\ p[{}] = 1
      /\ \A P \in SUBSET (1..n) : \A x \in P : p[P] = f[x] * p[P \ {x}]
  BY <1>3 DEF Product
<1>6. \A x \in DOMAIN mask : f[x] = base(mask[x])
  OBVIOUS
<1> HIDE DEF f
<1>7. Weight(mask, {}) = 1
  BY <1>4, <1>5
<1>8. ASSUME NEW P \in SUBSET DOMAIN mask
      PROVE  Weight(mask, P) \in Nat \ {0}
  BY <1>1, <1>4, <1>5
<1>9. ASSUME NEW P \in SUBSET DOMAIN mask, NEW x \in P
      PROVE  Weight(mask, P) = base(mask[x]) * Weight(mask, P \ {x})
  <2>1. P \ {x} \in SUBSET DOMAIN mask /\ x \in DOMAIN mask
    OBVIOUS
  <2>2. p[P] = f[x] * p[P \ {x}]
    BY <1>1, <1>5
  <2>3. QED
    BY <1>4, <1>6, <2>1, <2>2
<1>10. QED
  BY <1>7, <1>8, <1>9

\* Every mask has strings.
LEMMA MaskHasStrings ==
    ASSUME NEW mask \in Masks
    PROVE  MaxCount(mask) \in Nat \ {0}
  BY Weights DEF MaxCount

-----------------------------------------------------------------------------
(* Counters *)

\* The ranges of two counters do not meet.
LEMMA RangesDisjoint ==
    ASSUME NEW per \in Nat \ {0}, NEW j \in Nat, NEW k \in Nat,
           NEW u \in 1..per, NEW v \in 1..per, u + j * per = v + k * per
    PROVE  j = k /\ u = v
<1>1. ~(j < k)
  <2> SUFFICES ASSUME j < k PROVE FALSE
    OBVIOUS
  <2>1. PICK d \in Nat : k = j + 1 + d
    <3>1. k - j - 1 \in Nat /\ k = j + 1 + (k - j - 1)
      OBVIOUS
    <3>2. QED
      BY <3>1
  <2>2. k * per = j * per + per + d * per
    BY <2>1
  <2>3. d * per \in Nat /\ j * per \in Nat
    OBVIOUS
  <2>4. QED
    BY <2>2, <2>3
<1>2. ~(k < j)
  <2> SUFFICES ASSUME k < j PROVE FALSE
    OBVIOUS
  <2>1. PICK d \in Nat : j = k + 1 + d
    <3>1. j - k - 1 \in Nat /\ j = k + 1 + (j - k - 1)
      OBVIOUS
    <3>2. QED
      BY <3>1
  <2>2. j * per = k * per + per + d * per
    BY <2>1
  <2>3. d * per \in Nat /\ k * per \in Nat
    OBVIOUS
  <2>4. QED
    BY <2>2, <2>3
<1>3. j = k
  BY <1>1, <1>2
<1>4. j * per \in Nat
  OBVIOUS
<1>5. QED
  BY <1>3, <1>4

\* A counter is never given more numbers than the total over the prime, and one.
LEMMA PerCounterPositive ==
    ASSUME NEW total \in Nat
    PROVE  PerCounter(total) \in Nat \ {0}
BY MinterAssumption DEF PerCounter

\* _generate_active_counter_list makes counters at zero with a top in range.
LEMMA NewCountersFine ==
    ASSUME NEW total \in Nat \ {0}
    PROVE  /\ DOMAIN NewCounters(total) \subseteq 0..total
           /\ \A k \in DOMAIN NewCounters(total) :
                 NewCounters(total)[k] \in [top: 1..PerCounter(total), value: {0}]
           /\ NewCounters(total) \in
                [DOMAIN NewCounters(total) ->
                    [top: 1..PerCounter(total), value: 0..PerCounter(total)]]
<1> DEFINE per == PerCounter(total)
           D == {j \in 0..total : j * per < total}
           top(k) == IF (k + 1) * per <= total THEN per ELSE total - k * per
<1>1. per \in Nat \ {0}
  BY PerCounterPositive
<1> HIDE DEF per
<1>2. NewCounters(total) = [k \in D |-> [top |-> top(k), value |-> 0]]
  BY DEF NewCounters, per
<1>3. ASSUME NEW k \in D
      PROVE  top(k) \in 1..per
  <2>1. k \in Nat /\ k * per \in Nat /\ k * per < total
    BY <1>1
  <2>2. (k + 1) * per = k * per + per
    BY <1>1, <2>1
  <2>3. CASE (k + 1) * per <= total
    BY <1>1, <2>3
  <2>4. CASE ~((k + 1) * per <= total)
    <3>1. total - k * per \in 1..per
      BY <1>1, <2>1, <2>2, <2>4
    <3>2. QED
      BY <2>4, <3>1
  <2>5. QED
    BY <2>3, <2>4
<1>4. D \subseteq 0..total
  OBVIOUS
<1> HIDE DEF D, top
<1>5. DOMAIN NewCounters(total) = D
  BY <1>2
<1>6. \A k \in D : NewCounters(total)[k] = [top |-> top(k), value |-> 0]
  BY <1>2
<1>7. ASSUME NEW k \in D
      PROVE  /\ NewCounters(total)[k] \in [top: 1..per, value: {0}]
             /\ NewCounters(total)[k] \in [top: 1..per, value: 0..per]
  <2>1. PICK t \in 1..per : NewCounters(total)[k] = [top |-> t, value |-> 0]
    BY <1>3, <1>6
  <2>2. 0 \in 0..per
    BY <1>1
  <2>3. QED
    BY <2>1, <2>2
<1>8. \A k \in D : NewCounters(total)[k] \in [top: 1..per, value: 0..per]
  BY <1>7
<1>9. NewCounters(total) \in [D -> [top: 1..per, value: 0..per]]
  <2>1. NewCounters(total) = [k \in D |-> NewCounters(total)[k]]
    BY <1>2, <1>5
  <2>2. QED
    BY <1>8, <2>1
<1>10. QED
  BY <1>4, <1>5, <1>7, <1>9 DEF per
-----------------------------------------------------------------------------
(* Digits                                                                  *)

\* Induction on the numbers up to n, upwards and downwards.
LEMMA Upwards ==
    ASSUME NEW n \in Nat, NEW S, 0 \in S, \A i \in 1..n : i - 1 \in S => i \in S
    PROVE  0..n \subseteq S
<1> DEFINE Bad == {i \in 0..n : i \notin S}
<1> SUFFICES ASSUME Bad # {} PROVE FALSE
  OBVIOUS
<1>1. PICK k \in Bad : \A m \in Bad : k <= m
  <2>1. Bad \in SUBSET Nat
    OBVIOUS
  <2>2. QED
    BY <2>1, LeastNumber
<1>2. k \in 1..n /\ k - 1 \in 0..n /\ ~(k <= k - 1)
  BY <1>1
<1>3. k - 1 \in S
  BY <1>1, <1>2
<1>4. QED
  BY <1>1, <1>2, <1>3

LEMMA Downwards ==
    ASSUME NEW n \in Nat, NEW S, n \in S, \A i \in 1..n : i \in S => i - 1 \in S
    PROVE  0..n \subseteq S
<1> DEFINE T == {i \in 0..n : n - i \in S}
<1>1. 0 \in T
  BY Z3
<1>2. ASSUME NEW i \in 1..n, i - 1 \in T PROVE i \in T
  <2>1. n - (i - 1) \in 1..n /\ n - (i - 1) \in S
    BY <1>2
  <2>2. n - (i - 1) - 1 \in S
    BY <2>1
  <2>3. n - (i - 1) - 1 = n - i
    OBVIOUS
  <2>4. QED
    BY <2>2, <2>3
<1>3. 0..n \subseteq T
  <2> HIDE DEF T
  <2>1. QED
    BY <1>1, <1>2, Upwards
<1>4. ASSUME NEW i \in 0..n PROVE i \in S
  <2>1. n - i \in 0..n
    OBVIOUS
  <2>2. n - (n - i) \in S /\ n - (n - i) = i
    BY <1>3, <2>1
  <2>3. QED
    BY <2>2
<1>5. QED
  BY <1>4

LEMMA Division ==
    ASSUME NEW v \in Nat, NEW b \in Nat \ {0}
    PROVE  v \div b \in Nat /\ v % b \in 0..(b - 1) /\ v = (v \div b) * b + (v % b)
  OBVIOUS

LEMMA DivisionIs ==
    ASSUME NEW q \in Nat, NEW b \in Nat \ {0}, NEW r \in 0..(b - 1)
    PROVE  (q * b + r) \div b = q /\ (q * b + r) % b = r
<1> DEFINE v == q * b + r
<1>1. v \in Nat
  OBVIOUS
<1>2. /\ v \div b \in Nat /\ v % b \in 0..(b - 1)
      /\ v = (v \div b) * b + (v % b)
  BY <1>1, Division
<1> DEFINE e == v \div b
           f == v % b
<1>3. e \in Nat /\ f \in 0..(b - 1) /\ q * b + r = e * b + f
  BY <1>2
<1> HIDE DEF v, e, f
<1>4. r + 1 \in 1..b /\ f + 1 \in 1..b
  BY <1>3
<1>5. (r + 1) + q * b = (f + 1) + e * b
  <2>1. q * b \in Nat /\ e * b \in Nat
    BY <1>3
  <2>2. QED
    BY <1>3, <2>1
<1>6. q = e /\ r + 1 = f + 1
  BY <1>3, <1>4, <1>5, RangesDisjoint
<1>7. QED
  BY <1>3, <1>6 DEF e, f, v

\* To divide by a product is to divide by the one and then by the other.
LEMMA DivisionTwice ==
    ASSUME NEW v \in Nat, NEW a \in Nat \ {0}, NEW b \in Nat \ {0}
    PROVE  v \div (b * a) = (v \div a) \div b
<1> DEFINE q == v \div a
           r == v % a
           p == q \div b
           s == q % b
<1>1. q \in Nat /\ r \in 0..(a - 1) /\ v = q * a + r
  BY Division
<1> HIDE DEF q, r
<1>2. p \in Nat /\ s \in 0..(b - 1) /\ q = p * b + s
  BY <1>1, Division
<1> HIDE DEF p, s
<1>3. v = p * (b * a) + (s * a + r)
  <2>1. q * a = p * (b * a) + s * a
    BY <1>1, <1>2
  <2>2. s * a \in Nat /\ p * (b * a) \in Nat
    BY <1>2
  <2>3. QED
    BY <1>1, <2>1, <2>2
<1>4. s * a + r \in 0..(b * a - 1) /\ b * a \in Nat \ {0}
  <2>1. PICK t \in Nat : b = s + 1 + t
    <3>1. b - s - 1 \in Nat /\ b = s + 1 + (b - s - 1)
      BY <1>2
    <3>2. QED
      BY <3>1
  <2>2. b * a = s * a + a + t * a
    BY <1>2, <2>1
  <2>3. s * a \in Nat /\ t * a \in Nat
    BY <1>2, <2>1
  <2>4. QED
    BY <1>1, <2>2, <2>3
<1>5. v \div (b * a) = p
  BY <1>2, <1>3, <1>4, DivisionIs
<1>6. QED
  BY <1>5 DEF p, q

\* How many strings the positions after i have.
Suffix(mask) == [i \in 0..Len(mask) |-> Weight(mask, (i + 1)..Len(mask))]

LEMMA Suffixes ==
    ASSUME NEW mask \in Masks
    PROVE  /\ Len(mask) \in Nat /\ DOMAIN mask = 1..Len(mask)
           /\ Suffix(mask) \in [0..Len(mask) -> Nat \ {0}]
           /\ Suffix(mask)[Len(mask)] = 1
           /\ Suffix(mask)[0] = MaxCount(mask)
           /\ \A i \in 1..Len(mask) :
                 /\ base(mask[i]) \in Nat \ {0}
                 /\ Suffix(mask)[i - 1] = base(mask[i]) * Suffix(mask)[i]
<1> DEFINE n == Len(mask)
<1>1. n \in Nat /\ DOMAIN mask = 1..n
  BY DEF Masks
<1>2. \A i \in 0..n : (i + 1)..n \in SUBSET (1..n)
  BY <1>1
<1>3. Suffix(mask) \in [0..n -> Nat \ {0}]
  BY <1>1, <1>2, Weights DEF Suffix
<1>4. Suffix(mask)[n] = 1
  <2>1. (n + 1)..n = {}
    BY <1>1
  <2>2. QED
    BY <1>1, <2>1, Weights DEF Suffix
<1>5. Suffix(mask)[0] = MaxCount(mask)
  BY <1>1 DEF Suffix, MaxCount
<1>6. ASSUME NEW i \in 1..n
      PROVE  /\ base(mask[i]) \in Nat \ {0}
             /\ Suffix(mask)[i - 1] = base(mask[i]) * Suffix(mask)[i]
  <2>1. i \in 0..n /\ i - 1 \in 0..n /\ i - 1 + 1 = i
    BY <1>1
  <2>2. i..n \in SUBSET DOMAIN mask /\ i \in i..n /\ (i..n) \ {i} = (i + 1)..n
    BY <1>1
  <2>3. Weight(mask, i..n) = base(mask[i]) * Weight(mask, (i + 1)..n)
    BY <2>2, Weights
  <2>4. QED
    BY <2>1, <2>3, MinterAssumption DEF Suffix, base
<1>7. QED
  BY <1>1, <1>3, <1>4, <1>5, <1>6

\* The strings of a mask.
StringsOf(mask) ==
    {d \in [DOMAIN mask -> 0..(AlphaCount + DigitCount)] :
        \A i \in DOMAIN mask : d[i] < base(mask[i])}

\* What is left of a number when the digits after i are dropped.
Quotient(mask, v) == [i \in 0..Len(mask) |-> v \div Suffix(mask)[i]]

LEMMA Quotients ==
    ASSUME NEW mask \in Masks, NEW v \in Nat
    PROVE  /\ Quotient(mask, v) \in [0..Len(mask) -> Nat]
           /\ Quotient(mask, v)[Len(mask)] = v
           /\ v < MaxCount(mask) => Quotient(mask, v)[0] = 0
           /\ xdigs(mask, v) \in StringsOf(mask)
           /\ \A i \in 1..Len(mask) :
                 /\ Quotient(mask, v)[i] =
                       Quotient(mask, v)[i - 1] * base(mask[i]) + xdigs(mask, v)[i]
                 /\ Quotient(mask, v)[i - 1] = Quotient(mask, v)[i] \div base(mask[i])
                 /\ xdigs(mask, v)[i] = Quotient(mask, v)[i] % base(mask[i])
<1> DEFINE n == Len(mask)
           W == Suffix(mask)
           q == Quotient(mask, v)
<1>1. /\ n \in Nat /\ DOMAIN mask = 1..n
      /\ W \in [0..n -> Nat \ {0}] /\ W[n] = 1 /\ W[0] = MaxCount(mask)
      /\ \A i \in 1..n : base(mask[i]) \in Nat \ {0} /\ W[i - 1] = base(mask[i]) * W[i]
  BY Suffixes
<1>2. \A i \in 0..n : q[i] = v \div W[i] /\ q[i] \in Nat
  BY <1>1, Division DEF Quotient
<1>3. q \in [0..n -> Nat]
  BY <1>2 DEF Quotient
<1>4. q[n] = v
  <2>1. v = v * 1 + 0 /\ 0 \in 0..(1 - 1)
    OBVIOUS
  <2>2. v \div 1 = v
    BY <2>1, DivisionIs
  <2>3. QED
    BY <1>1, <1>2, <2>2
<1>5. ASSUME v < MaxCount(mask) PROVE q[0] = 0
  <2>1. W[0] \in Nat \ {0} /\ v \in 0..(W[0] - 1)
    BY <1>1, <1>5
  <2>2. v = 0 * W[0] + v
    BY <2>1
  <2>3. v \div W[0] = 0
    BY <2>1, <2>2, DivisionIs
  <2>4. QED
    BY <1>1, <1>2, <2>3
<1>6. \A i \in 1..n : xdigs(mask, v)[i] = q[i] % base(mask[i])
  BY <1>1, <1>2 DEF xdigs, Suffix
<1> HIDE DEF q, W
<1>7. ASSUME NEW i \in 1..n
      PROVE  /\ q[i - 1] = q[i] \div base(mask[i])
             /\ q[i] = q[i - 1] * base(mask[i]) + xdigs(mask, v)[i]
             /\ xdigs(mask, v)[i] \in 0..(base(mask[i]) - 1)
  <2>1. /\ i \in 0..n /\ i - 1 \in 0..n /\ base(mask[i]) \in Nat \ {0}
        /\ W[i] \in Nat \ {0} /\ W[i - 1] = base(mask[i]) * W[i]
    BY <1>1
  <2>2. q[i - 1] = q[i] \div base(mask[i])
    <3>1. q[i - 1] = v \div (base(mask[i]) * W[i]) /\ q[i] = v \div W[i]
      BY <1>2, <2>1
    <3>2. v \div (base(mask[i]) * W[i]) = (v \div W[i]) \div base(mask[i])
      BY <2>1, DivisionTwice
    <3>3. QED
      BY <3>1, <3>2
  <2> DEFINE b == base(mask[i])
             e == q[i]
  <2>3. e \in Nat /\ b \in Nat \ {0}
    BY <1>2, <2>1
  <2> HIDE DEF e, b
  <2>4. e % b \in 0..(b - 1) /\ e = (e \div b) * b + (e % b)
    BY <2>3, Division
  <2>5. QED
    BY <1>6, <2>2, <2>4 DEF e, b
<1>8. xdigs(mask, v) \in StringsOf(mask)
  <2>1. xdigs(mask, v) = [i \in 1..n |-> xdigs(mask, v)[i]]
    BY <1>1 DEF xdigs
  <2>2. \A i \in 1..n : base(mask[i]) - 1 <= AlphaCount + DigitCount /\ base(mask[i]) \in Nat \ {0}
    BY MinterAssumption DEF base
  <2>3. \A i \in 1..n : /\ xdigs(mask, v)[i] \in 0..(AlphaCount + DigitCount)
                         /\ xdigs(mask, v)[i] < base(mask[i])
    BY <1>7, <2>2, MinterAssumption
  <2>4. QED
    BY <1>1, <2>1, <2>3 DEF StringsOf
<1>9. QED
  BY <1>3, <1>4, <1>5, <1>6, <1>7, <1>8 DEF q

\* The number that a mask's count stands for has its digits dropped: it is written
\* as zero is.
LEMMA CountOverflows ==
    ASSUME NEW mask \in Masks
    PROVE  xdigs(mask, MaxCount(mask)) = xdigs(mask, 0)
<1> DEFINE n == Len(mask)
           W == Suffix(mask)
           v == MaxCount(mask)
           S == {i \in 0..n : \E c \in Nat : v = c * W[i]}
<1>1. /\ n \in Nat /\ DOMAIN mask = 1..n
      /\ W \in [0..n -> Nat \ {0}] /\ W[0] = v
      /\ \A i \in 1..n : base(mask[i]) \in Nat \ {0} /\ W[i - 1] = base(mask[i]) * W[i]
  BY Suffixes
<1>2. \A i \in DOMAIN mask : /\ xdigs(mask, v)[i] = (v \div W[i]) % base(mask[i])
                              /\ xdigs(mask, 0)[i] = (0 \div W[i]) % base(mask[i])
  BY <1>1 DEF xdigs, Suffix
<1> HIDE DEF W, v
<1>3. 0 \in S
  <2>1. 1 \in Nat /\ v = 1 * W[0]
    BY <1>1
  <2>2. QED
    BY <1>1, <2>1
<1>4. ASSUME NEW i \in 1..n, NEW c \in Nat, v = c * W[i - 1]
      PROVE  c * base(mask[i]) \in Nat /\ v = (c * base(mask[i])) * W[i]
  <2>1. /\ i \in 0..n /\ base(mask[i]) \in Nat \ {0} /\ W[i] \in Nat
        /\ W[i - 1] = base(mask[i]) * W[i]
    BY <1>1
  <2>2. \A a, b \in Nat : c * b \in Nat /\ c * (b * a) = (c * b) * a
    OBVIOUS
  <2>3. QED
    BY <1>4, <2>1, <2>2
<1>5. 0..n \subseteq S
  <2>1. \A i \in 1..n : i - 1 \in S => i \in S
    BY <1>1, <1>4
  <2> HIDE DEF S
  <2>2. QED
    BY <1>1, <1>3, <2>1, Upwards
<1>6. ASSUME NEW i \in 1..n
      PROVE  (v \div W[i]) % base(mask[i]) = (0 \div W[i]) % base(mask[i])
  <2>1. i - 1 \in 0..n /\ i \in 0..n
    BY <1>1
  <2>2. PICK c \in Nat : v = c * W[i - 1]
    BY <1>5, <2>1
  <2> DEFINE b == base(mask[i])
             w == W[i]
  <2>3. b \in Nat \ {0} /\ w \in Nat \ {0} /\ v = (c * b) * w /\ c * b \in Nat
    <3>1. c * b \in Nat /\ v = (c * b) * w
      BY <1>4, <2>2
    <3>2. QED
      BY <1>1, <2>1, <3>1
  <2> HIDE DEF b, w
  <2>4. ((c * b) * w + 0) \div w = c * b /\ (0 * w + 0) \div w = 0
    BY <2>3, DivisionIs
  <2>5. (c * b + 0) % b = 0 /\ (0 * b + 0) % b = 0
    BY <2>3, DivisionIs
  <2>6. v \div w = c * b /\ 0 \div w = 0
    BY <2>3, <2>4
  <2>7. (c * b) % b = 0 /\ 0 % b = 0
    BY <2>3, <2>5
  <2>8. QED
    BY <2>6, <2>7 DEF b, w
<1>7. \A i \in DOMAIN mask : xdigs(mask, v)[i] = xdigs(mask, 0)[i]
  BY <1>1, <1>2, <1>6
<1>8. /\ xdigs(mask, v) = [i \in DOMAIN mask |-> xdigs(mask, v)[i]]
      /\ xdigs(mask, 0) = [i \in DOMAIN mask |-> xdigs(mask, 0)[i]]
  BY DEF xdigs
<1>9. xdigs(mask, v) = xdigs(mask, 0)
  BY <1>7, <1>8
<1>10. QED
  BY <1>9 DEF v

\* Numbers below the count that are written alike are the same.
LEMMA DigitsDiffer ==
    ASSUME NEW mask \in Masks, NEW u \in Nat, NEW v \in Nat,
           u < MaxCount(mask), v < MaxCount(mask), xdigs(mask, u) = xdigs(mask, v)
    PROVE  u = v
<1> DEFINE n == Len(mask)
           S == {i \in 0..n : Quotient(mask, u)[i] = Quotient(mask, v)[i]}
<1>1. n \in Nat /\ n \in 0..n
  BY Suffixes
<1>2. 0 \in S
  BY <1>1, Quotients
<1>3. ASSUME NEW i \in 1..n, i - 1 \in S
      PROVE  i \in S
  <2>1. i \in 0..n /\ Quotient(mask, u)[i - 1] = Quotient(mask, v)[i - 1]
    BY <1>1, <1>3
  <2>2. /\ Quotient(mask, u)[i] = Quotient(mask, u)[i - 1] * base(mask[i]) + xdigs(mask, u)[i]
        /\ Quotient(mask, v)[i] = Quotient(mask, v)[i - 1] * base(mask[i]) + xdigs(mask, v)[i]
    BY Quotients
  <2>3. QED
    BY <2>1, <2>2
<1>4. 0..n \subseteq S
  <2> HIDE DEF S
  <2>1. QED
    BY <1>1, <1>2, <1>3, Upwards
<1>5. QED
  BY <1>1, <1>4, Quotients

\* A string's value, a digit at a time.
Values(mask, d, k, t) ==
    /\ t \in [0..k -> Nat] /\ t[0] = 0
    /\ \A i \in 1..k : t[i] = t[i - 1] * base(mask[i]) + d[i]

LEMMA ValuesExist ==
    ASSUME NEW mask \in Masks, NEW d \in StringsOf(mask)
    PROVE  \E t : Values(mask, d, Len(mask), t)
<1> DEFINE n == Len(mask)
           S == {k \in 0..n : \E t : Values(mask, d, k, t)}
<1>1. /\ n \in Nat /\ DOMAIN mask = 1..n /\ n \in 0..n
      /\ \A i \in 1..n : base(mask[i]) \in Nat /\ d[i] \in Nat
  BY Suffixes, MinterAssumption DEF StringsOf
<1>2. 0 \in S
  <2> DEFINE t == [i \in 0..0 |-> 0]
  <2>1. Values(mask, d, 0, t)
    BY DEF Values
  <2>2. QED
    BY <1>1, <2>1
<1>3. ASSUME NEW k \in 1..n, k - 1 \in S
      PROVE  k \in S
  <2>1. PICK t : Values(mask, d, k - 1, t)
    BY <1>3
  <2>2. /\ t \in [0..(k - 1) -> Nat] /\ t[0] = 0
        /\ \A i \in 1..(k - 1) : t[i] = t[i - 1] * base(mask[i]) + d[i]
    BY <2>1 DEF Values
  <2> DEFINE last == t[k - 1] * base(mask[k]) + d[k]
             x == [i \in 0..k |-> IF i = k THEN last ELSE t[i]]
  <2>3. last \in Nat
    <3>1. k - 1 \in 0..(k - 1)
      BY <1>1
    <3>2. t[k - 1] \in Nat /\ base(mask[k]) \in Nat /\ d[k] \in Nat
      BY <1>1, <2>2, <3>1
    <3>3. QED
      BY <3>2
  <2> HIDE DEF last
  <2>4. x \in [0..k -> Nat] /\ x[0] = 0
    BY <2>2, <2>3
  <2>5. ASSUME NEW i \in 1..k
        PROVE  x[i] = x[i - 1] * base(mask[i]) + d[i]
    <3>1. i - 1 \in 0..k /\ i - 1 # k /\ x[i - 1] = t[i - 1]
      OBVIOUS
    <3>2. CASE i = k
      BY <3>1, <3>2 DEF last
    <3>3. CASE i # k
      BY <2>2, <3>1, <3>3
    <3>4. QED
      BY <3>2, <3>3
  <2>6. Values(mask, d, k, x)
    <3> HIDE DEF x
    <3>1. QED
      BY <2>4, <2>5 DEF Values
  <2>7. k \in 0..n
    BY <1>1
  <2>8. QED
    BY <2>6, <2>7
<1>4. 0..n \subseteq S
  <2> HIDE DEF S
  <2>1. QED
    BY <1>1, <1>2, <1>3, Upwards
<1>5. QED
  BY <1>1, <1>4

\* Every string of a mask is the writing of a number below its count.
LEMMA StringsWritten ==
    ASSUME NEW mask \in Masks, NEW d \in StringsOf(mask)
    PROVE  \E v \in Nat : v < MaxCount(mask) /\ xdigs(mask, v) = d
<1> DEFINE n == Len(mask)
<1>1. PICK t : Values(mask, d, n, t)
  BY ValuesExist
<1>2. /\ n \in Nat /\ DOMAIN mask = 1..n /\ n \in 0..n
      /\ Suffix(mask) \in [0..n -> Nat \ {0}] /\ Suffix(mask)[0] = MaxCount(mask)
      /\ \A i \in 1..n : base(mask[i]) \in Nat \ {0} /\ d[i] \in 0..(base(mask[i]) - 1)
  BY Suffixes, MinterAssumption DEF StringsOf
<1> DEFINE v == t[n]
           q == Quotient(mask, v)
           S == {i \in 0..n : q[i] = t[i]}
<1>3. /\ v \in Nat /\ t \in [0..n -> Nat] /\ t[0] = 0
      /\ \A i \in 1..n : t[i] = t[i - 1] * base(mask[i]) + d[i]
  BY <1>1, <1>2 DEF Values
<1> HIDE DEF v
<1>4. /\ q[n] = v /\ q[0] = v \div MaxCount(mask)
      /\ \A i \in 1..n : q[i - 1] = q[i] \div base(mask[i])
      /\ \A i \in 1..n : xdigs(mask, v)[i] = q[i] % base(mask[i])
  <2>1. q[0] = v \div MaxCount(mask)
    BY <1>2 DEF Quotient
  <2>2. QED
    BY <1>3, <2>1, Quotients
<1> HIDE DEF q
<1>5. ASSUME NEW i \in 1..n
      PROVE  t[i] \div base(mask[i]) = t[i - 1] /\ t[i] % base(mask[i]) = d[i]
  <2>1. i - 1 \in 0..n
    BY <1>2
  <2> DEFINE b == base(mask[i])
             e == t[i - 1]
  <2>2. e \in Nat /\ b \in Nat \ {0} /\ d[i] \in 0..(b - 1) /\ t[i] = e * b + d[i]
    BY <1>2, <1>3, <2>1
  <2> HIDE DEF b, e
  <2>3. (e * b + d[i]) \div b = e /\ (e * b + d[i]) % b = d[i]
    BY <2>2, DivisionIs
  <2>4. t[i] \div b = e /\ t[i] % b = d[i]
    BY <2>2, <2>3
  <2>5. QED
    BY <2>4 DEF b, e
<1>6. 0..n \subseteq S
  <2>1. n \in S
    BY <1>2, <1>4 DEF v
  <2>2. \A i \in 1..n : i \in S => i - 1 \in S
    BY <1>2, <1>4, <1>5
  <2> HIDE DEF S
  <2>3. QED
    BY <1>2, <2>1, <2>2, Downwards
<1>7. v < MaxCount(mask)
  <2>1. v \div MaxCount(mask) = 0
    BY <1>2, <1>3, <1>4, <1>6
  <2> DEFINE c == MaxCount(mask)
  <2>2. c \in Nat \ {0} /\ v \div c = 0
    BY <2>1, Weights DEF MaxCount
  <2> HIDE DEF c
  <2>3. v % c \in 0..(c - 1) /\ v = 0 * c + (v % c)
    BY <1>3, <2>2, Division
  <2>4. v < c
    BY <1>3, <2>2, <2>3
  <2>5. QED
    BY <2>4 DEF c
<1>8. xdigs(mask, v) = d
  <2>1. ASSUME NEW i \in 1..n
        PROVE  xdigs(mask, v)[i] = d[i]
    <3>1. i \in 0..n
      BY <1>2
    <3>2. q[i] = t[i]
      BY <1>6, <3>1
    <3>3. QED
      BY <1>4, <1>5, <3>2
  <2>2. xdigs(mask, v) = [i \in 1..n |-> xdigs(mask, v)[i]] /\ d = [i \in 1..n |-> d[i]]
    BY <1>2 DEF xdigs, StringsOf
  <2>3. QED
    BY <2>1, <2>2
<1>9. QED
  BY <1>3, <1>7, <1>8

\* The numbers 1..total and the strings of the mask correspond.
LEMMA NumbersAndStrings ==
    ASSUME NEW mask \in Masks
    PROVE  /\ \A u, v \in 1..MaxCount(mask) : xdigs(mask, u) = xdigs(mask, v) => u = v
           /\ StringsOf(mask) = {xdigs(mask, v) : v \in 1..MaxCount(mask)}
<1> DEFINE c == MaxCount(mask)
           z(v) == IF v = c THEN 0 ELSE v
<1>1. c \in Nat \ {0}
  BY Weights DEF MaxCount
<1>2. \A v \in 1..c : z(v) \in Nat /\ z(v) < c /\ xdigs(mask, v) = xdigs(mask, z(v))
  BY <1>1, CountOverflows
<1>3. ASSUME NEW u \in 1..c, NEW v \in 1..c, xdigs(mask, u) = xdigs(mask, v)
      PROVE  u = v
  <2>1. z(u) = z(v)
    BY <1>2, <1>3, DigitsDiffer
  <2>2. QED
    BY <1>1, <2>1
<1>4. ASSUME NEW v \in 1..c
      PROVE  xdigs(mask, v) \in StringsOf(mask)
  <2>1. v \in Nat
    BY <1>1
  <2>2. QED
    BY <2>1, Quotients
<1>5. ASSUME NEW d \in StringsOf(mask)
      PROVE  \E v \in 1..c : d = xdigs(mask, v)
  <2>1. PICK v \in Nat : v < c /\ xdigs(mask, v) = d
    BY StringsWritten
  <2>2. CASE v = 0
    <3>1. c \in 1..c /\ xdigs(mask, c) = d
      BY <1>1, <2>1, <2>2, CountOverflows
    <3>2. QED
      BY <3>1
  <2>3. CASE v # 0
    <3>1. v \in 1..c
      BY <1>1, <2>1, <2>3
    <3>2. QED
      BY <2>1, <3>1
  <2>4. QED
    BY <2>2, <2>3
<1> HIDE DEF c
<1>6. StringsOf(mask) = {xdigs(mask, v) : v \in 1..c}
  BY <1>4, <1>5
<1>7. QED
  BY <1>3, <1>6 DEF c
-----------------------------------------------------------------------------
(* Rows *)

\* _extend_template makes a row with a counter for every number.
LEMMA ExtendedFine ==
    ASSUME NEW m, NEW n \in Nat,
           m.mask \in Masks \ {<<>>}, m.baseCount \in Nat, m.combined \in Nat,
           Len(ExtendMask(m.mask, n)) <= MaxLength
    PROVE  /\ RowFine(Extended(m, n))
           /\ IsRow(Extended(m, n))
           /\ Extended(m, n).mask = ExtendMask(m.mask, n)
<1> DEFINE x == Extended(m, n)
           mask == ExtendMask(m.mask, n)
           total == MaxCount(mask)
<1>1. x = [mask |-> mask, baseCount |-> m.baseCount + m.combined, combined |-> 0,
           total |-> total, perCounter |-> PerCounter(total),
           counters |-> NewCounters(total), active |-> DOMAIN NewCounters(total)]
  BY DEF Extended
<1>2. mask \in Masks \ {<<>>}
  BY ExtendMaskLonger
<1>3. total \in Nat \ {0}
  BY <1>2, MaskHasStrings
<1> HIDE DEF x, mask, total
<1>4. /\ x.mask = mask
      /\ x.baseCount = m.baseCount + m.combined
      /\ x.combined = 0
      /\ x.total = total
      /\ x.perCounter = PerCounter(total)
      /\ x.counters = NewCounters(total)
      /\ x.active = DOMAIN NewCounters(total)
  BY <1>1
<1>5. IsRow(x)
  BY <1>1, <1>4 DEF IsRow
<1>6. /\ DOMAIN x.counters \subseteq 0..x.total
      /\ x.counters \in [DOMAIN x.counters -> [top: 1..x.perCounter, value: 0..x.perCounter]]
      /\ \A k \in DOMAIN x.counters : x.counters[k] \in [top: 1..x.perCounter, value: {0}]
  BY <1>3, <1>4, NewCountersFine
<1>7. \A k \in DOMAIN x.counters : x.counters[k].value < x.counters[k].top
  BY <1>6
<1>8. x.active = {k \in DOMAIN x.counters : x.counters[k].value < x.counters[k].top}
  BY <1>4, <1>7
<1>9. \A k \in DOMAIN x.counters : x.counters[k].value <= x.counters[k].top
  BY <1>6
<1>10. x.baseCount \in Nat /\ x.combined \in Nat /\ x.total = MaxCount(x.mask)
  BY <1>4 DEF total
<1>11. RowFine(x)
  BY <1>2, <1>4, <1>6, <1>8, <1>9, <1>10 DEF RowFine
<1>12. QED
  BY <1>4, <1>5, <1>11 DEF x, mask

\* _next_state steps one counter and leaves the others alone.
LEMMA StepFine ==
    ASSUME NEW m, NEW k \in m.active,
           RowFine(m), IsRow(m), Len(m.mask) <= MaxLength
    PROVE  /\ RowFine(Step(m, k))
           /\ IsRow(Step(m, k))
           /\ Step(m, k).mask = m.mask
           /\ Step(m, k).perCounter = m.perCounter
           /\ Step(m, k).total = m.total
           /\ Step(m, k).combined = m.combined + 1
           /\ DOMAIN Step(m, k).counters = DOMAIN m.counters
           /\ \A j \in DOMAIN m.counters :
                 Step(m, k).counters[j].value =
                    IF j = k THEN m.counters[k].value + 1 ELSE m.counters[j].value
           /\ \A j \in DOMAIN m.counters :
                 Step(m, k).counters[j].top = m.counters[j].top
<1> DEFINE x == Step(m, k)
           v == m.counters[k].value + 1
           per == m.perCounter
<1>1. per \in Nat \ {0}
  BY MaskHasStrings, PerCounterPositive DEF RowFine
<1>2. /\ k \in DOMAIN m.counters
      /\ m.counters[k].value < m.counters[k].top
      /\ m.counters \in [DOMAIN m.counters -> [top: 1..per, value: 0..per]]
  BY DEF RowFine
<1>3. v \in 1..per /\ v <= m.counters[k].top
  BY <1>1, <1>2
<1>4. x = [mask |-> m.mask, baseCount |-> m.baseCount, combined |-> m.combined + 1,
           total |-> m.total, perCounter |-> per,
           counters |-> [m.counters EXCEPT ![k].value = v],
           active |-> IF v >= m.counters[k].top THEN m.active \ {k} ELSE m.active]
  <2> DEFINE active == IF v >= m.counters[k].top THEN m.active \ {k} ELSE m.active
             counters == [m.counters EXCEPT ![k].value = v]
             c == m.combined + 1
  <2>1. x = [m EXCEPT !.combined = c, !.counters = counters, !.active = active]
    BY DEF Step
  <2> HIDE DEF x, v, per, active, counters, c
  <2>2. x = [f \in DOMAIN m |-> IF f = "active" THEN active
                               ELSE IF f = "counters" THEN counters
                               ELSE IF f = "combined" THEN c
                               ELSE m[f]]
    BY <2>1
  <2>3. DOMAIN m = {"mask", "baseCount", "combined", "total", "perCounter",
                    "counters", "active"}
    BY DEF IsRow
  <2>4. x = [mask |-> m.mask, baseCount |-> m.baseCount, combined |-> c,
             total |-> m.total, perCounter |-> m.perCounter,
             counters |-> counters, active |-> active]
    BY <2>2, <2>3
  <2>5. QED
    BY <2>4 DEF active, counters, c, per
<1> HIDE DEF x, v
<1>5. /\ x.mask = m.mask
      /\ x.baseCount = m.baseCount
      /\ x.combined = m.combined + 1
      /\ x.total = m.total
      /\ x.perCounter = per
      /\ x.counters = [m.counters EXCEPT ![k].value = v]
      /\ x.active = IF v >= m.counters[k].top THEN m.active \ {k} ELSE m.active
  BY <1>4
<1>6. IsRow(x)
  BY <1>4, <1>5 DEF IsRow
<1>7. DOMAIN x.counters = DOMAIN m.counters
  BY <1>5
<1>8. \A j \in DOMAIN m.counters :
          /\ x.counters[j] \in [top: 1..per, value: 0..per]
          /\ x.counters[j].top = m.counters[j].top
          /\ x.counters[j].value = IF j = k THEN v ELSE m.counters[j].value
  <2>1. \A j \in DOMAIN m.counters : m.counters[j] \in [top: 1..per, value: 0..per]
    BY <1>2
  <2>2. PICK t \in 1..per, u \in 0..per : m.counters[k] = [top |-> t, value |-> u]
    BY <1>2, <2>1
  <2>3. x.counters[k] = [top |-> t, value |-> v]
    BY <1>2, <1>5, <2>2
  <2>4. v \in 0..per
    BY <1>1, <1>3
  <2>5. ASSUME NEW j \in DOMAIN m.counters, j # k
        PROVE  x.counters[j] = m.counters[j]
    BY <1>5, <2>5
  <2>6. QED
    BY <2>1, <2>2, <2>3, <2>4, <2>5
<1>9. x.counters \in [DOMAIN x.counters -> [top: 1..per, value: 0..per]]
  BY <1>5, <1>7, <1>8
<1>10. \A j \in DOMAIN x.counters : x.counters[j].value <= x.counters[j].top
  BY <1>3, <1>7, <1>8 DEF RowFine
<1>11. x.active = {j \in DOMAIN x.counters : x.counters[j].value < x.counters[j].top}
  <2>1. ASSUME NEW j
        PROVE  j \in x.active <=>
                  j \in DOMAIN x.counters /\ x.counters[j].value < x.counters[j].top
    <3>1. CASE j = k
      BY <1>1, <1>2, <1>3, <1>5, <1>7, <1>8, <3>1
    <3>2. CASE j # k
      BY <1>5, <1>7, <1>8, <3>2 DEF RowFine
    <3>3. QED
      BY <3>1, <3>2
  <2>2. QED
    BY <2>1
<1>12. RowFine(x)
  <2>1. /\ m.mask \in Masks \ {<<>>} /\ m.baseCount \in Nat /\ m.combined + 1 \in Nat
        /\ m.total = MaxCount(m.mask) /\ per = PerCounter(m.total)
        /\ DOMAIN m.counters \subseteq 0..m.total
    BY DEF RowFine
  <2> HIDE DEF per
  <2>2. QED
    BY <1>5, <1>7, <1>9, <1>10, <1>11, <2>1 DEF RowFine
<1>13. QED
  BY <1>5, <1>6, <1>7, <1>8, <1>12 DEF x, v
-----------------------------------------------------------------------------
(* The invariant *)

\* The row mint works on is fine, and either the row there was or a longer one.
LEMMA ReadyFine ==
    ASSUME NEW m, RowFine(m), IsRow(m), Len(m.mask) <= MaxLength,
           Len(Ready(m).mask) <= MaxLength
    PROVE  /\ RowFine(Ready(m))
           /\ IsRow(Ready(m))
           /\ Ready(m) = m \/ Len(m.mask) < Len(Ready(m).mask)
<1>1. CASE Exhausted(m)
  <2>1. Ready(m) = Extended(m, AddCount)
    BY <1>1 DEF Ready
  <2>2. Ready(m).mask = ExtendMask(m.mask, AddCount)
    BY <2>1 DEF Extended
  <2>3. m.mask \in Masks \ {<<>>} /\ m.baseCount \in Nat /\ m.combined \in Nat
    BY DEF RowFine
  <2>4. AddCount \in Nat /\ AddCount # 0
    BY MinterAssumption
  <2>5. RowFine(Ready(m)) /\ IsRow(Ready(m))
    BY <2>1, <2>2, <2>3, <2>4, ExtendedFine
  <2>6. QED
    BY <2>2, <2>3, <2>4, <2>5, ExtendMaskLonger
<1>2. CASE ~Exhausted(m)
  BY <1>2 DEF Ready
<1>3. QED
  BY <1>1, <1>2

\* What a mint does to the invariant, and that what it mints is new.
LEMMA MintFine ==
    ASSUME IInv, Mint
    PROVE  IInv' /\ \E m \in minted' : m \notin minted
<1> DEFINE r == Ready(minter)
<1>1. PICK k \in r.active :
          /\ minter' = Step(r, k)
          /\ minted' = minted \union
                 {[mask |-> minter'.mask, number |-> CompoundedCounter(minter', k)]}
  BY DEF Mint
<1>2. /\ RowFine(minter) /\ IsRow(minter)
      /\ minted \subseteq [mask: Masks, number: Nat]
      /\ Len(minter.mask) <= MaxLength
      /\ Len(r.mask) <= MaxLength
  BY DEF IInv, RowOK, Mint
<1>3. /\ RowFine(r) /\ IsRow(r)
      /\ r = minter \/ Len(minter.mask) < Len(r.mask)
  BY <1>2, ReadyFine
<1> DEFINE x == minter'
           per == r.perCounter
           v == r.counters[k].value + 1
           new == [mask |-> x.mask, number |-> CompoundedCounter(x, k)]
<1> HIDE DEF r
<1>4. /\ RowFine(x) /\ IsRow(x)
      /\ x.mask = r.mask
      /\ x.perCounter = per
      /\ DOMAIN x.counters = DOMAIN r.counters
      /\ \A j \in DOMAIN r.counters :
            x.counters[j].value = IF j = k THEN v ELSE r.counters[j].value
  BY <1>1, <1>2, <1>3, StepFine
<1>5. /\ per \in Nat \ {0}
      /\ r.mask \in Masks \ {<<>>}
  BY <1>2, <1>3, MaskHasStrings, PerCounterPositive DEF RowFine
<1>6. /\ DOMAIN r.counters \subseteq Nat
      /\ \A j \in DOMAIN r.counters : r.counters[j].value \in 0..per
      /\ \A j \in DOMAIN x.counters : x.counters[j].value \in 0..per
  <2>1. ASSUME NEW y, RowFine(y)
        PROVE  DOMAIN y.counters \subseteq 0..y.total
    BY <2>1 DEF RowFine
  <2>2. ASSUME NEW y, RowFine(y)
        PROVE  \A j \in DOMAIN y.counters : y.counters[j].value \in 0..y.perCounter
    BY <2>2 DEF RowFine
  <2>3. QED
    BY <1>3, <1>4, <2>1, <2>2
<1>7. k \in DOMAIN r.counters /\ k \in Nat
  BY <1>1, <1>3, <1>6 DEF RowFine
<1>8. v \in 1..per /\ x.counters[k].value = v
  BY <1>4, <1>5, <1>6, <1>7
<1>9. new = [mask |-> r.mask, number |-> v + k * per] /\ minted' = minted \union {new}
  BY <1>1, <1>4, <1>8 DEF CompoundedCounter
<1>10. v + k * per \in Nat
  BY <1>5, <1>7, <1>8
<1> HIDE DEF per, v
<1>11. new \in [mask: Masks, number: Nat] /\ new.mask = r.mask /\ new.number = v + k * per
  BY <1>5, <1>9, <1>10
<1> HIDE DEF new
<1>12. Len(r.mask) \in Nat /\ Len(minter.mask) \in Nat
  BY <1>2, <1>5, LenProperties DEF RowFine, Masks
<1>13. ASSUME NEW m \in minted
       PROVE  \/ Len(m.mask) < Len(r.mask)
              \/ /\ m.mask = r.mask
                 /\ \E j \in DOMAIN r.counters : \E u \in 1..r.counters[j].value :
                        m.number = u + j * per
  <2>1. m.mask \in Masks
    BY <1>2
  <2>2. Len(m.mask) \in Nat
    BY <2>1, LenProperties DEF Masks
  <2>3. \/ Len(m.mask) < Len(minter.mask)
        \/ /\ m.mask = minter.mask
           /\ \E j \in DOMAIN minter.counters : \E u \in 1..minter.counters[j].value :
                  m.number = u + j * minter.perCounter
    BY DEF IInv, Dealt
  <2>4. CASE r = minter
    BY <2>3, <2>4 DEF per
  <2>5. CASE Len(minter.mask) < Len(r.mask)
    BY <1>12, <2>2, <2>3, <2>5
  <2>6. QED
    BY <1>3, <2>4, <2>5
<1>14. new \notin minted
  <2> SUFFICES ASSUME new \in minted PROVE FALSE
    OBVIOUS
  <2>1. PICK j \in DOMAIN r.counters : \E u \in 1..r.counters[j].value :
            v + k * per = u + j * per
    BY <1>11, <1>12, <1>13
  <2>2. PICK u \in 1..r.counters[j].value : v + k * per = u + j * per
    BY <2>1
  <2>3. j \in Nat /\ r.counters[j].value \in 0..per
    BY <1>6
  <2>4. u \in 1..per
    BY <1>5, <2>3
  <2>5. j = k /\ u = v
    <3>1. per \in Nat \ {0} /\ k \in Nat /\ v \in 1..per
      BY <1>5, <1>7, <1>8
    <3>2. u + j * per = v + k * per
      BY <2>2
    <3>3. j \in Nat /\ u \in 1..per
      BY <2>3, <2>4
    <3> HIDE DEF r
    <3>4. QED
      BY <3>1, <3>2, <3>3, RangesDisjoint
  <2>6. u \in 1..r.counters[k].value /\ r.counters[k].value \in 0..per
    BY <2>3, <2>5
  <2>7. v = r.counters[k].value + 1
    BY DEF v
  <2>8. u = v /\ per \in Nat
    BY <1>5, <2>5
  <2> HIDE DEF r
  <2>9. QED
    BY <2>6, <2>7, <2>8
<1>15. Dealt'
  <2>1. ASSUME NEW m \in minted'
        PROVE  \/ Len(m.mask) < Len(x.mask)
               \/ /\ m.mask = x.mask
                  /\ \E j \in DOMAIN x.counters : \E u \in 1..x.counters[j].value :
                         m.number = u + j * x.perCounter
    <3>1. CASE m = new
      BY <1>4, <1>7, <1>8, <1>11, <3>1
    <3>2. CASE m \in minted
      <4>1. CASE Len(m.mask) < Len(r.mask)
        BY <1>4, <4>1
      <4>2. ASSUME m.mask = r.mask,
                   NEW j \in DOMAIN r.counters, NEW u \in 1..r.counters[j].value,
                   m.number = u + j * per
            PROVE  u \in 1..x.counters[j].value
        <5>1. r.counters[j].value \in 0..per
          BY <1>6
        <5>2. CASE j = k
          <6>1. x.counters[j].value = r.counters[j].value + 1
            BY <1>8, <5>2 DEF v
          <6>2. QED
            BY <1>5, <5>1, <6>1
        <5>3. CASE j # k
          BY <1>4, <5>3
        <5>4. QED
          BY <5>2, <5>3
      <4>3. QED
        BY <1>4, <1>13, <3>2, <4>1, <4>2
    <3>3. QED
      BY <1>9, <3>1, <3>2
  <2>2. QED
    BY <2>1 DEF Dealt
<1>16. RowOK'
  BY <1>2, <1>4, <1>9, <1>11 DEF RowOK
<1>17. Len(x.mask) <= MaxLength /\ IsRow(x)
  BY <1>2, <1>4
<1>18. QED
  BY <1>9, <1>14, <1>15, <1>16, <1>17 DEF IInv

\* create makes a row that is fine, and nothing is minted yet.
LEMMA InitFine == Init => IInv
<1> SUFFICES ASSUME Init PROVE IInv
  OBVIOUS
<1> DEFINE m == [mask |-> FirstMask, baseCount |-> 0, combined |-> 0]
<1>1. /\ m.mask = FirstMask /\ m.baseCount = 0 /\ m.combined = 0
      /\ minter = Extended(m, 0) /\ minted = {}
  BY DEF Init
<1>2. FirstMask \in Masks \ {<<>>} /\ Len(FirstMask) <= MaxLength
  BY MinterAssumption
<1> HIDE DEF m
<1>3. Len(ExtendMask(FirstMask, 0)) <= MaxLength
  BY <1>2, ExtendMaskLonger
<1>4. RowFine(minter) /\ IsRow(minter) /\ minter.mask = ExtendMask(FirstMask, 0)
  <2>1. m.mask \in Masks \ {<<>>} /\ m.baseCount \in Nat /\ m.combined \in Nat
    BY <1>1, <1>2
  <2>2. Len(ExtendMask(m.mask, 0)) <= MaxLength
    BY <1>1, <1>3
  <2>3. QED
    BY <1>1, <2>1, <2>2, ExtendedFine
<1>5. QED
  BY <1>1, <1>3, <1>4 DEF IInv, RowOK, Dealt

\* The invariant holds throughout.
LEMMA Invariant == Spec => []IInv
<1>1. ASSUME IInv, [Mint]_vars
      PROVE  IInv'
  <2>1. CASE Mint
    BY <1>1, <2>1, MintFine
  <2>2. CASE UNCHANGED vars
    BY <1>1, <2>2 DEF vars, IInv, RowOK, RowFine, IsRow, Dealt
  <2>3. QED
    BY <1>1, <2>1, <2>2
<1>2. QED
  BY <1>1, InitFine, PTL DEF Spec

-----------------------------------------------------------------------------
(* All numbers are dealt out                                               *)

\* The ranges of the counters make up the numbers from 1 to the total.
LEMMA CountersCover ==
    ASSUME NEW total \in Nat \ {0}
    PROVE  /\ \A k \in DOMAIN NewCounters(total) : \A v \in 1..NewCounters(total)[k].top :
                 v + k * PerCounter(total) \in 1..total
           /\ \A n \in 1..total : \E k \in DOMAIN NewCounters(total) :
                 \E v \in 1..NewCounters(total)[k].top : n = v + k * PerCounter(total)
<1> DEFINE per == PerCounter(total)
           D == {j \in 0..total : j * per < total}
           top(k) == IF (k + 1) * per <= total THEN per ELSE total - k * per
<1>1. per \in Nat \ {0}
  BY PerCounterPositive
<1> HIDE DEF per
<1>2. NewCounters(total) = [k \in D |-> [top |-> top(k), value |-> 0]]
  BY DEF NewCounters, per
<1>3. DOMAIN NewCounters(total) = D /\ \A k \in D : NewCounters(total)[k].top = top(k)
  BY <1>2
<1>4. \A k \in Nat : k * per \in Nat /\ (k + 1) * per = k * per + per
  BY <1>1
<1>5. ASSUME NEW k \in D, NEW v \in 1..top(k)
      PROVE  v + k * per \in 1..total
  <2>1. k \in Nat /\ k * per \in Nat /\ k * per < total /\ (k + 1) * per = k * per + per
    BY <1>4
  <2>2. CASE (k + 1) * per <= total
    BY <1>1, <2>1, <2>2
  <2>3. CASE ~((k + 1) * per <= total)
    BY <2>1, <2>3
  <2>4. QED
    BY <2>2, <2>3
<1>6. ASSUME NEW n \in 1..total
      PROVE  \E k \in D : \E v \in 1..top(k) : n = v + k * per
  <2> DEFINE k == (n - 1) \div per
             u == (n - 1) % per
  <2>0. n - 1 \in Nat
    OBVIOUS
  <2>1. k \in Nat /\ u \in 0..(per - 1) /\ n - 1 = k * per + u
    BY <1>1, <2>0, Division
  <2> HIDE DEF k, u
  <2>2. k * per \in Nat /\ (k + 1) * per = k * per + per /\ k <= k * per
    <3>1. PICK e \in Nat : per = e + 1
      <4>1. per - 1 \in Nat /\ per = (per - 1) + 1
        BY <1>1
      <4>2. QED
        BY <4>1
    <3>2. k * per = k * e + k /\ k * e \in Nat
      BY <2>1, <3>1
    <3>3. QED
      BY <1>4, <2>1, <3>2
  <2>3. k \in D
    BY <2>1, <2>2
  <2>4. u + 1 \in 1..top(k)
    <3>1. CASE (k + 1) * per <= total
      BY <1>1, <2>1, <3>1
    <3>2. CASE ~((k + 1) * per <= total)
      BY <1>1, <2>1, <2>2, <3>2
    <3>3. QED
      BY <3>1, <3>2
  <2>5. n = (u + 1) + k * per
    BY <2>1, <2>2
  <2>6. QED
    BY <2>3, <2>4, <2>5
<1> HIDE DEF D, top
<1>7. QED
  BY <1>3, <1>5, <1>6 DEF per

\* The numbers that the counters of a row have passed.
Numbers(m) ==
    {n \in 1..m.total : \E k \in DOMAIN m.counters : \E v \in 1..m.counters[k].value :
                            n = v + k * m.perCounter}

\* The counters are those of the total, and the mints were counted.
Counted(m) ==
    /\ DOMAIN m.counters = DOMAIN NewCounters(m.total)
    /\ \A k \in DOMAIN m.counters : m.counters[k].top = NewCounters(m.total)[k].top
    /\ m.combined = Cardinality(Numbers(m))

\* What RowFine says of the counters, one at a time.
LEMMA CountersTyped ==
    ASSUME NEW m, RowFine(m)
    PROVE  /\ m.total \in Nat \ {0} /\ m.perCounter = PerCounter(m.total)
           /\ m.perCounter \in Nat \ {0} /\ DOMAIN m.counters \subseteq Nat
           /\ \A k \in DOMAIN m.counters :
                 /\ m.counters[k].value \in 0..m.perCounter
                 /\ m.counters[k].top \in 1..m.perCounter
                 /\ m.counters[k].value <= m.counters[k].top
           /\ m.active = {k \in DOMAIN m.counters : m.counters[k].value < m.counters[k].top}
<1>1. m.total \in Nat \ {0} /\ m.perCounter = PerCounter(m.total)
  BY MaskHasStrings DEF RowFine
<1>2. m.perCounter \in Nat \ {0}
  BY <1>1, PerCounterPositive
<1>3. DOMAIN m.counters \subseteq Nat
  BY <1>1 DEF RowFine
<1>4. QED
  BY <1>1, <1>2, <1>3 DEF RowFine

\* A row's numbers are all of them when its counters are at their tops, and the
\* count says when that is.
LEMMA CountedFits ==
    ASSUME NEW m, RowFine(m), Counted(m)
    PROVE  /\ m.combined <= m.total
           /\ Exhausted(m) <=> m.active = {}
           /\ Exhausted(m) => Numbers(m) = 1..m.total
<1> DEFINE per == m.perCounter
<1>1. /\ m.total \in Nat \ {0} /\ per \in Nat \ {0} /\ per = PerCounter(m.total)
      /\ DOMAIN m.counters \subseteq Nat
      /\ m.active = {k \in DOMAIN m.counters : m.counters[k].value < m.counters[k].top}
      /\ \A k \in DOMAIN m.counters : /\ m.counters[k].value \in 0..per
                                       /\ m.counters[k].top \in 1..per
                                       /\ m.counters[k].value <= m.counters[k].top
  BY CountersTyped
<1>2. /\ IsFiniteSet(1..m.total) /\ Cardinality(1..m.total) = m.total
      /\ Numbers(m) \in SUBSET (1..m.total)
  <2>1. 1 \in Int /\ m.total \in Int /\ ~(1 > m.total) /\ m.total - 1 + 1 = m.total
    BY <1>1
  <2>2. IsFiniteSet(1..m.total) /\ Cardinality(1..m.total) = m.total
    BY <2>1, FS_Interval
  <2>3. QED
    BY <2>2 DEF Numbers
<1>3. /\ m.combined <= m.total
      /\ Exhausted(m) => Numbers(m) = 1..m.total
  BY <1>2, FS_Subset DEF Counted, Exhausted
<1>4. ASSUME Exhausted(m), NEW k \in DOMAIN m.counters
      PROVE  m.counters[k].value = m.counters[k].top
  <2> DEFINE t == m.counters[k].top
  <2>1. t \in 1..per /\ k \in Nat /\ t \in 1..t
    BY <1>1
  <2>2. t + k * per \in 1..m.total
    BY <1>1, <2>1, CountersCover DEF Counted
  <2>3. PICK j \in DOMAIN m.counters : \E v \in 1..m.counters[j].value : t + k * per = v + j * per
    BY <1>3, <1>4, <2>2 DEF Numbers
  <2>4. PICK v \in 1..m.counters[j].value : t + k * per = v + j * per
    BY <2>3
  <2>5. j \in Nat /\ v \in 1..per /\ m.counters[j].value \in 0..per
    BY <1>1
  <2> HIDE DEF per, t
  <2>6. k = j /\ t = v
    <3>1. per \in Nat \ {0}
      BY <1>1
    <3>2. QED
      BY <2>1, <2>4, <2>5, <3>1, RangesDisjoint
  <2>7. t <= m.counters[k].value
    BY <2>1, <2>5, <2>6
  <2>8. m.counters[k].value <= t /\ m.counters[k].value \in 0..per
    BY <1>1 DEF t
  <2>9. QED
    BY <1>1, <2>1, <2>7, <2>8 DEF t
<1>5. ASSUME m.active = {}
      PROVE  Exhausted(m)
  <2>1. \A k \in DOMAIN m.counters : m.counters[k].value = m.counters[k].top
    BY <1>1, <1>5
  <2>2. ASSUME NEW n \in 1..m.total
        PROVE  n \in Numbers(m)
    <3>1. PICK k \in DOMAIN NewCounters(m.total) :
             \E v \in 1..NewCounters(m.total)[k].top : n = v + k * PerCounter(m.total)
      BY <1>1, CountersCover
    <3>2. \E v \in 1..m.counters[k].top : n = v + k * per
      BY <1>1, <3>1 DEF Counted
    <3>3. QED
      BY <2>1, <3>1, <3>2 DEF Counted, Numbers
  <2>3. Numbers(m) = 1..m.total
    BY <1>2, <2>2
  <2>4. QED
    BY <1>2, <2>3 DEF Counted, Exhausted
<1>6. QED
  BY <1>1, <1>3, <1>4, <1>5

\* A new template has its counters at zero.
LEMMA ExtendedCounted ==
    ASSUME NEW m, NEW n \in Nat, m.mask \in Masks \ {<<>>}
    PROVE  Counted(Extended(m, n)) /\ Numbers(Extended(m, n)) = {}
<1> DEFINE total == MaxCount(ExtendMask(m.mask, n))
           x == Extended(m, n)
<1>1. total \in Nat \ {0}
  BY ExtendMaskLonger, MaskHasStrings
<1>2. x.total = total /\ x.combined = 0 /\ x.counters = NewCounters(total)
  BY DEF Extended
<1> HIDE DEF x, total
<1>3. \A k \in DOMAIN x.counters : x.counters[k].value = 0
  BY <1>1, <1>2, NewCountersFine
<1>4. Numbers(x) = {}
  <2>1. ASSUME NEW k \in DOMAIN x.counters, NEW v \in 1..x.counters[k].value
        PROVE  FALSE
    BY <1>3
  <2>2. QED
    BY <2>1 DEF Numbers
<1>5. Counted(x)
  BY <1>2, <1>4, FS_EmptySet DEF Counted
<1>6. QED
  BY <1>4, <1>5 DEF x

\* A step passes one number more.
LEMMA StepCounted ==
    ASSUME NEW m, NEW k \in m.active,
           RowFine(m), IsRow(m), Len(m.mask) <= MaxLength, Counted(m)
    PROVE  /\ Counted(Step(m, k))
           /\ Numbers(Step(m, k)) = Numbers(m) \union {CompoundedCounter(Step(m, k), k)}
           /\ CompoundedCounter(Step(m, k), k) \in (1..m.total) \ Numbers(m)
<1> DEFINE x == Step(m, k)
           per == m.perCounter
           v == m.counters[k].value + 1
           n == v + k * per
<1>1. /\ m.total \in Nat \ {0} /\ per \in Nat \ {0} /\ per = PerCounter(m.total)
      /\ DOMAIN m.counters \subseteq Nat
      /\ m.active = {j \in DOMAIN m.counters : m.counters[j].value < m.counters[j].top}
      /\ \A j \in DOMAIN m.counters : /\ m.counters[j].value \in 0..per
                                       /\ m.counters[j].top \in 1..per
  BY CountersTyped
<1>2. /\ x.mask = m.mask /\ x.perCounter = per /\ x.total = m.total
      /\ x.combined = m.combined + 1 /\ DOMAIN x.counters = DOMAIN m.counters
      /\ \A j \in DOMAIN m.counters :
            x.counters[j].value = IF j = k THEN v ELSE m.counters[j].value
      /\ \A j \in DOMAIN m.counters : x.counters[j].top = m.counters[j].top
  BY StepFine
<1>3. /\ k \in DOMAIN m.counters /\ k \in Nat /\ v \in 1..per
      /\ v \in 1..m.counters[k].top /\ v - 1 = m.counters[k].value
  BY <1>1
<1>4. CompoundedCounter(x, k) = n
  BY <1>2, <1>3 DEF CompoundedCounter
<1>5. n \in 1..m.total
  BY <1>1, <1>3, CountersCover DEF Counted
<1> HIDE DEF x, v
<1>6. n \notin Numbers(m)
  <2> SUFFICES ASSUME NEW j \in DOMAIN m.counters, NEW u \in 1..m.counters[j].value,
                      n = u + j * per
               PROVE  FALSE
    BY DEF Numbers
  <2>1. j \in Nat /\ m.counters[j].value \in 0..per /\ u \in 1..per
    BY <1>1
  <2> HIDE DEF per
  <2>2. j = k /\ u = v
    <3>1. per \in Nat \ {0}
      BY <1>1
    <3>2. u + j * per = v + k * per
      OBVIOUS
    <3>3. QED
      BY <1>3, <2>1, <3>1, <3>2, RangesDisjoint
  <2>3. QED
    BY <1>3, <2>1, <2>2
<1>7. Numbers(x) = Numbers(m) \union {n}
  <2>1. ASSUME NEW i \in Numbers(x)
        PROVE  i \in Numbers(m) \union {n}
    <3>0. PICK j \in DOMAIN m.counters : \E u \in 1..x.counters[j].value : i = u + j * per
      BY <1>2 DEF Numbers
    <3>1. PICK u \in 1..x.counters[j].value : i = u + j * per
      BY <3>0
    <3>2. i \in 1..m.total
      BY <1>2 DEF Numbers
    <3>3. CASE j = k
      <4>1. u \in 1..m.counters[k].value \/ u = v
        BY <1>1, <1>2, <1>3, <3>3
      <4>2. QED
        BY <3>1, <3>2, <3>3, <4>1 DEF Numbers
    <3>4. CASE j # k
      BY <1>2, <3>1, <3>2, <3>4 DEF Numbers
    <3>5. QED
      BY <3>3, <3>4
  <2>2. n \in Numbers(x)
    <3>1. v \in 1..x.counters[k].value
      BY <1>1, <1>2, <1>3
    <3>2. QED
      BY <1>2, <1>3, <1>5, <3>1 DEF Numbers
  <2>3. ASSUME NEW i \in Numbers(m)
        PROVE  i \in Numbers(x)
    <3>0. PICK j \in DOMAIN m.counters : \E u \in 1..m.counters[j].value : i = u + j * per
      BY DEF Numbers
    <3>1. PICK u \in 1..m.counters[j].value : i = u + j * per
      BY <3>0
    <3>2. i \in 1..x.total
      BY <1>2 DEF Numbers
    <3>3. u \in 1..x.counters[j].value
      <4>1. CASE j = k
        BY <1>1, <1>2, <1>3, <4>1
      <4>2. CASE j # k
        BY <1>2, <4>2
      <4>3. QED
        BY <4>1, <4>2
    <3>4. QED
      BY <1>2, <3>1, <3>2, <3>3 DEF Numbers
  <2>4. QED
    BY <2>1, <2>2, <2>3
<1>8. Counted(x)
  <2>1. Numbers(m) \in SUBSET (1..m.total) /\ IsFiniteSet(1..m.total)
    BY <1>1, FS_Interval DEF Numbers
  <2>2. IsFiniteSet(Numbers(m))
    BY <2>1, FS_Subset
  <2>3. Cardinality(Numbers(x)) = Cardinality(Numbers(m)) + 1
    BY <1>6, <1>7, <2>2, FS_AddElement
  <2>4. QED
    BY <1>2, <2>3 DEF Counted
<1>9. QED
  BY <1>4, <1>5, <1>6, <1>7, <1>8 DEF x

\* Every number that was passed was minted, under the mask there is.
AllMinted ==
    \A n \in Numbers(minter) : [mask |-> minter.mask, number |-> n] \in minted

\* The row mint works on is counted as well, and its numbers are minted.
LEMMA ReadyCounted ==
    ASSUME IInv, Counted(minter), AllMinted
    PROVE  /\ Counted(Ready(minter))
           /\ \A n \in Numbers(Ready(minter)) :
                 [mask |-> Ready(minter).mask, number |-> n] \in minted
<1>1. minter.mask \in Masks \ {<<>>}
  BY DEF IInv, RowOK, RowFine
<1>2. AddCount \in Nat
  BY MinterAssumption
<1>3. QED
  BY <1>1, <1>2, ExtendedCounted DEF Ready, AllMinted

LEMMA MintCounted ==
    ASSUME IInv, Counted(minter), AllMinted, Mint
    PROVE  Counted(minter') /\ AllMinted'
<1> DEFINE r == Ready(minter)
<1>1. PICK k \in r.active :
          /\ minter' = Step(r, k)
          /\ minted' = minted \union
                 {[mask |-> minter'.mask, number |-> CompoundedCounter(minter', k)]}
  BY DEF Mint
<1>2. /\ RowFine(minter) /\ IsRow(minter)
      /\ Len(minter.mask) <= MaxLength /\ Len(r.mask) <= MaxLength
  BY DEF IInv, RowOK, Mint
<1>3. RowFine(r) /\ IsRow(r)
  BY <1>2, ReadyFine
<1>4. /\ Counted(r)
      /\ \A n \in Numbers(r) : [mask |-> r.mask, number |-> n] \in minted
  BY ReadyCounted
<1> HIDE DEF r
<1>5. /\ Counted(minter') /\ minter'.mask = r.mask
      /\ Numbers(minter') = Numbers(r) \union {CompoundedCounter(minter', k)}
  BY <1>1, <1>2, <1>3, <1>4, StepCounted, StepFine
<1>6. ASSUME NEW n \in Numbers(minter')
      PROVE  [mask |-> minter'.mask, number |-> n] \in minted'
  BY <1>1, <1>4, <1>5
<1>7. AllMinted'
  BY <1>6 DEF AllMinted, Numbers
<1>8. QED
  BY <1>5, <1>7

LEMMA CountedInvariant == Spec => [](Counted(minter) /\ AllMinted)
<1>1. Init => Counted(minter) /\ AllMinted
  <2> SUFFICES ASSUME Init PROVE Counted(minter) /\ AllMinted
    OBVIOUS
  <2> DEFINE m == [mask |-> FirstMask, baseCount |-> 0, combined |-> 0]
  <2>1. minter = Extended(m, 0) /\ m.mask \in Masks \ {<<>>}
    BY MinterAssumption DEF Init
  <2> HIDE DEF m
  <2>2. Counted(minter) /\ Numbers(minter) = {}
    BY <2>1, ExtendedCounted
  <2>3. QED
    BY <2>2 DEF AllMinted
<1>2. ASSUME IInv, Counted(minter), AllMinted, [Mint]_vars
      PROVE  (Counted(minter) /\ AllMinted)'
  <2>1. CASE Mint
    <3>1. Counted(minter') /\ AllMinted'
      BY <1>2, <2>1, MintCounted
    <3>2. QED
      BY <3>1 DEF Counted, Numbers
  <2>2. CASE UNCHANGED vars
    BY <1>2, <2>2 DEF vars, Counted, Numbers, AllMinted
  <2>3. QED
    BY <1>2, <2>1, <2>2
<1>3. QED
  BY <1>1, <1>2, Invariant, PTL DEF Spec

\* What was minted under the present mask is a number that a counter passed.
LEMMA MintedAreNumbers ==
    ASSUME IInv, Counted(minter), NEW m \in minted, m.mask = minter.mask
    PROVE  m.number \in Numbers(minter)
<1>1. RowFine(minter)
  BY DEF IInv, RowOK
<1>2. Len(minter.mask) \in Nat
  BY <1>1, LenProperties DEF RowFine, Masks
<1>0. PICK k \in DOMAIN minter.counters : \E v \in 1..minter.counters[k].value :
          m.number = v + k * minter.perCounter
  BY <1>2 DEF IInv, Dealt
<1>3. PICK v \in 1..minter.counters[k].value : m.number = v + k * minter.perCounter
  BY <1>0
<1>4. /\ minter.total \in Nat \ {0} /\ minter.perCounter = PerCounter(minter.total)
      /\ minter.counters[k].value \in 0..minter.perCounter
      /\ minter.counters[k].value <= minter.counters[k].top
      /\ minter.counters[k].top \in 1..minter.perCounter
      /\ minter.perCounter \in Nat \ {0}
  BY <1>1, CountersTyped
<1>5. v \in 1..minter.counters[k].top
  BY <1>4
<1>6. m.number \in 1..minter.total
  <2>1. /\ k \in DOMAIN NewCounters(minter.total)
        /\ v \in 1..NewCounters(minter.total)[k].top
    BY <1>5 DEF Counted
  <2>2. v + k * PerCounter(minter.total) \in 1..minter.total
    BY <1>4, <2>1, CountersCover
  <2>3. QED
    BY <1>3, <1>4, <2>2
<1>7. QED
  BY <1>3, <1>6 DEF Numbers

-----------------------------------------------------------------------------
(* The theorems *)

\* The parts of a minter's row agree, whatever its mask and prime: above all the
\* counters mint may step are those that have not reached their top, and no
\* counter leaves its range.
THEOREM RowCorrect == Spec => []RowOK
<1>1. IInv => RowOK
  BY DEF IInv
<1>2. QED
  BY <1>1, Invariant, PTL

\* Every mint gives a number that was never given before under its mask.
THEOREM NumbersMintedOnce == Spec => MintedOnce
<1>1. ASSUME IInv, [Mint]_vars
      PROVE  [\E m \in minted' : m \notin minted]_vars
  BY <1>1, MintFine
<1>2. QED
  BY <1>1, Invariant, PTL DEF Spec, MintedOnce

\* A minter can always go on: the count of its mints reaches the total at the very
\* step at which the last counter reaches its top, so that the template is extended
\* when its assertions pass, and there is a counter to step until then.
THEOREM MinterNeverStuck == Spec => []NeverStuck
<1>1. IInv /\ Counted(minter) => NeverStuck
  BY CountedFits DEF IInv, RowOK, NeverStuck
<1>2. QED
  BY <1>1, Invariant, CountedInvariant, PTL

\* Before a template is extended every string of its mask was minted: the numbers
\* 1..total are all dealt out, and they write every string, for any alphabet.
THEOREM StringsAllMinted == Spec => []EveryStringMinted
<1>1. ASSUME IInv, Counted(minter), AllMinted
      PROVE  EveryStringMinted
  <2> DEFINE mask == minter.mask
             S == {m \in minted : m.mask = mask}
  <2>1. SUFFICES ASSUME Exhausted(minter)
                 PROVE  Strings(S) = StringsOf(mask)
    BY DEF EveryStringMinted, StringsOf
  <2>2. /\ RowFine(minter) /\ mask \in Masks /\ minter.total = MaxCount(mask)
        /\ minted \subseteq [mask: Masks, number: Nat]
    BY <1>1 DEF IInv, RowOK, RowFine
  <2>3. Numbers(minter) = 1..MaxCount(mask)
    BY <1>1, <2>1, <2>2, CountedFits
  <2>4. ASSUME NEW m \in S
        PROVE  m.number \in 1..MaxCount(mask)
    BY <1>1, <2>3, MintedAreNumbers
  <2>5. ASSUME NEW n \in 1..MaxCount(mask)
        PROVE  \E m \in S : m.mask = mask /\ m.number = n
    <3>1. [mask |-> mask, number |-> n] \in minted
      BY <1>1, <2>3 DEF AllMinted
    <3>2. QED
      BY <3>1
  <2>6. Strings(S) = {xdigs(mask, n) : n \in 1..MaxCount(mask)}
    <3>1. \A m \in S : m.mask = mask
      OBVIOUS
    <3> HIDE DEF mask, S
    <3>2. QED
      BY <2>4, <2>5, <3>1 DEF Strings
  <2>7. QED
    BY <2>2, <2>6, NumbersAndStrings
<1>2. QED
  BY <1>1, Invariant, CountedInvariant, PTL

-----------------------------------------------------------------------------
(* The requests *)

\* mint_id makes a mint, or none when its commit is lost.
LEMMA RequestsMint == MintingNext => [Mint]_vars
<1> SUFFICES ASSUME MintingNext
             PROVE  [Mint]_vars
  OBVIOUS
<1>1. ASSUME NEW r \in Requests, MintId(r)
      PROVE  Mint
  <2>1. PICK k \in Ready(minter).active :
           LET m == Step(Ready(minter), k)
           IN  /\ minter' = Committed(m)
               /\ minted' = minted \union
                              {[mask |-> m.mask, number |-> CompoundedCounter(m, k)]}
    BY <1>1 DEF MintId
  <2>2. minter' = Step(Ready(minter), k)
    BY <2>1 DEF Committed
  <2>3. minted' = minted \union
                    {[mask |-> minter'.mask, number |-> CompoundedCounter(minter', k)]}
    BY <2>1, <2>2
  <2>4. QED
    BY <1>1, <2>2, <2>3 DEF MintId, MayMintId, Mint
<1>2. ASSUME NEW r \in Requests, MintIdCommitLost(r) \/ Create(r)
      PROVE  UNCHANGED vars
  BY <1>2 DEF MintIdCommitLost, Create
<1>3. ASSUME NEW id, CreateByHand(id) \/ Delete(id)
      PROVE  UNCHANGED vars
  BY <1>3 DEF CreateByHand, Delete
<1>4. QED
  BY <1>1, <1>2, <1>3 DEF MintingNext

\* What the requests do with the minter is what Minter says: lost commits and
\* identifiers that exist already included, nothing else touches its row.
THEOREM RequestsImplementMinter == MintingSpec => Spec
<1>1. MintingInit => Init
  BY DEF MintingInit
<1>2. [MintingNext]_mintingVars => [Mint]_vars
  BY RequestsMint DEF mintingVars, vars
<1>3. QED
  BY <1>1, <1>2, PTL DEF MintingSpec, Spec

-----------------------------------------------------------------------------
(* What lost commits and identifiers made by hand cost                     *)

\* The string of a mint was not given before, under this mask or another.
LEMMA StringNew ==
    ASSUME IInv, Counted(minter), NEW k \in Ready(minter).active,
           Len(Ready(minter).mask) <= MaxLength
    PROVE  DigitsOf(Step(Ready(minter), k), k) \notin Strings(minted)
<1> DEFINE r == Ready(minter)
           n == CompoundedCounter(Step(r, k), k)
<1>1. /\ RowFine(minter) /\ IsRow(minter) /\ Len(minter.mask) <= MaxLength
      /\ minted \subseteq [mask: Masks, number: Nat]
  BY DEF IInv, RowOK
<1>2. /\ RowFine(r) /\ IsRow(r)
      /\ r = minter \/ Len(minter.mask) < Len(r.mask)
  BY <1>1, ReadyFine
<1>3. Counted(r)
  <2>1. minter.mask \in Masks \ {<<>>} /\ AddCount \in Nat
    BY <1>1, MinterAssumption DEF RowFine
  <2>2. QED
    BY <2>1, ExtendedCounted DEF Ready
<1> HIDE DEF r
<1>4. /\ n \in (1..r.total) \ Numbers(r) /\ Step(r, k).mask = r.mask
  BY <1>2, <1>3, StepCounted, StepFine DEF r
<1>5. r.total = MaxCount(r.mask) /\ r.mask \in Masks /\ minter.mask \in Masks
  BY <1>1, <1>2 DEF RowFine
<1> HIDE DEF n
<1>6. ASSUME NEW m \in minted, xdigs(m.mask, m.number) = xdigs(r.mask, n)
      PROVE  FALSE
  <2>1. m.mask \in Masks
    BY <1>1
  <2>2. Len(m.mask) = Len(r.mask)
    <3>1. DOMAIN m.mask = DOMAIN r.mask
      BY <1>6 DEF xdigs
    <3>2. DOMAIN m.mask = 1..Len(m.mask) /\ DOMAIN r.mask = 1..Len(r.mask)
          /\ Len(m.mask) \in Nat /\ Len(r.mask) \in Nat
      BY <1>5, <2>1, LenProperties DEF Masks
    <3>3. ASSUME NEW i \in Nat, NEW j \in Nat, 1..i = 1..j
          PROVE  i <= j
      <4>1. i = 0 \/ i \in 1..i
        OBVIOUS
      <4>2. i = 0 \/ i \in 1..j
        BY <3>3, <4>1
      <4>3. QED
        BY <4>2
    <3>4. Len(m.mask) <= Len(r.mask) /\ Len(r.mask) <= Len(m.mask)
      BY <3>1, <3>2, <3>3
    <3>5. QED
      BY <3>2, <3>4
  <2>3. Len(m.mask) \in Nat /\ Len(minter.mask) \in Nat
    BY <1>5, <2>1, LenProperties DEF Masks
  <2>4. Len(m.mask) < Len(minter.mask) \/ m.mask = minter.mask
    BY DEF IInv, Dealt
  <2>5. r = minter /\ m.mask = r.mask
    BY <1>2, <2>2, <2>3, <2>4
  <2>6. m.number \in Numbers(r)
    BY <2>5, MintedAreNumbers
  <2>7. m.number \in 1..MaxCount(r.mask) /\ n \in 1..MaxCount(r.mask)
    BY <1>4, <1>5, <2>6 DEF Numbers
  <2>8. m.number = n
    BY <1>5, <1>6, <2>5, <2>7, NumbersAndStrings
  <2>9. QED
    BY <1>4, <2>6, <2>8
<1>7. QED
  BY <1>4, <1>6 DEF DigitsOf, Strings, r, n

\* Who holds an identifier, which are spoken for, and which of them the minter
\* knows it has given.
Holders == {r \in Requests : held[r] # Nothing}
Claimed == exists \union {held[r] : r \in Holders}
Known == {id \in Claimed : id \in Strings(minted)}

\* An identifier the minter has given may be claimed once, one that it has yet to
\* give not at all: every claim beyond was paid for by a lost commit or a creation
\* by hand, and a failure gives one up.
Paid == failures + Cardinality(Holders) + Cardinality(exists) <= unknown + Cardinality(Known)

Claims ==
    /\ held = [s \in Requests |-> held[s]]
    /\ IsFiniteSet(exists) /\ IsFiniteSet(Holders)
    /\ failures \in Nat /\ unknown \in Nat
    /\ Paid

\* There are no more identifiers spoken for than there are claims.
LEMMA ClaimsBound ==
    ASSUME NEW E, NEW H, NEW h, IsFiniteSet(E), IsFiniteSet(H),
           NEW K, \A id \in K : id \in E \/ \E r \in H : id = h[r]
    PROVE  /\ IsFiniteSet(K) /\ Cardinality(K) \in Nat
           /\ Cardinality(H) \in Nat /\ Cardinality(E) \in Nat
           /\ Cardinality(K) <= Cardinality(E) + Cardinality(H)
<1> DEFINE T == {h[r] : r \in H}
           f == [r \in H |-> h[r]]
<1>1. f \in Surjection(H, T)
  BY DEF Surjection
<1> HIDE DEF f
<1>2. IsFiniteSet(T) /\ Cardinality(T) <= Cardinality(H)
  BY <1>1, FS_Surjection
<1> HIDE DEF T
<1>3. /\ IsFiniteSet(E \union T)
      /\ Cardinality(E \union T)
           = Cardinality(E) + Cardinality(T) - Cardinality(E \intersect T)
  BY <1>2, FS_Union
<1>4. IsFiniteSet(E \intersect T)
  BY <1>2, FS_Intersection
<1>5. K \in SUBSET (E \union T)
  BY DEF T
<1>6. IsFiniteSet(K) /\ Cardinality(K) <= Cardinality(E \union T)
  BY <1>3, <1>5, FS_Subset
<1>7. /\ Cardinality(H) \in Nat /\ Cardinality(E) \in Nat
      /\ Cardinality(K) \in Nat /\ Cardinality(T) \in Nat
      /\ Cardinality(E \intersect T) \in Nat /\ Cardinality(E \union T) \in Nat
  BY <1>2, <1>3, <1>4, <1>6, FS_CardinalityType
<1>8. QED
  BY <1>2, <1>3, <1>6, <1>7

LEMMA ClaimsFinite ==
    ASSUME IsFiniteSet(exists), IsFiniteSet(Holders)
    PROVE  /\ IsFiniteSet(Known) /\ Cardinality(Known) \in Nat
           /\ Cardinality(Holders) \in Nat /\ Cardinality(exists) \in Nat
           /\ Cardinality(Known) <= Cardinality(exists) + Cardinality(Holders)
<1>1. \A id \in Known : id \in exists \/ \E r \in Holders : id = held[r]
  BY DEF Known, Claimed
<1>2. QED
  BY <1>1, ClaimsBound

LEMMA ClaimsFiniteNext ==
    ASSUME IsFiniteSet(exists'), IsFiniteSet(Holders')
    PROVE  /\ IsFiniteSet(Known') /\ Cardinality(Known') \in Nat
           /\ Cardinality(Holders') \in Nat /\ Cardinality(exists') \in Nat
<1>1. \A id \in Known' : id \in exists' \/ \E r \in Holders' : id = held'[r]
  BY DEF Known, Claimed
<1>2. /\ IsFiniteSet(Known') /\ Cardinality(Known') \in Nat
      /\ Cardinality(Holders') \in Nat /\ Cardinality(exists') \in Nat
      /\ Cardinality(Known') <= Cardinality(exists') + Cardinality(Holders')
  BY <1>1, ClaimsBound
<1>3. QED
  BY <1>2

\* To claim one more identifier, and to give one up.
LEMMA OneMore ==
    ASSUME NEW S, IsFiniteSet(S), NEW x, x \notin S
    PROVE  IsFiniteSet(S \union {x}) /\ Cardinality(S \union {x}) = Cardinality(S) + 1
  BY FS_AddElement

LEMMA OneLess ==
    ASSUME NEW S, IsFiniteSet(S), NEW x \in S
    PROVE  IsFiniteSet(S \ {x}) /\ Cardinality(S \ {x}) = Cardinality(S) - 1
  BY FS_RemoveElement

\* What is kept of a set but for one element.
LEMMA AllButOne ==
    ASSUME NEW S, NEW T, NEW x, IsFiniteSet(S), IsFiniteSet(T), S \ {x} \subseteq T
    PROVE  Cardinality(S) <= Cardinality(T) + 1
<1>1. /\ IsFiniteSet(S \ {x})
      /\ Cardinality(S \ {x}) = IF x \in S THEN Cardinality(S) - 1 ELSE Cardinality(S)
  BY FS_RemoveElement
<1>2. Cardinality(S \ {x}) <= Cardinality(T)
  BY FS_Subset
<1>3. Cardinality(S) \in Nat /\ Cardinality(T) \in Nat
  BY FS_CardinalityType
<1>4. QED
  BY <1>1, <1>2, <1>3

LEMMA MintIdClaims ==
    ASSUME IInv, Counted(minter), Claims, NEW r \in Requests, MintId(r)
    PROVE  Claims'
<1>1. PICK k \in Ready(minter).active :
         /\ minted' = minted \union
              {[mask |-> Step(Ready(minter), k).mask,
                number |-> CompoundedCounter(Step(Ready(minter), k), k)]}
         /\ Checked(r, DigitsOf(Step(Ready(minter), k), k))
  BY DEF MintId
<1> DEFINE id == DigitsOf(Step(Ready(minter), k), k)
<1>2. /\ exists' = exists /\ unknown' = unknown /\ held[r] = Nothing
      /\ Len(Ready(minter).mask) <= MaxLength
  BY DEF MintId, MayMintId
<1>3. id \notin Strings(minted)
  BY <1>2, StringNew
<1>4. id \in Strings(minted') /\ Strings(minted) \subseteq Strings(minted')
  <2> DEFINE m == [mask |-> Step(Ready(minter), k).mask,
                   number |-> CompoundedCounter(Step(Ready(minter), k), k)]
  <2>1. m \in minted' /\ id = xdigs(m.mask, m.number) /\ minted \subseteq minted'
    BY <1>1 DEF DigitsOf
  <2> HIDE DEF m, id
  <2>2. QED
    BY <2>1 DEF Strings
<1>5. \/ id \in exists /\ failures' = failures + 1 /\ held' = held
      \/ id \notin exists /\ held' = [held EXCEPT ![r] = id] /\ failures' = failures
  BY <1>1 DEF Checked
<1> HIDE DEF id
<1>6. /\ IsFiniteSet(Known)
      /\ Cardinality(Holders) \in Nat /\ Cardinality(exists) \in Nat
      /\ Cardinality(Known) \in Nat
      /\ failures \in Nat /\ unknown \in Nat
      /\ failures + Cardinality(Holders) + Cardinality(exists) <= unknown + Cardinality(Known)
  BY ClaimsFinite DEF Claims, Paid
<1>7. id \notin Known
  BY <1>3 DEF Known
<1>8. IsFiniteSet(Known \union {id}) /\ Cardinality(Known \union {id}) = Cardinality(Known) + 1
  BY <1>6, <1>7, OneMore
<1>9. CASE id \in exists
  <2>1. failures' = failures + 1 /\ held' = held /\ Holders' = Holders
    BY <1>5, <1>9 DEF Holders
  <2>2. Known \union {id} \subseteq Known'
    BY <1>2, <1>4, <1>9, <2>1 DEF Known, Claimed
  <2>3. IsFiniteSet(exists') /\ IsFiniteSet(Holders')
    BY <1>2, <2>1 DEF Claims
  <2>4. IsFiniteSet(Known') /\ Cardinality(Known') \in Nat
    BY <2>3, ClaimsFiniteNext
  <2>5. Cardinality(Known \union {id}) <= Cardinality(Known')
    BY <2>2, <2>4, FS_Subset
  <2>6. Paid'
    BY <1>2, <1>6, <1>8, <2>1, <2>4, <2>5 DEF Paid
  <2>7. QED
    BY <1>2, <1>6, <2>1, <2>3, <2>6 DEF Claims
<1>10. CASE id \notin exists /\ id # Nothing
  <2>1. failures' = failures /\ held' = [held EXCEPT ![r] = id]
    BY <1>5, <1>10
  <2>2. r \notin Holders /\ Holders' = Holders \union {r} /\ held'[r] = id
        /\ \A s \in Holders : held'[s] = held[s]
    BY <1>2, <1>10, <2>1 DEF Holders, Claims
  <2>3. Known \union {id} \subseteq Known'
    BY <1>2, <1>4, <2>2 DEF Known, Claimed
  <2>4. /\ IsFiniteSet(exists') /\ IsFiniteSet(Holders')
        /\ Cardinality(Holders') = Cardinality(Holders) + 1
    BY <1>2, <2>2, OneMore DEF Claims
  <2>5. IsFiniteSet(Known') /\ Cardinality(Known') \in Nat
    BY <2>4, ClaimsFiniteNext
  <2>6. Cardinality(Known \union {id}) <= Cardinality(Known')
    BY <2>3, <2>5, FS_Subset
  <2>7. Paid'
    BY <1>2, <1>6, <1>8, <2>1, <2>4, <2>5, <2>6 DEF Paid
  <2>8. QED
    BY <1>2, <1>6, <2>1, <2>4, <2>7 DEF Claims
<1>11. CASE id \notin exists /\ id = Nothing
  <2>1. failures' = failures /\ held' = held /\ Holders' = Holders
    <3>1. failures' = failures /\ held' = [held EXCEPT ![r] = Nothing]
      BY <1>5, <1>11
    <3>2. QED
      BY <1>2, <3>1 DEF Holders, Claims
  <2>2. Known \subseteq Known'
    BY <1>2, <1>4, <2>1 DEF Known, Claimed
  <2>3. IsFiniteSet(exists') /\ IsFiniteSet(Holders')
    BY <1>2, <2>1 DEF Claims
  <2>4. IsFiniteSet(Known') /\ Cardinality(Known') \in Nat
    BY <2>3, ClaimsFiniteNext
  <2>5. Cardinality(Known) <= Cardinality(Known')
    BY <2>2, <2>4, FS_Subset
  <2>6. Paid'
    BY <1>2, <1>6, <2>1, <2>4, <2>5 DEF Paid
  <2>7. QED
    BY <1>2, <1>6, <2>1, <2>3, <2>6 DEF Claims
<1>12. QED
  BY <1>9, <1>10, <1>11

\* The arithmetic of the other steps: claims that are gained are paid for, and
\* whoever gives one up may lose one that is known.
LEMMA ClaimsKept ==
    ASSUME Claims, held' = [s \in Requests |-> held'[s]], IsFiniteSet(exists'), IsFiniteSet(Holders'),
           failures' \in Nat, unknown' \in Nat,
           \/ /\ Known \subseteq Known'
              /\ failures' + Cardinality(Holders') + Cardinality(exists') + unknown
                   <= failures + Cardinality(Holders) + Cardinality(exists) + unknown'
           \/ /\ \E id : Known \ {id} \subseteq Known'
              /\ failures' + Cardinality(Holders') + Cardinality(exists') + unknown + 1
                   <= failures + Cardinality(Holders) + Cardinality(exists) + unknown'
    PROVE  Claims'
<1>1. /\ IsFiniteSet(Known) /\ Cardinality(Holders) \in Nat /\ Cardinality(exists) \in Nat
      /\ Cardinality(Known) \in Nat /\ failures \in Nat /\ unknown \in Nat
      /\ failures + Cardinality(Holders) + Cardinality(exists) <= unknown + Cardinality(Known)
  BY ClaimsFinite DEF Claims, Paid
<1>2. /\ IsFiniteSet(Known') /\ Cardinality(Holders') \in Nat /\ Cardinality(exists') \in Nat
      /\ Cardinality(Known') \in Nat
  BY ClaimsFiniteNext
<1>3. CASE /\ Known \subseteq Known'
           /\ failures' + Cardinality(Holders') + Cardinality(exists') + unknown
                <= failures + Cardinality(Holders) + Cardinality(exists) + unknown'
  <2>1. Cardinality(Known) <= Cardinality(Known')
    BY <1>2, <1>3, FS_Subset
  <2>2. Paid'
    BY <1>1, <1>2, <1>3, <2>1 DEF Paid
  <2>3. QED
    BY <2>2 DEF Claims
<1>4. CASE /\ \E id : Known \ {id} \subseteq Known'
           /\ failures' + Cardinality(Holders') + Cardinality(exists') + unknown + 1
                <= failures + Cardinality(Holders) + Cardinality(exists) + unknown'
  <2>1. Cardinality(Known) <= Cardinality(Known') + 1
    BY <1>1, <1>2, <1>4, AllButOne
  <2>2. Paid'
    BY <1>1, <1>2, <1>4, <2>1 DEF Paid
  <2>3. QED
    BY <2>2 DEF Claims
<1>5. QED
  BY <1>3, <1>4

LEMMA CommitLostClaims ==
    ASSUME Claims, NEW r \in Requests, MintIdCommitLost(r)
    PROVE  Claims'
<1>1. PICK id : Checked(r, id)
  BY DEF MintIdCommitLost
<1>2. /\ held[r] = Nothing /\ unknown' = unknown + 1 /\ exists' = exists /\ minted' = minted
  BY DEF MintIdCommitLost, MayMintId, vars
<1>3. /\ held = [s \in Requests |-> held[s]] /\ IsFiniteSet(exists) /\ IsFiniteSet(Holders)
      /\ failures \in Nat /\ unknown \in Nat
      /\ Cardinality(Holders) \in Nat /\ Cardinality(exists) \in Nat
  BY ClaimsFinite DEF Claims
<1>4. CASE id \in exists \/ id = Nothing
  <2>1. (failures' = failures + 1 \/ failures' = failures) /\ held' = held
    BY <1>1, <1>2, <1>3, <1>4 DEF Checked
  <2>2. Holders' = Holders /\ Known' = Known
    BY <1>2, <2>1 DEF Holders, Known, Claimed
  <2>3. /\ failures' \in Nat /\ unknown' \in Nat
        /\ failures' + Cardinality(Holders') + Cardinality(exists') + unknown
             <= failures + Cardinality(Holders) + Cardinality(exists) + unknown'
    BY <1>2, <1>3, <2>1, <2>2
  <2>4. QED
    BY <1>2, <1>3, <2>1, <2>2, <2>3, ClaimsKept
<1>5. CASE id \notin exists /\ id # Nothing
  <2>1. failures' = failures /\ held' = [held EXCEPT ![r] = id]
    BY <1>1, <1>5 DEF Checked
  <2>2. r \notin Holders /\ Holders' = Holders \union {r} /\ held' = [s \in Requests |-> held'[s]]
        /\ \A s \in Holders : held'[s] = held[s]
    BY <1>2, <1>3, <1>5, <2>1 DEF Holders
  <2>3. Known \subseteq Known'
    BY <1>2, <2>2 DEF Known, Claimed
  <2>4. IsFiniteSet(Holders') /\ Cardinality(Holders') = Cardinality(Holders) + 1
    BY <1>3, <2>2, OneMore
  <2>5. /\ failures' \in Nat /\ unknown' \in Nat
        /\ failures' + Cardinality(Holders') + Cardinality(exists') + unknown
             <= failures + Cardinality(Holders) + Cardinality(exists) + unknown'
    BY <1>2, <1>3, <2>1, <2>4
  <2>6. QED
    BY <1>2, <1>3, <2>2, <2>3, <2>4, <2>5, ClaimsKept
<1>6. QED
  BY <1>4, <1>5

LEMMA CreateClaims ==
    ASSUME Claims, NEW r \in Requests, Create(r)
    PROVE  Claims'
<1> DEFINE id == held[r]
<1>1. /\ id # Nothing /\ held' = [held EXCEPT ![r] = Nothing]
      /\ unknown' = unknown /\ minted' = minted
      /\ \/ id \in exists /\ failures' = failures + 1 /\ exists' = exists
         \/ id \notin exists /\ exists' = exists \union {id} /\ failures' = failures
         \/ id \notin exists /\ exists' = exists /\ failures' = failures
  BY DEF Create, vars
<1>2. /\ held = [s \in Requests |-> held[s]] /\ IsFiniteSet(exists) /\ IsFiniteSet(Holders)
      /\ failures \in Nat /\ unknown \in Nat
      /\ Cardinality(Holders) \in Nat /\ Cardinality(exists) \in Nat
  BY ClaimsFinite DEF Claims
<1> HIDE DEF id
<1>3. /\ r \in Holders /\ Holders' = Holders \ {r} /\ held' = [s \in Requests |-> held'[s]]
      /\ \A s \in Holders' : held'[s] = held[s]
  BY <1>1, <1>2 DEF Holders, id
<1>4. IsFiniteSet(Holders') /\ Cardinality(Holders') = Cardinality(Holders) - 1
  BY <1>2, <1>3, OneLess
<1>5. Claimed = exists \union {held[s] : s \in Holders \ {r}} \union {id}
  BY <1>3 DEF Claimed, id
<1>6. Claimed' = exists' \union {held[s] : s \in Holders \ {r}}
  BY <1>3 DEF Claimed
<1>7. CASE id \in exists
  <2>1. failures' = failures + 1 /\ exists' = exists
    BY <1>1, <1>7
  <2>2. Known \subseteq Known'
    BY <1>1, <1>5, <1>6, <1>7, <2>1 DEF Known
  <2>3. /\ failures' \in Nat /\ unknown' \in Nat
        /\ failures' + Cardinality(Holders') + Cardinality(exists') + unknown
             <= failures + Cardinality(Holders) + Cardinality(exists) + unknown'
    BY <1>1, <1>2, <1>4, <2>1
  <2>4. QED
    BY <1>2, <1>3, <1>4, <2>1, <2>2, <2>3, ClaimsKept
<1>8. CASE id \notin exists /\ exists' = exists \union {id} /\ failures' = failures
  <2>1. Known \subseteq Known'
    BY <1>1, <1>5, <1>6, <1>8 DEF Known
  <2>2. IsFiniteSet(exists') /\ Cardinality(exists') = Cardinality(exists) + 1
    BY <1>2, <1>8, OneMore
  <2>3. /\ failures' \in Nat /\ unknown' \in Nat
        /\ failures' + Cardinality(Holders') + Cardinality(exists') + unknown
             <= failures + Cardinality(Holders) + Cardinality(exists) + unknown'
    BY <1>1, <1>2, <1>4, <1>8, <2>2
  <2>4. QED
    BY <1>2, <1>3, <1>4, <2>1, <2>2, <2>3, ClaimsKept
<1>9. CASE id \notin exists /\ exists' = exists /\ failures' = failures
  <2>1. Known \ {id} \subseteq Known'
    BY <1>1, <1>5, <1>6, <1>9 DEF Known
  <2>2. /\ failures' \in Nat /\ unknown' \in Nat
        /\ failures' + Cardinality(Holders') + Cardinality(exists') + unknown + 1
             <= failures + Cardinality(Holders) + Cardinality(exists) + unknown'
    BY <1>1, <1>2, <1>4, <1>9
  <2>3. QED
    BY <1>2, <1>3, <1>4, <1>9, <2>1, <2>2, ClaimsKept
<1>10. QED
  BY <1>1, <1>7, <1>8, <1>9

LEMMA ByHandClaims ==
    ASSUME Claims, NEW id, CreateByHand(id) \/ Delete(id)
    PROVE  Claims'
<1>1. /\ held' = held /\ failures' = failures /\ minted' = minted
      /\ \/ id \notin exists /\ exists' = exists \union {id} /\ unknown' = unknown + 1
         \/ id \in exists /\ exists' = exists \ {id} /\ unknown' = unknown
  BY DEF CreateByHand, Delete, vars
<1>2. /\ held = [s \in Requests |-> held[s]] /\ IsFiniteSet(exists) /\ IsFiniteSet(Holders)
      /\ failures \in Nat /\ unknown \in Nat
      /\ Cardinality(Holders) \in Nat /\ Cardinality(exists) \in Nat
  BY ClaimsFinite DEF Claims
<1>3. Holders' = Holders /\ {held'[r] : r \in Holders'} = {held[r] : r \in Holders}
  BY <1>1 DEF Holders
<1>4. CASE id \notin exists /\ exists' = exists \union {id} /\ unknown' = unknown + 1
  <2>1. Known \subseteq Known'
    BY <1>1, <1>3, <1>4 DEF Known, Claimed
  <2>2. IsFiniteSet(exists') /\ Cardinality(exists') = Cardinality(exists) + 1
    BY <1>2, <1>4, OneMore
  <2>3. /\ failures' \in Nat /\ unknown' \in Nat
        /\ failures' + Cardinality(Holders') + Cardinality(exists') + unknown
             <= failures + Cardinality(Holders) + Cardinality(exists) + unknown'
    BY <1>1, <1>2, <1>3, <1>4, <2>2
  <2>4. QED
    BY <1>1, <1>2, <1>3, <2>1, <2>2, <2>3, ClaimsKept
<1>5. CASE id \in exists /\ exists' = exists \ {id} /\ unknown' = unknown
  <2>1. Known \ {id} \subseteq Known'
    BY <1>1, <1>3, <1>5 DEF Known, Claimed
  <2>2. IsFiniteSet(exists') /\ Cardinality(exists') = Cardinality(exists) - 1
    BY <1>2, <1>5, OneLess
  <2>3. /\ failures' \in Nat /\ unknown' \in Nat
        /\ failures' + Cardinality(Holders') + Cardinality(exists') + unknown + 1
             <= failures + Cardinality(Holders) + Cardinality(exists) + unknown'
    BY <1>1, <1>2, <1>3, <1>5, <2>2
  <2>4. QED
    BY <1>1, <1>2, <1>3, <2>1, <2>2, <2>3, ClaimsKept
<1>6. QED
  BY <1>1, <1>4, <1>5

\* A minter that is behind the table costs a failed request for each identifier it
\* does not know of and no more, however many requests mint, hold what they were
\* given, create it late and delete it again.
THEOREM BehindCosts == MintingSpec => []BehindCostsOneEach
<1>1. MintingInit => Claims
  <2> SUFFICES ASSUME MintingInit PROVE Claims
    OBVIOUS
  <2>1. exists = {} /\ Holders = {} /\ failures = 0 /\ unknown = 0
        /\ held = [s \in Requests |-> held[s]]
    BY DEF MintingInit, Holders
  <2>2. Claimed = {} /\ Known = {}
    BY <2>1 DEF Claimed, Known
  <2>3. IsFiniteSet({}) /\ Cardinality({}) = 0
    BY FS_EmptySet
  <2>4. QED
    BY <2>1, <2>2, <2>3 DEF Claims, Paid
<1>2. ASSUME IInv, Counted(minter), Claims, [MintingNext]_mintingVars
      PROVE  Claims'
  <2>1. CASE UNCHANGED mintingVars
    BY <1>2, <2>1 DEF mintingVars, vars, Claims, Paid, Known, Claimed, Holders
  <2>2. ASSUME NEW r \in Requests, MintId(r) \/ MintIdCommitLost(r) \/ Create(r)
        PROVE  Claims'
    BY <1>2, <2>2, MintIdClaims, CommitLostClaims, CreateClaims
  <2>3. ASSUME NEW id, CreateByHand(id) \/ Delete(id)
        PROVE  Claims'
    BY <1>2, <2>3, ByHandClaims
  <2>4. QED
    BY <1>2, <2>1, <2>2, <2>3 DEF MintingNext
<1>3. Claims => BehindCostsOneEach
  <2> SUFFICES ASSUME Claims PROVE failures <= unknown
    BY DEF BehindCostsOneEach
  <2>1. QED
    BY ClaimsFinite DEF Claims, Paid
<1>4. MintingSpec => []IInv /\ [](Counted(minter) /\ AllMinted)
  BY RequestsImplementMinter, Invariant, CountedInvariant
<1>5. QED
  BY <1>1, <1>2, <1>3, <1>4, PTL DEF MintingSpec
=============================================================================
