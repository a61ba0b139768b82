------------------------- MODULE CredentialsAlgebra -------------------------
(* Lemmas about the operators Credentials is built from: arithmetic modulo *)
(* the prime P, folds, polynomials and Lagrange interpolation at zero.     *)
EXTENDS Credentials, FiniteSetTheorems, WellFoundedInduction, TLAPS

-----------------------------------------------------------------------------
(* Induction.                                                              *)

\* A non-empty set of naturals has a smallest element.
LEMMA Smallest == \A S \in SUBSET Nat : S # {} => \E m \in S : \A k \in S : m <= k
<1> SUFFICES ASSUME NEW S \in SUBSET Nat, S # {} PROVE \E m \in S : \A k \in S : m <= k
  BY Zenon
<1>1. PICK m \in S : \A k \in S : ~(<<k, m>> \in OpToRel(<, Nat))
  BY Zenon, NatLessThanWellFounded, WFMin
<1>2. \A k \in S : ~(k < m)
  BY Zenon, <1>1 DEF OpToRel
<1> QED BY <1>2

\* Induction over the naturals, with the set of the numbers that have the property.
LEMMA Induction == ASSUME NEW S, 0 \in S, \A n \in Nat : n \in S => n + 1 \in S PROVE Nat \subseteq S
<1> SUFFICES ASSUME ~(Nat \subseteq S) PROVE FALSE
  BY Zenon
<1>1. PICK m \in Nat \ S : \A k \in Nat \ S : m <= k
  BY Zenon, Smallest
<1>2. m - 1 \in Nat /\ m - 1 \in S
  BY <1>1
<1> QED BY <1>1, <1>2

\* Induction over the subsets of a finite set.
Inductive(T, D) == \A s \in SUBSET D : (\A a \in s : s \ {a} \in T) => s \in T

\* A set that has s whenever it has s without each one element has them all.
LEMMA SetInduction == ASSUME NEW D, IsFiniteSet(D), NEW T, Inductive(T, D) PROVE \A s \in SUBSET D : s \in T
<1> DEFINE N == {n \in Nat : \A s \in SUBSET D : Cardinality(s) = n => s \in T}
<1>1. \A s \in SUBSET D : IsFiniteSet(s) /\ Cardinality(s) \in Nat
  BY Zenon, FS_Subset, FS_CardinalityType
<1>2. 0 \in N
  <2>1. \A s \in SUBSET D : Cardinality(s) = 0 => s = {}
    BY Zenon, <1>1, FS_EmptySet
  <2> QED BY Zenon, <2>1 DEF Inductive
<1>3. ASSUME NEW n \in Nat, n \in N PROVE n + 1 \in N
  <2> SUFFICES ASSUME NEW s \in SUBSET D, Cardinality(s) = n + 1 PROVE \A a \in s : s \ {a} \in T
    BY DEF Inductive
  <2> TAKE a \in s
  <2>1. IsFiniteSet(s) /\ s \ {a} \in SUBSET D
    BY Zenon, <1>1
  <2>2. Cardinality(s \ {a}) = Cardinality(s) - 1
    BY Zenon, <2>1, FS_RemoveElement
  <2>3. Cardinality(s \ {a}) = n
    BY <2>2
  <2> QED BY Zenon, <2>1, <2>3, <1>3
<1>4. Nat \subseteq N
  BY Zenon, <1>2, <1>3, Induction
<1> QED BY Zenon, <1>1, <1>4

-----------------------------------------------------------------------------
(* Arithmetic modulo P.                                                    *)

\* An integer is a multiple of P and a remainder, in one way.
LEMMA Division == \A a \in Int : \E q \in Int, r \in Zn : a = (P * q) + r /\ a % P = r
<1> SUFFICES ASSUME NEW a \in Int PROVE \E q \in Int, r \in Zn : a = (P * q) + r /\ a % P = r
  BY Zenon
<1>1. a \div P \in Int /\ a % P \in Zn /\ a = (P * (a \div P)) + (a % P)
  BY PAssumption DEF Zn
<1> QED BY Zenon, <1>1

\* ... and r is that remainder, whatever q is.
LEMMA Remainder == \A a, q \in Int, r \in Zn : a = (P * q) + r => a % P = r
  BY PAssumption DEF Zn

\* Elements of Zn are their own remainders.
LEMMA Small == \A a \in Zn : a \in Int /\ a % P = a
  BY PAssumption DEF Zn

\* Multiples of P do not matter, and remainders may be taken at any time.
LEMMA Multiple == \A a, k \in Int : (a + (P * k)) % P = a % P
<1> SUFFICES ASSUME NEW a \in Int, NEW k \in Int PROVE (a + (P * k)) % P = a % P
  BY Zenon
<1>1. PICK q \in Int, r \in Zn : a = (P * q) + r /\ a % P = r
  BY Zenon, Division
<1>2. a + (P * k) = (P * (q + k)) + r
  BY <1>1, Small, PAssumption
<1>3. a + (P * k) \in Int /\ q + k \in Int
  BY PAssumption
<1>4. (a + (P * k)) % P = r
  BY Zenon, <1>2, <1>3, Remainder
<1> QED BY Zenon, <1>1, <1>4

\* A summand may be reduced first, ...
LEMMA AddRemainder == \A a, b \in Int : (a + (b % P)) % P = (a + b) % P
<1> SUFFICES ASSUME NEW a \in Int, NEW b \in Int PROVE (a + (b % P)) % P = (a + b) % P
  BY Zenon
<1>1. PICK q \in Int, r \in Zn : b = (P * q) + r /\ b % P = r
  BY Zenon, Division
<1>2. a + b = (a + r) + (P * q) /\ a + r \in Int
  BY <1>1, Small, PAssumption
<1>3. (a + b) % P = (a + r) % P
  BY Zenon, <1>2, Multiple
<1> QED BY Zenon, <1>1, <1>3

\* ... and so may a factor.
LEMMA MulRemainder == \A a, b \in Int : (a * (b % P)) % P = (a * b) % P
<1> SUFFICES ASSUME NEW a \in Int, NEW b \in Int PROVE (a * (b % P)) % P = (a * b) % P
  BY Zenon
<1>1. PICK q \in Int, r \in Zn : b = (P * q) + r /\ b % P = r
  BY Zenon, Division
<1>2. r \in Int /\ P \in Int
  BY Small, PAssumption
<1>3. a * b = (a * r) + (P * (a * q)) /\ a * r \in Int /\ a * q \in Int
  BY <1>1, <1>2
<1>4. (a * b) % P = (a * r) % P
  BY Zenon, <1>3, Multiple
<1> QED BY Zenon, <1>1, <1>4

\* The residue of an integer.  It commutes with the operations.
Z(a) == a % P

\* Remainders are in Zn.
LEMMA ZType == \A a \in Int : Z(a) \in Zn
  BY Zenon, Division DEF Z

\* An element of Zn represents itself.
LEMMA ZSmall == \A a \in Zn : a \in Int /\ Z(a) = a
  BY Zenon, Small DEF Z

\* add adds what its arguments represent, ...
LEMMA ZAdd == \A a, b \in Int : add(Z(a), Z(b)) = Z(a + b)
<1> SUFFICES ASSUME NEW a \in Int, NEW b \in Int PROVE ((a % P) + (b % P)) % P = (a + b) % P
  BY Zenon DEF add, Z
<1>1. a % P \in Int /\ b % P \in Int
  BY Zenon, Division, Small
<1>2. ((a % P) + (b % P)) % P = ((a % P) + b) % P
  BY Zenon, <1>1, AddRemainder
<1>3. ((a % P) + b) % P = (b + (a % P)) % P
  BY <1>1
<1>4. (b + (a % P)) % P = (b + a) % P
  BY Zenon, AddRemainder
<1>5. b + a = a + b
  OBVIOUS
<1> QED BY Zenon, <1>2, <1>3, <1>4, <1>5

\* ... mul multiplies it, ...
LEMMA ZMul == \A a, b \in Int : mul(Z(a), Z(b)) = Z(a * b)
<1> SUFFICES ASSUME NEW a \in Int, NEW b \in Int PROVE ((a % P) * (b % P)) % P = (a * b) % P
  BY Zenon DEF mul, Z
<1>1. PICK r \in Int : a % P = r
  BY Zenon, Division, Small
<1>2. (r * (b % P)) % P = (r * b) % P
  BY Zenon, MulRemainder
<1>3. r * b = b * r
  BY <1>1
<1>4. (b * r) % P = (b * a) % P
  BY Zenon, <1>1, MulRemainder
<1>5. b * a = a * b
  OBVIOUS
<1> QED BY Zenon, <1>1, <1>2, <1>3, <1>4, <1>5

\* ... and neg negates it.
LEMMA ZNeg == \A a \in Int : neg(Z(a)) = Z(-a)
<1> SUFFICES ASSUME NEW a \in Int PROVE (-(a % P)) % P = (-a) % P
  BY Zenon DEF neg, Z
<1>1. PICK q \in Int, r \in Zn : a = (P * q) + r /\ a % P = r
  BY Zenon, Division
<1>2. -r = (-a) + (P * q) /\ -a \in Int
  BY <1>1, Small, PAssumption
<1>3. (-r) % P = (-a) % P
  BY Zenon, <1>2, Multiple
<1> QED BY Zenon, <1>1, <1>3

\* Zn is a commutative ring.
LEMMA Constants == 0 \in Zn /\ 1 \in Zn /\ 0 # 1 /\ Z(0) = 0 /\ Z(1) = 1
<1>1. 0 \in Zn /\ 1 \in Zn
  BY PAssumption DEF Zn
<1> QED BY <1>1, ZSmall

\* The operations stay in Zn.
LEMMA Closed == \A a, b \in Zn : add(a, b) \in Zn /\ mul(a, b) \in Zn /\ neg(a) \in Zn
<1> SUFFICES ASSUME NEW a \in Zn, NEW b \in Zn PROVE add(a, b) \in Zn /\ mul(a, b) \in Zn /\ neg(a) \in Zn
  BY Zenon
<1>1. a \in Int /\ b \in Int
  BY Zenon, Small
<1>2. a + b \in Int /\ a * b \in Int /\ -a \in Int
  BY <1>1
<1> QED BY Zenon, <1>2, ZType DEF Z, add, mul, neg

\* The additive group.
LEMMA AddLaws ==
    /\ \A a, b \in Zn : add(a, b) = add(b, a)
    /\ \A a, b, c \in Zn : add(add(a, b), c) = add(a, add(b, c))
    /\ \A a \in Zn : add(a, 0) = a /\ add(0, a) = a
    /\ \A a \in Zn : add(a, neg(a)) = 0
<1>1. ASSUME NEW a \in Zn, NEW b \in Zn PROVE add(a, b) = add(b, a)
  BY Small DEF add
<1>2. ASSUME NEW a \in Zn, NEW b \in Zn, NEW c \in Zn PROVE add(add(a, b), c) = add(a, add(b, c))
  <2>1. a \in Int /\ b \in Int /\ c \in Int /\ a + b \in Int /\ b + c \in Int
    BY Small
  <2>2. add(add(a, b), c) = Z((a + b) + c)
    BY <2>1, ZSmall, ZAdd
  <2>3. add(a, add(b, c)) = Z(a + (b + c))
    BY <2>1, ZSmall, ZAdd
  <2>4. (a + b) + c = a + (b + c)
    BY <2>1
  <2> QED BY Zenon, <2>2, <2>3, <2>4
<1>3. ASSUME NEW a \in Zn PROVE add(a, 0) = a /\ add(0, a) = a
  BY Small DEF add
<1>4. ASSUME NEW a \in Zn PROVE add(a, neg(a)) = 0
  <2>1. a \in Int /\ -a \in Int
    BY Small
  <2>2. add(a, neg(a)) = Z(a + (-a))
    BY <2>1, ZSmall, ZAdd, ZNeg
  <2> QED BY <2>1, <2>2, Constants
<1> QED BY Zenon, <1>1, <1>2, <1>3, <1>4

\* Multiplication, with 0 and 1.
LEMMA MulLaws ==
    /\ \A a, b \in Zn : mul(a, b) = mul(b, a)
    /\ \A a, b, c \in Zn : mul(mul(a, b), c) = mul(a, mul(b, c))
    /\ \A a \in Zn : mul(a, 1) = a /\ mul(1, a) = a
    /\ \A a \in Zn : mul(a, 0) = 0 /\ mul(0, a) = 0
<1>1. ASSUME NEW a \in Zn, NEW b \in Zn PROVE mul(a, b) = mul(b, a)
  BY Small DEF mul
<1>2. ASSUME NEW a \in Zn, NEW b \in Zn, NEW c \in Zn PROVE mul(mul(a, b), c) = mul(a, mul(b, c))
  <2>1. a \in Int /\ b \in Int /\ c \in Int /\ a * b \in Int /\ b * c \in Int
    BY Small
  <2>2. mul(mul(a, b), c) = Z((a * b) * c)
    BY <2>1, ZSmall, ZMul
  <2>3. mul(a, mul(b, c)) = Z(a * (b * c))
    BY <2>1, ZSmall, ZMul
  <2>4. (a * b) * c = a * (b * c)
    BY <2>1
  <2> QED BY Zenon, <2>2, <2>3, <2>4
<1>3. ASSUME NEW a \in Zn PROVE mul(a, 1) = a /\ mul(1, a) = a
  BY Small DEF mul
<1>4. ASSUME NEW a \in Zn PROVE mul(a, 0) = 0 /\ mul(0, a) = 0
  BY Small, Constants DEF mul, Z
<1> QED BY Zenon, <1>1, <1>2, <1>3, <1>4

\* Multiplication distributes over addition.
LEMMA Distributive ==
    \A a, b, c \in Zn : /\ mul(a, add(b, c)) = add(mul(a, b), mul(a, c))
                        /\ mul(add(b, c), a) = add(mul(b, a), mul(c, a))
<1> SUFFICES ASSUME NEW a \in Zn, NEW b \in Zn, NEW c \in Zn
             PROVE  mul(a, add(b, c)) = add(mul(a, b), mul(a, c))
  BY Closed, MulLaws
<1>1. a \in Int /\ b \in Int /\ c \in Int /\ b + c \in Int /\ a * b \in Int /\ a * c \in Int
  BY Small
<1>2. mul(a, add(b, c)) = Z(a * (b + c))
  BY <1>1, ZSmall, ZAdd, ZMul
<1>3. add(mul(a, b), mul(a, c)) = Z((a * b) + (a * c))
  BY <1>1, ZSmall, ZAdd, ZMul
<1>4. a * (b + c) = (a * b) + (a * c)
  BY <1>1
<1> QED BY Zenon, <1>2, <1>3, <1>4

\* P is prime, so all but zero have an inverse: take the smallest t > 0 that is
\* a multiple of a; P modulo t is one too, so it is zero, and t is one.
LEMMA InverseExists == \A a \in Zn \ {0} : inv(a) \in Zn /\ mul(a, inv(a)) = 1
<1> SUFFICES ASSUME NEW a \in Zn \ {0} PROVE inv(a) \in Zn /\ mul(a, inv(a)) = 1
  BY Zenon
<1> DEFINE T == {t \in 1 .. P - 1 : \E u \in Zn : mul(a, u) = t}
<1>1. a \in T
  BY MulLaws, Constants DEF Zn
<1>2. PICK t \in T : \A k \in T : t <= k
  <2>1. T \in SUBSET Nat /\ T # {}
    BY <1>1
  <2> HIDE DEF T
  <2> QED BY Zenon, <2>1, Smallest
<1>3. PICK u \in Zn : mul(a, u) = t
  BY Zenon, <1>2
<1>4. t \in 1 .. P - 1 /\ t \in Zn /\ P \in Int
  BY <1>2, PAssumption DEF Zn
<1>5. PICK q \in Int, r \in 0 .. t - 1 : P = (t * q) + r /\ P % t = r
  <2>1. P \div t \in Int /\ P % t \in 0 .. t - 1 /\ P = (t * (P \div t)) + (P % t)
    BY <1>4, PAssumption
  <2> QED BY Zenon, <2>1
<1>6. mul(a, Z(u * (-q))) = r
  <2>1. a \in Int /\ u \in Int /\ -q \in Int /\ u * (-q) \in Int /\ a * u \in Int
    BY Small
  <2>2. mul(a, Z(u * (-q))) = Z(a * (u * (-q)))
    BY <2>1, ZSmall, ZMul
  <2>3. a * (u * (-q)) = (a * u) * (-q)
    BY <2>1
  <2>4. Z((a * u) * (-q)) = mul(Z(a * u), Z(-q))
    BY Zenon, <2>1, ZMul
  <2>5. Z(a * u) = Z(t)
    BY <2>1, <1>3, <1>4, ZSmall, ZMul
  <2>6. mul(Z(t), Z(-q)) = Z(t * (-q))
    BY <2>1, <1>4, ZMul
  <2>7. t * (-q) = r + (P * (-1)) /\ r \in Int /\ r \in Zn
    BY <1>4, <1>5 DEF Zn
  <2>8. Z(r + (P * (-1))) = r
    BY <2>7, Multiple, ZSmall DEF Z
  <2> QED BY Zenon, <2>2, <2>3, <2>4, <2>5, <2>6, <2>7, <2>8
<1>7. r = 0
  <2>1. Z(u * (-q)) \in Zn
    BY Small, ZType
  <2>2. r # 0 => r \in 1 .. P - 1
    BY <1>4, <1>5
  <2>3. r # 0 => r \in T
    BY Zenon, <1>6, <2>1, <2>2
  <2> HIDE DEF T
  <2> QED BY <2>3, <1>2, <1>4, <1>5
<1>8. t = 1
  BY <1>4, <1>5, <1>7, PAssumption
<1>9. \E b \in Zn : mul(a, b) = 1
  BY Zenon, <1>3, <1>8
<1> QED BY Zenon, <1>9 DEF inv

\* Cancellation.
LEMMA Cancel ==
    /\ \A a, b, c \in Zn : add(a, b) = add(a, c) => b = c
    /\ \A a \in Zn \ {0}, b, c \in Zn : mul(a, b) = mul(a, c) => b = c
    /\ \A a, b \in Zn : mul(a, b) = 0 => a = 0 \/ b = 0
<1>1. ASSUME NEW a \in Zn, NEW b \in Zn, NEW c \in Zn, add(a, b) = add(a, c) PROVE b = c
  <2>1. neg(a) \in Zn /\ add(neg(a), a) = 0
    BY Zenon, Closed, AddLaws
  <2>2. add(neg(a), add(a, b)) = b /\ add(neg(a), add(a, c)) = c
    BY <2>1, AddLaws
  <2> QED BY Zenon, <1>1, <2>2
<1>2. ASSUME NEW a \in Zn \ {0}, NEW b \in Zn, NEW c \in Zn, mul(a, b) = mul(a, c) PROVE b = c
  <2>1. inv(a) \in Zn /\ mul(inv(a), a) = 1
    BY Zenon, InverseExists, MulLaws
  <2>2. mul(inv(a), mul(a, b)) = b /\ mul(inv(a), mul(a, c)) = c
    BY <2>1, MulLaws
  <2> QED BY Zenon, <1>2, <2>2
<1>3. ASSUME NEW a \in Zn, NEW b \in Zn, mul(a, b) = 0, a # 0 PROVE b = 0
  BY <1>2, <1>3, MulLaws, Constants
<1> QED BY Zenon, <1>1, <1>2, <1>3

\* A product of elements other than zero is not zero.
LEMMA MulNonzero == \A a, b \in Zn \ {0} : mul(a, b) \in Zn \ {0}
  BY Zenon, Cancel, Closed

\* neg and the other operations.
LEMMA NegLaws ==
    /\ \A a, b \in Zn : add(a, neg(b)) = 0 => a = b
    /\ \A a, b \in Zn : mul(a, neg(b)) = neg(mul(a, b)) /\ mul(neg(a), b) = neg(mul(a, b))
    /\ \A a, b \in Zn : neg(add(a, b)) = add(neg(a), neg(b))
    /\ \A a \in Zn : neg(neg(a)) = a
    /\ neg(0) = 0
<1>1. ASSUME NEW a \in Zn, NEW b \in Zn PROVE add(a, neg(b)) = 0 => a = b
  <2>1. neg(b) \in Zn /\ add(neg(b), a) = add(a, neg(b)) /\ add(neg(b), b) = 0
    BY Zenon, Closed, AddLaws
  <2> QED BY Zenon, <2>1, Cancel
<1>2. ASSUME NEW a \in Zn, NEW b \in Zn PROVE mul(a, neg(b)) = neg(mul(a, b)) /\ mul(neg(a), b) = neg(mul(a, b))
  <2>1. a \in Int /\ b \in Int /\ -a \in Int /\ -b \in Int /\ a * b \in Int
    BY Small
  <2>2. mul(a, neg(b)) = Z(a * (-b)) /\ mul(neg(a), b) = Z((-a) * b) /\ neg(mul(a, b)) = Z(-(a * b))
    BY <2>1, ZSmall, ZMul, ZNeg
  <2>3. a * (-b) = -(a * b) /\ (-a) * b = -(a * b)
    BY <2>1
  <2> QED BY Zenon, <2>2, <2>3
<1>3. ASSUME NEW a \in Zn, NEW b \in Zn PROVE neg(add(a, b)) = add(neg(a), neg(b))
  <2>1. a \in Int /\ b \in Int /\ -a \in Int /\ -b \in Int /\ a + b \in Int
    BY Small
  <2>2. neg(add(a, b)) = Z(-(a + b)) /\ add(neg(a), neg(b)) = Z((-a) + (-b))
    BY <2>1, ZSmall, ZAdd, ZNeg
  <2>3. -(a + b) = (-a) + (-b)
    BY <2>1
  <2> QED BY Zenon, <2>2, <2>3
<1>4. ASSUME NEW a \in Zn PROVE neg(neg(a)) = a
  <2>1. a \in Int /\ -a \in Int /\ -(-a) = a
    BY Small
  <2> QED BY Zenon, <2>1, ZSmall, ZNeg
<1>5. neg(0) = 0
  BY Constants DEF neg, Z
<1> QED BY Zenon, <1>1, <1>2, <1>3, <1>4, <1>5

-----------------------------------------------------------------------------
(* Folds.  MapThenFoldSet takes its elements in the order of a choice c.   *)

Chooses(c, S) == \A s \in SUBSET S : s # {} => c[s] \in s
IsFold(h, base, G, c, S) == \A s \in SUBSET S : h[s] = IF s = {} THEN base ELSE G[<<c[s], h[s \ {c[s]}]>>]

\* The recursive function of a fold over a finite set exists.
LEMMA FoldDefined ==
    ASSUME NEW S, IsFiniteSet(S), NEW V, NEW base \in V, NEW G \in [S \X V -> V], NEW c, Chooses(c, S)
    PROVE  \E h \in [SUBSET S -> V] : IsFold(h, base, G, c, S)
<1> DEFINE Sub(n) == {s \in SUBSET S : Cardinality(s) <= n}
           Good(n, h) == \A s \in Sub(n) : h[s] = IF s = {} THEN base ELSE G[<<c[s], h[s \ {c[s]}]>>]
           T == {n \in Nat : \E h \in [Sub(n) -> V] : Good(n, h)}
<1> USE DEF Chooses
<1>1. \A s \in SUBSET S : IsFiniteSet(s) /\ Cardinality(s) \in Nat
  BY Zenon, FS_Subset, FS_CardinalityType
<1>2. 0 \in T
  <2>1. \A s \in Sub(0) : s = {}
    BY <1>1, FS_EmptySet
  <2>2. Good(0, [s \in Sub(0) |-> base])
    BY Zenon, <2>1
  <2>3. [s \in Sub(0) |-> base] \in [Sub(0) -> V]
    BY Zenon
  <2> QED BY Zenon, <2>2, <2>3
<1>3. ASSUME NEW n \in Nat, n \in T PROVE n + 1 \in T
  <2>1. PICK h \in [Sub(n) -> V] : Good(n, h)
    BY Zenon, <1>3
  <2> DEFINE k == [s \in Sub(n + 1) |-> IF s \in Sub(n) THEN h[s] ELSE G[<<c[s], h[s \ {c[s]}]>>]]
  <2>2. \A s \in Sub(n + 1) : s # {} => s \ {c[s]} \in Sub(n)
    <3> TAKE s \in Sub(n + 1)
    <3>1. s # {} => Cardinality(s \ {c[s]}) = Cardinality(s) - 1
      BY Zenon, <1>1, FS_RemoveElement
    <3> QED BY <3>1, <1>1
  <2>3. Sub(n) \subseteq Sub(n + 1)
    BY <1>1
  <2>4. {} \in Sub(n)
    BY FS_EmptySet
  <2>5. k \in [Sub(n + 1) -> V]
    <3> SUFFICES ASSUME NEW s \in Sub(n + 1), s \notin Sub(n) PROVE G[<<c[s], h[s \ {c[s]}]>>] \in V
      BY Zenon
    <3>1. s # {} /\ c[s] \in S /\ h[s \ {c[s]}] \in V
      BY Zenon, <2>2, <2>4
    <3> QED BY Zenon, <3>1
  <2>6. Good(n + 1, k)
    <3> SUFFICES ASSUME NEW s \in Sub(n + 1)
                 PROVE  k[s] = IF s = {} THEN base ELSE G[<<c[s], k[s \ {c[s]}]>>]
      BY Zenon
    <3>1. s # {} => k[s \ {c[s]}] = h[s \ {c[s]}]
      BY Zenon, <2>2, <2>3
    <3>2. CASE s \in Sub(n)
      BY <3>1, <3>2, <2>1
    <3>3. CASE s \notin Sub(n)
      BY Zenon, <3>1, <3>3, <2>4
    <3> QED BY Zenon, <3>2, <3>3
  <2>7. \E f \in [Sub(n + 1) -> V] : Good(n + 1, f)
    <3> HIDE DEF k
    <3> QED BY Zenon, <2>5, <2>6
  <2> HIDE DEF Sub, Good
  <2> QED BY <2>7
<1>4. Cardinality(S) \in T
  BY Zenon, <1>1, <1>2, <1>3, Induction
<1>5. Sub(Cardinality(S)) = SUBSET S
  BY Zenon, FS_Subset
<1> QED BY Zenon, <1>4, <1>5 DEF IsFold

\* A binary operation, as a function of functions, and its fold over the subsets of D.
LeftCommutative(M) == \A u, v, w \in Zn : M[u][M[v][w]] = M[v][M[u][w]]
FoldsSome(h, M, f, D) == \A s \in SUBSET D : s # {} => \E y \in s : h[s] = M[f[y]][h[s \ {y}]]
FoldsAny(h, M, f, D) == \A s \in SUBSET D : \A y \in s : h[s] = M[f[y]][h[s \ {y}]]

\* The order in which elements are taken does not matter.
LEMMA Rearranged ==
    ASSUME NEW D, IsFiniteSet(D), NEW f \in [D -> Zn], NEW h \in [SUBSET D -> Zn], NEW M,
           LeftCommutative(M), FoldsSome(h, M, f, D)
    PROVE  FoldsAny(h, M, f, D)
<1> DEFINE T == {s \in SUBSET D : \A a \in s : h[s] = M[f[a]][h[s \ {a}]]}
<1>1. ASSUME NEW s \in SUBSET D, \A a \in s : s \ {a} \in T, NEW a \in s
      PROVE  h[s] = M[f[a]][h[s \ {a}]]
  <2>1. PICK y \in s : h[s] = M[f[y]][h[s \ {y}]]
    BY Zenon DEF FoldsSome
  <2>2. CASE y = a
    BY Zenon, <2>1, <2>2
  <2>3. CASE y # a
    <3>1. h[s \ {y}] = M[f[a]][h[(s \ {y}) \ {a}]]
      BY Zenon, <1>1, <2>3
    <3>2. h[s \ {a}] = M[f[y]][h[(s \ {a}) \ {y}]]
      BY Zenon, <1>1, <2>3
    <3>3. (s \ {y}) \ {a} = (s \ {a}) \ {y}
      BY Zenon
    <3>4. PICK r \in Zn : r = h[(s \ {a}) \ {y}]
      BY Zenon
    <3>5. M[f[y]][M[f[a]][r]] = M[f[a]][M[f[y]][r]]
      BY DEF LeftCommutative
    <3> QED BY Zenon, <2>1, <3>1, <3>2, <3>3, <3>4, <3>5
  <2> QED BY Zenon, <2>2, <2>3
<1>2. Inductive(T, D)
  BY Zenon, <1>1 DEF Inductive
<1>3. \A s \in SUBSET D : s \in T
  <2> HIDE DEF T
  <2> QED BY Zenon, <1>2, SetInduction
<1> QED BY Zenon, <1>3 DEF FoldsAny

\* FoldFunction takes the elements of a set s in the order of pick.
pick(s) == CHOOSE y \in s : TRUE

FoldsPicked(h, e, M, f, D) == \A s \in SUBSET D : h[s] = IF s = {} THEN e ELSE M[f[pick(s)]][h[s \ {pick(s)}]]

\* The fold of f over the subsets of its domain.
LEMMA FoldValue ==
    ASSUME NEW D, IsFiniteSet(D), NEW f \in [D -> Zn], NEW e \in Zn,
           NEW M \in [Zn -> [Zn -> Zn]], LeftCommutative(M)
    PROVE  \E h \in [SUBSET D -> Zn] : FoldsAny(h, M, f, D) /\ FoldsPicked(h, e, M, f, D)
<1> DEFINE c == [s \in SUBSET D |-> pick(s)]
           G == [p \in D \X Zn |-> M[f[p[1]]][p[2]]]
<1>1. \A s \in SUBSET D : s # {} => pick(s) \in s
  BY Zenon DEF pick
<1>2. G \in [D \X Zn -> Zn]
  OBVIOUS
<1>3. Chooses(c, D)
  BY Zenon, <1>1 DEF Chooses
<1>4. PICK h \in [SUBSET D -> Zn] : IsFold(h, e, G, c, D)
  <2> HIDE DEF G, c
  <2> QED BY Zenon, <1>2, <1>3, FoldDefined
<1>5. \A s \in SUBSET D : s # {} => G[<<c[s], h[s \ {c[s]}]>>] = M[f[pick(s)]][h[s \ {pick(s)}]]
  BY Zenon, <1>1
<1>6. FoldsPicked(h, e, M, f, D)
  BY Zenon, <1>4, <1>5 DEF IsFold, FoldsPicked
<1>7. FoldsSome(h, M, f, D)
  BY Zenon, <1>1, <1>6 DEF FoldsSome, FoldsPicked
<1>8. FoldsAny(h, M, f, D)
  BY Zenon, <1>7, Rearranged
<1> QED BY Zenon, <1>6, <1>8

\* Two functions that agree on a set if they agree on what is left of it.
LEMMA SameFold ==
    ASSUME NEW D, IsFiniteSet(D), NEW h, NEW k,
           \A s \in SUBSET D : (s = {} \/ h[s \ {pick(s)}] = k[s \ {pick(s)}]) => h[s] = k[s]
    PROVE  h[D] = k[D]
<1> DEFINE T == {s \in SUBSET D : h[s] = k[s]}
<1>1. Inductive(T, D)
  BY Zenon DEF Inductive, pick
<1>2. \A s \in SUBSET D : s \in T
  <2> HIDE DEF T
  <2> QED BY Zenon, <1>1, SetInduction
<1> QED BY Zenon, <1>2

\* The sums and the products over the subsets of D.
AddFn == [a \in Zn |-> [b \in Zn |-> add(a, b)]]
MulFn == [a \in Zn |-> [b \in Zn |-> mul(a, b)]]
IsSum(h, f, D) == h \in [SUBSET D -> Zn] /\ h[{}] = 0 /\ FoldsAny(h, AddFn, f, D)
IsProduct(h, f, D) == h \in [SUBSET D -> Zn] /\ h[{}] = 1 /\ FoldsAny(h, MulFn, f, D)

\* Total adds, in any order.
LEMMA TotalIsSum == ASSUME NEW D, IsFiniteSet(D), NEW f \in [D -> Zn] PROVE \E h : IsSum(h, f, D) /\ h[D] = Total(f)
<1> DEFINE Rec(h) == h = [s \in SUBSET D |-> IF s = {} THEN 0 ELSE add(f[pick(s)], h[s \ {pick(s)}])]
           it == CHOOSE h : Rec(h)
<1>1. AddFn \in [Zn -> [Zn -> Zn]]
  BY Zenon, Closed DEF AddFn
<1>2. LeftCommutative(AddFn)
  <2> SUFFICES ASSUME NEW u \in Zn, NEW v \in Zn, NEW w \in Zn PROVE AddFn[u][AddFn[v][w]] = AddFn[v][AddFn[u][w]]
    BY Zenon DEF LeftCommutative
  <2>1. AddFn[u][AddFn[v][w]] = add(u, add(v, w)) /\ AddFn[v][AddFn[u][w]] = add(v, add(u, w))
    BY Zenon, Closed DEF AddFn
  <2>2. add(u, add(v, w)) = add(add(u, v), w) /\ add(v, add(u, w)) = add(add(v, u), w) /\ add(u, v) = add(v, u)
    BY AddLaws
  <2> QED BY Zenon, <2>1, <2>2
<1>3. PICK h \in [SUBSET D -> Zn] : FoldsAny(h, AddFn, f, D) /\ FoldsPicked(h, 0, AddFn, f, D)
  BY Zenon, <1>1, <1>2, FoldValue, Constants
<1>4. Rec(h)
  <2>1. \A s \in SUBSET D : s # {} => AddFn[f[pick(s)]][h[s \ {pick(s)}]] = add(f[pick(s)], h[s \ {pick(s)}])
    BY Zenon DEF AddFn, pick
  <2> QED BY Zenon, <1>3, <2>1 DEF FoldsPicked
<1>5. Rec(it)
  <2> HIDE DEF Rec
  <2> QED BY Zenon, <1>4
<1>6. Total(f) = it[D]
  BY Zenon DEF Total, FoldFunction, FoldFunctionOnSet, MapThenFoldSet, pick
<1>7. it[D] = h[D]
  <2> HIDE DEF it
  <2>1. \A s \in SUBSET D : (s = {} \/ it[s \ {pick(s)}] = h[s \ {pick(s)}]) => it[s] = h[s]
    BY Zenon, <1>4, <1>5
  <2> QED BY Zenon, <2>1, SameFold
<1>8. h[{}] = 0
  BY Zenon, <1>4
<1> QED BY Zenon, <1>3, <1>6, <1>7, <1>8 DEF IsSum

\* Product multiplies, in any order.
LEMMA ProductIsProduct ==
    ASSUME NEW D, IsFiniteSet(D), NEW f \in [D -> Zn]
    PROVE  \E h : IsProduct(h, f, D) /\ h[D] = Product(f)
<1> DEFINE Rec(h) == h = [s \in SUBSET D |-> IF s = {} THEN 1 ELSE mul(f[pick(s)], h[s \ {pick(s)}])]
           it == CHOOSE h : Rec(h)
<1>1. MulFn \in [Zn -> [Zn -> Zn]]
  BY Zenon, Closed DEF MulFn
<1>2. LeftCommutative(MulFn)
  <2> SUFFICES ASSUME NEW u \in Zn, NEW v \in Zn, NEW w \in Zn PROVE MulFn[u][MulFn[v][w]] = MulFn[v][MulFn[u][w]]
    BY Zenon DEF LeftCommutative
  <2>1. MulFn[u][MulFn[v][w]] = mul(u, mul(v, w)) /\ MulFn[v][MulFn[u][w]] = mul(v, mul(u, w))
    BY Zenon, Closed DEF MulFn
  <2>2. mul(u, mul(v, w)) = mul(mul(u, v), w) /\ mul(v, mul(u, w)) = mul(mul(v, u), w) /\ mul(u, v) = mul(v, u)
    BY MulLaws
  <2> QED BY Zenon, <2>1, <2>2
<1>3. PICK h \in [SUBSET D -> Zn] : FoldsAny(h, MulFn, f, D) /\ FoldsPicked(h, 1, MulFn, f, D)
  BY Zenon, <1>1, <1>2, FoldValue, Constants
<1>4. Rec(h)
  <2>1. \A s \in SUBSET D : s # {} => MulFn[f[pick(s)]][h[s \ {pick(s)}]] = mul(f[pick(s)], h[s \ {pick(s)}])
    BY Zenon DEF MulFn, pick
  <2> QED BY Zenon, <1>3, <2>1 DEF FoldsPicked
<1>5. Rec(it)
  <2> HIDE DEF Rec
  <2> QED BY Zenon, <1>4
<1>6. Product(f) = it[D]
  BY Zenon DEF Product, FoldFunction, FoldFunctionOnSet, MapThenFoldSet, pick
<1>7. it[D] = h[D]
  <2> HIDE DEF it
  <2>1. \A s \in SUBSET D : (s = {} \/ it[s \ {pick(s)}] = h[s \ {pick(s)}]) => it[s] = h[s]
    BY Zenon, <1>4, <1>5
  <2> QED BY Zenon, <2>1, SameFold
<1>8. h[{}] = 1
  BY Zenon, <1>4
<1> QED BY Zenon, <1>3, <1>6, <1>7, <1>8 DEF IsProduct

\* What Total and Product are: any element may be taken out of them.
Without(f, a) == [d \in DOMAIN f \ {a} |-> f[d]]

\* Any summand can be taken out of a total, ...
LEMMA TotalStep ==
    ASSUME NEW D, IsFiniteSet(D), NEW f \in [D -> Zn]
    PROVE  /\ Total(f) \in Zn
           /\ D = {} => Total(f) = 0
           /\ \A a \in D : Total(f) = add(f[a], Total(Without(f, a))) /\ Total(Without(f, a)) \in Zn
<1>1. PICK h : IsSum(h, f, D) /\ h[D] = Total(f)
  BY Zenon, TotalIsSum
<1>2. ASSUME NEW a \in D PROVE Total(f) = add(f[a], Total(Without(f, a))) /\ Total(Without(f, a)) \in Zn
  <2> DEFINE E == D \ {a}
             w == Without(f, a)
  <2>1. IsFiniteSet(E) /\ w \in [E -> Zn] /\ \A d \in E : w[d] = f[d]
    BY Zenon, FS_RemoveElement DEF Without
  <2> HIDE DEF w
  <2>2. PICK k : IsSum(k, w, E) /\ k[E] = Total(w)
    BY Zenon, <2>1, TotalIsSum
  <2>3. \A s \in SUBSET E : (s = {} \/ k[s \ {pick(s)}] = h[s \ {pick(s)}]) => k[s] = h[s]
    <3> SUFFICES ASSUME NEW s \in SUBSET E, s # {}, k[s \ {pick(s)}] = h[s \ {pick(s)}] PROVE k[s] = h[s]
      BY Zenon, <1>1, <2>2 DEF IsSum
    <3>1. pick(s) \in s
      BY Zenon DEF pick
    <3>2. k[s] = AddFn[w[pick(s)]][k[s \ {pick(s)}]]
      BY Zenon, <3>1, <2>2 DEF IsSum, FoldsAny
    <3>3. h[s] = AddFn[f[pick(s)]][h[s \ {pick(s)}]]
      BY Zenon, <3>1, <1>1 DEF IsSum, FoldsAny
    <3> QED BY Zenon, <3>1, <3>2, <3>3, <2>1
  <2>4. k[E] = h[E]
    BY Zenon, <2>1, <2>3, SameFold
  <2>5. h[D] = AddFn[f[a]][h[E]] /\ h[E] \in Zn
    BY Zenon, <1>1 DEF IsSum, FoldsAny
  <2>6. AddFn[f[a]][h[E]] = add(f[a], h[E])
    BY Zenon, <2>5 DEF AddFn
  <2> QED BY Zenon, <1>1, <2>2, <2>4, <2>5, <2>6 DEF w
<1> QED BY Zenon, <1>1, <1>2 DEF IsSum

\* ... and any factor out of a product.
LEMMA ProductStep ==
    ASSUME NEW D, IsFiniteSet(D), NEW f \in [D -> Zn]
    PROVE  /\ Product(f) \in Zn
           /\ D = {} => Product(f) = 1
           /\ \A a \in D : Product(f) = mul(f[a], Product(Without(f, a))) /\ Product(Without(f, a)) \in Zn
<1>1. PICK h : IsProduct(h, f, D) /\ h[D] = Product(f)
  BY Zenon, ProductIsProduct
<1>2. ASSUME NEW a \in D PROVE Product(f) = mul(f[a], Product(Without(f, a))) /\ Product(Without(f, a)) \in Zn
  <2> DEFINE E == D \ {a}
             w == Without(f, a)
  <2>1. IsFiniteSet(E) /\ w \in [E -> Zn] /\ \A d \in E : w[d] = f[d]
    BY Zenon, FS_RemoveElement DEF Without
  <2> HIDE DEF w
  <2>2. PICK k : IsProduct(k, w, E) /\ k[E] = Product(w)
    BY Zenon, <2>1, ProductIsProduct
  <2>3. \A s \in SUBSET E : (s = {} \/ k[s \ {pick(s)}] = h[s \ {pick(s)}]) => k[s] = h[s]
    <3> SUFFICES ASSUME NEW s \in SUBSET E, s # {}, k[s \ {pick(s)}] = h[s \ {pick(s)}] PROVE k[s] = h[s]
      BY Zenon, <1>1, <2>2 DEF IsProduct
    <3>1. pick(s) \in s
      BY Zenon DEF pick
    <3>2. k[s] = MulFn[w[pick(s)]][k[s \ {pick(s)}]]
      BY Zenon, <3>1, <2>2 DEF IsProduct, FoldsAny
    <3>3. h[s] = MulFn[f[pick(s)]][h[s \ {pick(s)}]]
      BY Zenon, <3>1, <1>1 DEF IsProduct, FoldsAny
    <3> QED BY Zenon, <3>1, <3>2, <3>3, <2>1
  <2>4. k[E] = h[E]
    BY Zenon, <2>1, <2>3, SameFold
  <2>5. h[D] = MulFn[f[a]][h[E]] /\ h[E] \in Zn
    BY Zenon, <1>1 DEF IsProduct, FoldsAny
  <2>6. MulFn[f[a]][h[E]] = mul(f[a], h[E])
    BY Zenon, <2>5 DEF MulFn
  <2> QED BY Zenon, <1>1, <2>2, <2>4, <2>5, <2>6 DEF w
<1> QED BY SMTT(30), <1>1, <1>2 DEF IsProduct

\* A product without the factor zero is not zero.
LEMMA ProductNonzero ==
    ASSUME NEW D, IsFiniteSet(D), NEW f \in [D -> Zn \ {0}] PROVE Product(f) \in Zn \ {0}
<1>1. f \in [D -> Zn]
  BY Zenon
<1>2. PICK h : IsProduct(h, f, D) /\ h[D] = Product(f)
  BY Zenon, <1>1, ProductIsProduct
<1> DEFINE T == {s \in SUBSET D : h[s] \in Zn \ {0}}
<1>3. Inductive(T, D)
  <2> SUFFICES ASSUME NEW s \in SUBSET D, \A a \in s : s \ {a} \in T PROVE h[s] \in Zn \ {0}
    BY Zenon DEF Inductive
  <2>1. CASE s = {}
    BY Zenon, <2>1, <1>2, Constants DEF IsProduct
  <2>2. ASSUME NEW a \in s PROVE h[s] \in Zn \ {0}
    <3>1. h[s \ {a}] \in Zn \ {0} /\ f[a] \in Zn \ {0}
      BY Zenon
    <3>2. h[s] = mul(f[a], h[s \ {a}])
      BY Zenon, <1>2, <3>1 DEF IsProduct, FoldsAny, MulFn
    <3> QED BY Zenon, <3>1, <3>2, MulNonzero
  <2> QED BY Zenon, <2>1, <2>2
<1>4. \A s \in SUBSET D : s \in T
  <2> HIDE DEF T
  <2> QED BY Zenon, <1>3, SetInduction
<1> QED BY Zenon, <1>2, <1>4

\* Sums are linear.
LEMMA LinearStep ==
    \A b, c, B, C, z \in Zn : add(add(b, mul(z, c)), add(B, mul(z, C))) = add(add(b, B), mul(z, add(c, C)))
<1> SUFFICES ASSUME NEW b \in Zn, NEW c \in Zn, NEW B \in Zn, NEW C \in Zn, NEW z \in Zn
             PROVE  add(add(b, mul(z, c)), add(B, mul(z, C))) = add(add(b, B), mul(z, add(c, C)))
  BY Zenon
<1>1. b \in Int /\ c \in Int /\ B \in Int /\ C \in Int /\ z \in Int
  BY Zenon, Small
<1>2. z * c \in Int /\ z * C \in Int /\ c + C \in Int /\ b + B \in Int
  BY <1>1
<1>3. b + (z * c) \in Int /\ B + (z * C) \in Int /\ z * (c + C) \in Int
  BY <1>1, <1>2
<1>4. mul(z, c) = Z(z * c) /\ mul(z, C) = Z(z * C)
  BY Zenon, <1>1, ZSmall, ZMul
<1>5. add(b, mul(z, c)) = Z(b + (z * c)) /\ add(B, mul(z, C)) = Z(B + (z * C))
  BY <1>4, <1>1, <1>2, ZSmall, ZAdd
<1>6. add(b, B) = Z(b + B) /\ mul(z, add(c, C)) = Z(z * (c + C))
  BY <1>1, <1>2, ZSmall, ZAdd, ZMul
<1>7. (b + (z * c)) + (B + (z * C)) = (b + B) + (z * (c + C))
  BY <1>1
<1> QED BY <1>2, <1>3, <1>5, <1>6, <1>7, ZAdd

\* Total is linear.
LEMMA TotalLinear ==
    ASSUME NEW D, IsFiniteSet(D), NEW u \in [D -> Zn], NEW v \in [D -> Zn], NEW z \in Zn
    PROVE  Total([d \in D |-> add(u[d], mul(z, v[d]))]) = add(Total(u), mul(z, Total(v)))
<1>1. \A b, c, B, C \in Zn : add(add(b, mul(z, c)), add(B, mul(z, C))) = add(add(b, B), mul(z, add(c, C)))
  BY LinearStep
<1> DEFINE w == [d \in D |-> add(u[d], mul(z, v[d]))]
<1>2. w \in [D -> Zn] /\ \A d \in D : w[d] = add(u[d], mul(z, v[d]))
  BY Zenon, Closed
<1> HIDE DEF w
<1>3. PICK hu : IsSum(hu, u, D) /\ hu[D] = Total(u)
  BY Zenon, TotalIsSum
<1>4. PICK hv : IsSum(hv, v, D) /\ hv[D] = Total(v)
  BY Zenon, TotalIsSum
<1>5. PICK hw : IsSum(hw, w, D) /\ hw[D] = Total(w)
  BY Zenon, <1>2, TotalIsSum
<1> DEFINE T == {s \in SUBSET D : hw[s] = add(hu[s], mul(z, hv[s]))}
<1>6. Inductive(T, D)
  <2> SUFFICES ASSUME NEW s \in SUBSET D, \A a \in s : s \ {a} \in T PROVE hw[s] = add(hu[s], mul(z, hv[s]))
    BY Zenon DEF Inductive
  <2>1. CASE s = {}
    BY <2>1, <1>3, <1>4, <1>5, Constants, AddLaws, MulLaws DEF IsSum
  <2>2. ASSUME NEW a \in s PROVE hw[s] = add(hu[s], mul(z, hv[s]))
    <3>1. PICK b \in Zn, c \in Zn, B \in Zn, C \in Zn, W \in Zn :
               b = u[a] /\ c = v[a] /\ B = hu[s \ {a}] /\ C = hv[s \ {a}] /\ W = hw[s \ {a}]
      BY Zenon, <1>3, <1>4, <1>5 DEF IsSum
    <3>2. hu[s] = add(b, B)
      BY Zenon, <1>3, <3>1 DEF IsSum, FoldsAny, AddFn
    <3>3. hv[s] = add(c, C)
      BY Zenon, <1>4, <3>1 DEF IsSum, FoldsAny, AddFn
    <3>4. hw[s] = add(w[a], W) /\ w[a] = add(b, mul(z, c))
      BY Zenon, <1>2, <1>5, <3>1 DEF IsSum, FoldsAny, AddFn
    <3>5. W = add(B, mul(z, C))
      BY Zenon, <3>1
    <3>6. add(add(b, mul(z, c)), add(B, mul(z, C))) = add(add(b, B), mul(z, add(c, C)))
      BY <1>1
    <3> QED BY Zenon, <3>2, <3>3, <3>4, <3>5, <3>6
  <2> QED BY Zenon, <2>1, <2>2
<1>7. \A s \in SUBSET D : s \in T
  <2> HIDE DEF T
  <2> QED BY Zenon, <1>6, SetInduction
<1> QED BY Zenon, <1>3, <1>4, <1>5, <1>7 DEF w

\* The folds over a sequence take its indices from the last one on.
LEMMA MaxIn == \A n \in Nat : \A s \in SUBSET (1 .. n) : s # {} => Max(s) \in s /\ \A y \in s : Max(s) >= y
<1> SUFFICES ASSUME NEW n \in Nat, NEW s \in SUBSET (1 .. n), s # {} PROVE \E x \in s : \A y \in s : x >= y
  BY Zenon DEF Max
<1> DEFINE R == {n - x : x \in s}
<1>1. R \in SUBSET Nat /\ R # {}
  <2>1. \A x \in s : n - x \in Nat
    OBVIOUS
  <2> QED BY Zenon, <2>1
<1>2. PICK m \in R : \A k \in R : m <= k
  <2> HIDE DEF R
  <2> QED BY Zenon, <1>1, Smallest
<1>3. PICK x \in s : m = n - x
  BY Zenon, <1>2
<1>4. \A y \in s : n - x <= n - y
  BY Zenon, <1>2, <1>3
<1>5. \A y \in s : x >= y
  BY <1>4
<1> QED BY Zenon, <1>5

\* The last index of the first k, and the ones before it.
LEMMA Prefix ==
    ASSUME NEW n \in Nat, NEW k \in 1 .. n
    PROVE  /\ 1 .. k \in SUBSET (1 .. n) /\ 1 .. k # {}
           /\ Max(1 .. k) = k /\ (1 .. k) \ {k} = 1 .. (k - 1)
<1>1. 1 .. k \in SUBSET (1 .. n) /\ k \in 1 .. k /\ (1 .. k) \ {k} = 1 .. (k - 1)
  OBVIOUS
<1>2. Max(1 .. k) \in 1 .. k /\ Max(1 .. k) >= k
  BY Zenon, <1>1, MaxIn
<1> QED BY <1>1, <1>2
IsSeqFold(t, base, step, n) ==
    \A s \in SUBSET (1 .. n) : t[s] = IF s = {} THEN base ELSE step[Max(s)][t[s \ {Max(s)}]]

\* A fold over a sequence is well defined.
LEMMA SeqFold ==
    ASSUME NEW n \in Nat, NEW V, NEW base \in V, NEW step \in [1 .. n -> [V -> V]]
    PROVE  \E t \in [SUBSET (1 .. n) -> V] : IsSeqFold(t, base, step, n)
<1> DEFINE D == 1 .. n
           c == [s \in SUBSET D |-> Max(s)]
           G == [p \in D \X V |-> step[p[1]][p[2]]]
<1>1. IsFiniteSet(D)
  BY FS_Interval
<1>2. G \in [D \X V -> V]
  OBVIOUS
<1>3. \A s \in SUBSET D : s # {} => Max(s) \in s
  BY Zenon, MaxIn
<1> HIDE DEF D
<1>4. Chooses(c, D)
  BY Zenon, <1>3 DEF Chooses
<1>5. PICK t \in [SUBSET D -> V] : IsFold(t, base, G, c, D)
  <2> HIDE DEF G, c
  <2> QED BY Zenon, <1>1, <1>2, <1>4, FoldDefined
<1>6. \A s \in SUBSET D : s # {} => G[<<c[s], t[s \ {c[s]}]>>] = step[Max(s)][t[s \ {Max(s)}]]
  BY Zenon, <1>3
<1>7. \A s \in SUBSET D : t[s] = IF s = {} THEN base ELSE step[Max(s)][t[s \ {Max(s)}]]
  BY Zenon, <1>5, <1>6 DEF IsFold
<1> QED BY Zenon, <1>5, <1>7 DEF D, IsSeqFold

-----------------------------------------------------------------------------
(* Polynomials.                                                            *)

\* The values of the variables result and xPower of evaluatePolynomial.
Loop(result, xPower, c, x, n) ==
    /\ result \in [0 .. n -> Zn] /\ result[0] = 0
    /\ xPower \in [0 .. n -> Zn] /\ xPower[0] = 1
    /\ \A k \in 1 .. n : /\ result[k] = add(result[k - 1], mul(c[k], xPower[k - 1]))
                         /\ xPower[k] = mul(xPower[k - 1], x)

\* evaluatePolynomial runs the loop.
LEMMA EvaluateLoop ==
    ASSUME NEW n \in Nat, NEW c \in [1 .. n -> Zn], NEW x \in Zn
    PROVE  \E result, xPower : Loop(result, xPower, c, x, n) /\ evaluatePolynomial(c, x) = result[n]
<1> DEFINE D == 1 .. n
           V == [result : Zn, xPower : Zn]
           base == [result |-> 0, xPower |-> 1]
           Step(acc, y) == [result |-> add(acc.result, mul(y, acc.xPower)), xPower |-> mul(acc.xPower, x)]
           step == [k \in D |-> [acc \in V |-> Step(acc, c[k])]]
           Rec(t) == t = [s \in SUBSET D |-> IF s = {} THEN base ELSE Step(t[s \ {Max(s)}], c[Max(s)])]
           it == CHOOSE t : Rec(t)
<1>1. base \in V /\ \A acc \in V, y \in Zn : Step(acc, y) \in V
  BY Zenon, Constants, Closed
<1>2. \E t : Rec(t)
  <2>1. step \in [1 .. n -> [V -> V]]
    BY Zenon, <1>1
  <2>2. PICK t \in [SUBSET (1 .. n) -> V] : IsSeqFold(t, base, step, n)
    <3>1. base \in V
      BY Zenon, <1>1
    <3> HIDE DEF step, V, base
    <3> QED BY Zenon, <3>1, <2>1, SeqFold
  <2>3. \A s \in SUBSET D : s # {} => step[Max(s)][t[s \ {Max(s)}]] = Step(t[s \ {Max(s)}], c[Max(s)])
    BY Zenon, MaxIn
  <2>4. Rec(t)
    BY Zenon, <2>2, <2>3 DEF IsSeqFold
  <2> QED BY Zenon, <2>4
<1>3. Rec(it)
  <2> HIDE DEF Rec
  <2> QED BY Zenon, <1>2
<1>4. evaluatePolynomial(c, x) = it[D].result
  BY Zenon DEF evaluatePolynomial, MapThenFoldSet
<1> HIDE DEF it
<1>5. it[{}] = base
  BY Zenon, <1>3
<1>6. ASSUME NEW k \in 1 .. n PROVE it[1 .. k] = Step(it[1 .. (k - 1)], c[k])
  <2>1. /\ 1 .. k \in SUBSET D /\ 1 .. k # {}
        /\ Max(1 .. k) = k /\ (1 .. k) \ {k} = 1 .. (k - 1)
    BY Zenon, Prefix
  <2>2. it[1 .. k] = Step(it[(1 .. k) \ {Max(1 .. k)}], c[Max(1 .. k)])
    <3> HIDE DEF D, Step
    <3> QED BY Zenon, <1>3, <2>1
  <2> HIDE DEF Step
  <2> QED BY Zenon, <2>1, <2>2
<1> DEFINE t == [k \in 0 .. n |-> it[1 .. k]]
           N == {k \in Nat : k <= n => it[1 .. k] \in V}
<1>7. t[0] = base
  BY <1>5
<1>8. \A k \in 1 .. n : t[k] = Step(t[k - 1], c[k])
  BY <1>6
<1>9. \A k \in 0 .. n : it[1 .. k] \in V
  <2>1. 0 \in N
    BY <1>5, <1>1
  <2>2. ASSUME NEW k \in Nat, k \in N PROVE k + 1 \in N
    <3> SUFFICES ASSUME k + 1 <= n PROVE it[1 .. (k + 1)] \in V
      OBVIOUS
    <3>1. k + 1 \in 1 .. n /\ (k + 1) - 1 = k
      OBVIOUS
    <3>2. it[1 .. (k + 1)] = Step(it[1 .. k], c[k + 1])
      BY Zenon, <3>1, <1>6
    <3>3. it[1 .. k] \in V /\ c[k + 1] \in Zn
      BY <2>2, <3>1
    <3> QED BY Zenon, <3>2, <3>3, <1>1
  <2>3. Nat \subseteq N
    <3> HIDE DEF N
    <3> QED BY Zenon, <2>1, <2>2, Induction
  <2> QED BY <2>3
<1> DEFINE result == [k \in 0 .. n |-> t[k].result]
           xPower == [k \in 0 .. n |-> t[k].xPower]
<1>10. Loop(result, xPower, c, x, n)
  <2>1. \A k \in 0 .. n : t[k] \in V
    BY Zenon, <1>9
  <2> HIDE DEF t
  <2>2. \A k \in 1 .. n : k - 1 \in 0 .. n /\ k \in 0 .. n
    OBVIOUS
  <2>3. result \in [0 .. n -> Zn] /\ xPower \in [0 .. n -> Zn]
    BY Zenon, <2>1
  <2>4. result[0] = 0 /\ xPower[0] = 1
    BY <1>7
  <2>5. ASSUME NEW k \in 1 .. n
        PROVE  /\ result[k] = add(result[k - 1], mul(c[k], xPower[k - 1]))
               /\ xPower[k] = mul(xPower[k - 1], x)
    <3>1. /\ result[k] = t[k].result /\ result[k - 1] = t[k - 1].result
          /\ xPower[k] = t[k].xPower /\ xPower[k - 1] = t[k - 1].xPower
      BY Zenon, <2>2
    <3>2. /\ t[k].result = add(t[k - 1].result, mul(c[k], t[k - 1].xPower))
          /\ t[k].xPower = mul(t[k - 1].xPower, x)
      <4>1. PICK a, b : /\ a = add(t[k - 1].result, mul(c[k], t[k - 1].xPower))
                        /\ b = mul(t[k - 1].xPower, x)
                        /\ t[k] = [result |-> a, xPower |-> b]
        BY Zenon, <1>8
      <4>2. t[k].result = a /\ t[k].xPower = b
        BY <4>1
      <4> QED BY Zenon, <4>1, <4>2
    <3> HIDE DEF result, xPower
    <3> QED BY Zenon, <3>1, <3>2
  <2> QED BY Zenon, <2>3, <2>4, <2>5 DEF Loop
<1>11. evaluatePolynomial(c, x) = result[n]
  BY <1>4
<1> QED BY Zenon, <1>10, <1>11

\* evaluatePolynomial returns an element of Zn.
LEMMA EvaluateType ==
    ASSUME NEW n \in Nat, NEW c \in [1 .. n -> Zn], NEW x \in Zn
    PROVE  evaluatePolynomial(c, x) \in Zn
<1>1. PICK r, p : Loop(r, p, c, x, n) /\ evaluatePolynomial(c, x) = r[n]
  BY Zenon, EvaluateLoop
<1>2. n \in 0 .. n
  OBVIOUS
<1> QED BY ZenonT(60), <1>1, <1>2 DEF Loop

\* evaluatePolynomial is linear in the coefficients.
LEMMA EvaluateLinear ==
    ASSUME NEW n \in Nat, NEW c \in [1 .. n -> Zn], NEW d \in [1 .. n -> Zn], NEW z \in Zn, NEW x \in Zn
    PROVE  evaluatePolynomial([k \in 1 .. n |-> add(c[k], mul(z, d[k]))], x)
              = add(evaluatePolynomial(c, x), mul(z, evaluatePolynomial(d, x)))
<1> DEFINE e == [k \in 1 .. n |-> add(c[k], mul(z, d[k]))]
<1>1. e \in [1 .. n -> Zn] /\ \A k \in 1 .. n : e[k] = add(c[k], mul(z, d[k]))
  BY Zenon, Closed
<1> HIDE DEF e
<1>2. PICK rc, pc : Loop(rc, pc, c, x, n) /\ evaluatePolynomial(c, x) = rc[n]
  BY Zenon, EvaluateLoop
<1>3. PICK rd, pd : Loop(rd, pd, d, x, n) /\ evaluatePolynomial(d, x) = rd[n]
  BY Zenon, EvaluateLoop
<1>4. PICK re, pe : Loop(re, pe, e, x, n) /\ evaluatePolynomial(e, x) = re[n]
  BY Zenon, <1>1, EvaluateLoop
<1> DEFINE N == {k \in Nat : k <= n => pd[k] = pc[k] /\ pe[k] = pc[k] /\ re[k] = add(rc[k], mul(z, rd[k]))}
<1>5. 0 \in N
  BY <1>2, <1>3, <1>4, Constants, AddLaws, MulLaws DEF Loop
<1>6. ASSUME NEW k \in Nat, k \in N PROVE k + 1 \in N
  <2> SUFFICES ASSUME k + 1 <= n
               PROVE  /\ pd[k + 1] = pc[k + 1] /\ pe[k + 1] = pc[k + 1]
                      /\ re[k + 1] = add(rc[k + 1], mul(z, rd[k + 1]))
    OBVIOUS
  <2>1. k + 1 \in 1 .. n /\ (k + 1) - 1 = k /\ k \in 0 .. n
    OBVIOUS
  <2>2. PICK b \in Zn, C \in Zn, D \in Zn, p \in Zn :
             b = c[k + 1] /\ C = rc[k] /\ D = rd[k] /\ p = pc[k]
    BY Zenon, <2>1, <1>2, <1>3 DEF Loop
  <2>3. PICK f \in Zn : f = d[k + 1]
    BY Zenon, <2>1
  <2>4. pd[k] = p /\ pe[k] = p /\ re[k] = add(C, mul(z, D))
    BY <1>6, <2>1, <2>2
  <2>5. pc[k + 1] = mul(p, x) /\ rc[k + 1] = add(C, mul(b, p))
    BY Zenon, <1>2, <2>1, <2>2 DEF Loop
  <2>6. pd[k + 1] = mul(p, x) /\ rd[k + 1] = add(D, mul(f, p))
    BY Zenon, <1>3, <2>1, <2>2, <2>3, <2>4 DEF Loop
  <2>7. pe[k + 1] = mul(p, x) /\ re[k + 1] = add(add(C, mul(z, D)), mul(add(b, mul(z, f)), p))
    BY Zenon, <1>1, <1>4, <2>1, <2>2, <2>3, <2>4 DEF Loop
  <2>8. mul(add(b, mul(z, f)), p) = add(mul(b, p), mul(z, mul(f, p)))
    <3>1. mul(z, f) \in Zn
      BY Zenon, Closed
    <3>2. mul(add(b, mul(z, f)), p) = add(mul(b, p), mul(mul(z, f), p))
      BY <3>1, Distributive
    <3>3. mul(mul(z, f), p) = mul(z, mul(f, p))
      BY MulLaws
    <3> QED BY Zenon, <3>2, <3>3
  <2>9. add(add(C, mul(z, D)), add(mul(b, p), mul(z, mul(f, p)))) = add(add(C, mul(b, p)), mul(z, add(D, mul(f, p))))
    <3>1. mul(b, p) \in Zn /\ mul(f, p) \in Zn
      BY Zenon, Closed
    <3> QED BY <3>1, LinearStep
  <2> QED BY ZenonT(60), <2>5, <2>6, <2>7, <2>8, <2>9
<1>7. Nat \subseteq N
  <2> HIDE DEF N
  <2> QED BY Zenon, <1>5, <1>6, Induction
<1> QED BY <1>2, <1>3, <1>4, <1>7 DEF e

\* ... and its value is that of Horner's scheme.
LEMMA EvaluateHorner ==
    ASSUME NEW n \in Nat, NEW c \in [1 .. (n + 1) -> Zn], NEW d \in [1 .. n -> Zn], NEW x \in Zn,
           \A k \in 1 .. n : d[k] = c[k + 1]
    PROVE  evaluatePolynomial(c, x) = add(c[1], mul(x, evaluatePolynomial(d, x)))
<1>1. PICK rc, pc : Loop(rc, pc, c, x, n + 1) /\ evaluatePolynomial(c, x) = rc[n + 1]
  <2>1. n + 1 \in Nat
    OBVIOUS
  <2> QED BY Zenon, <2>1, EvaluateLoop
<1>2. PICK rd, pd : Loop(rd, pd, d, x, n) /\ evaluatePolynomial(d, x) = rd[n]
  BY Zenon, EvaluateLoop
<1>3. PICK b \in Zn : b = c[1]
  OBVIOUS
<1> DEFINE N == {k \in Nat : k <= n => pc[k + 1] = mul(x, pd[k]) /\ rc[k + 1] = add(b, mul(x, rd[k]))}
<1>4. 0 \in N
  <2>1. 1 \in 1 .. (n + 1) /\ 1 - 1 = 0 /\ 0 + 1 = 1
    OBVIOUS
  <2>2. rc[1] = add(0, mul(b, 1)) /\ pc[1] = mul(1, x)
    BY Zenon, <1>1, <1>3, <2>1 DEF Loop
  <2>3. rd[0] = 0 /\ pd[0] = 1
    BY Zenon, <1>2 DEF Loop
  <2>4. rc[1] = add(b, mul(x, 0)) /\ pc[1] = mul(x, 1)
    <3>1. mul(b, 1) = b /\ mul(1, x) = x /\ mul(x, 1) = x /\ mul(x, 0) = 0 /\ add(0, b) = b /\ add(b, 0) = b
      BY Zenon, AddLaws, MulLaws
    <3> QED BY Zenon, <2>2, <3>1
  <2> QED BY <2>3, <2>4
<1>5. ASSUME NEW k \in Nat, k \in N PROVE k + 1 \in N
  <2> SUFFICES ASSUME k + 1 <= n
               PROVE  pc[k + 2] = mul(x, pd[k + 1]) /\ rc[k + 2] = add(b, mul(x, rd[k + 1]))
    OBVIOUS
  <2>1. /\ k + 1 \in 1 .. n /\ (k + 1) - 1 = k /\ k \in 0 .. n /\ (k + 1) + 1 = k + 2
        /\ k + 2 \in 1 .. (n + 1) /\ (k + 2) - 1 = k + 1
    OBVIOUS
  <2>2. PICK e \in Zn, R \in Zn, p \in Zn : e = d[k + 1] /\ R = rd[k] /\ p = pd[k]
    BY Zenon, <2>1, <1>2 DEF Loop
  <2>3. c[k + 2] = e
    BY Zenon, <2>1, <2>2
  <2>4. pc[k + 1] = mul(x, p) /\ rc[k + 1] = add(b, mul(x, R))
    BY <1>5, <2>1, <2>2
  <2>5. pc[k + 2] = mul(mul(x, p), x) /\ rc[k + 2] = add(add(b, mul(x, R)), mul(e, mul(x, p)))
    BY Zenon, <1>1, <2>1, <2>3, <2>4 DEF Loop
  <2>6. pd[k + 1] = mul(p, x) /\ rd[k + 1] = add(R, mul(e, p))
    BY Zenon, <1>2, <2>1, <2>2 DEF Loop
  <2>7. mul(e, mul(x, p)) = mul(x, mul(e, p))
    <3>1. mul(e, mul(x, p)) = mul(mul(e, x), p) /\ mul(mul(x, e), p) = mul(x, mul(e, p)) /\ mul(e, x) = mul(x, e)
      BY MulLaws
    <3> QED BY Zenon, <3>1
  <2>8. add(add(b, mul(x, R)), mul(x, mul(e, p))) = add(b, mul(x, add(R, mul(e, p))))
    <3>1. mul(e, p) \in Zn /\ mul(x, R) \in Zn /\ mul(x, mul(e, p)) \in Zn
      BY Zenon, Closed
    <3>2. add(add(b, mul(x, R)), mul(x, mul(e, p))) = add(b, add(mul(x, R), mul(x, mul(e, p))))
      BY <3>1, AddLaws
    <3>3. add(mul(x, R), mul(x, mul(e, p))) = mul(x, add(R, mul(e, p)))
      BY <3>1, Distributive
    <3> QED BY Zenon, <3>2, <3>3
  <2>9. mul(mul(x, p), x) = mul(x, mul(p, x))
    BY ZenonT(60), MulLaws
  <2> QED BY Zenon, <2>5, <2>6, <2>7, <2>8, <2>9
<1>6. Nat \subseteq N
  <2> HIDE DEF N
  <2> QED BY Zenon, <1>4, <1>5, Induction
<1> QED BY <1>1, <1>2, <1>3, <1>6

\* The functions that a polynomial with n coefficients computes.
Poly(n) == {f \in [Zn -> Zn] : \E c \in [1 .. n -> Zn] : \A x \in Zn : f[x] = evaluatePolynomial(c, x)}

\* Without coefficients there is only zero.
LEMMA PolyZero == ASSUME NEW f \in Poly(0), NEW x \in Zn PROVE f[x] = 0
<1>1. PICK c \in [1 .. 0 -> Zn] : f[x] = evaluatePolynomial(c, x)
  BY Zenon DEF Poly
<1>2. PICK r, p : Loop(r, p, c, x, 0) /\ evaluatePolynomial(c, x) = r[0]
  BY Zenon, EvaluateLoop
<1> QED BY Zenon, <1>1, <1>2 DEF Loop

\* One more coefficient: multiply by x and add a constant.
LEMMA PolyHorner ==
    ASSUME NEW n \in Nat, NEW f \in [Zn -> Zn]
    PROVE  f \in Poly(n + 1) <=> \E b \in Zn, q \in Poly(n) : \A x \in Zn : f[x] = add(b, mul(x, q[x]))
<1>1. ASSUME f \in Poly(n + 1)
      PROVE  \E b \in Zn, q \in Poly(n) : \A x \in Zn : f[x] = add(b, mul(x, q[x]))
  <2>1. PICK c \in [1 .. (n + 1) -> Zn] : \A x \in Zn : f[x] = evaluatePolynomial(c, x)
    BY Zenon, <1>1 DEF Poly
  <2> DEFINE d == [k \in 1 .. n |-> c[k + 1]]
             q == [x \in Zn |-> evaluatePolynomial(d, x)]
  <2>2. d \in [1 .. n -> Zn] /\ \A k \in 1 .. n : d[k] = c[k + 1]
    OBVIOUS
  <2> HIDE DEF d
  <2>3. \A x \in Zn : evaluatePolynomial(d, x) \in Zn
    BY Zenon, <2>2, EvaluateType
  <2>4. q \in Poly(n)
    BY Zenon, <2>2, <2>3 DEF Poly
  <2>5. \A x \in Zn : f[x] = add(c[1], mul(x, q[x]))
    BY Zenon, <2>1, <2>2, EvaluateHorner
  <2>6. c[1] \in Zn
    OBVIOUS
  <2> QED BY Zenon, <2>4, <2>5, <2>6
<1>2. ASSUME NEW b \in Zn, NEW q \in Poly(n), \A x \in Zn : f[x] = add(b, mul(x, q[x]))
      PROVE  f \in Poly(n + 1)
  <2>1. PICK d \in [1 .. n -> Zn] : \A x \in Zn : q[x] = evaluatePolynomial(d, x)
    BY Zenon DEF Poly
  <2> DEFINE c == [k \in 1 .. (n + 1) |-> IF k = 1 THEN b ELSE d[k - 1]]
  <2>2. c \in [1 .. (n + 1) -> Zn] /\ c[1] = b /\ \A k \in 1 .. n : d[k] = c[k + 1]
    OBVIOUS
  <2> HIDE DEF c
  <2>3. \A x \in Zn : f[x] = evaluatePolynomial(c, x)
    BY ZenonT(60), <1>2, <2>1, <2>2, EvaluateHorner
  <2> QED BY Zenon, <2>2, <2>3 DEF Poly
<1> QED BY Zenon, <1>1, <1>2

\* Linear combinations of polynomials are polynomials.
LEMMA PolyLinear ==
    ASSUME NEW n \in Nat, NEW f \in Poly(n), NEW h \in Poly(n), NEW z \in Zn
    PROVE  [x \in Zn |-> add(f[x], mul(z, h[x]))] \in Poly(n)
<1>1. PICK c \in [1 .. n -> Zn] : \A x \in Zn : f[x] = evaluatePolynomial(c, x)
  BY Zenon DEF Poly
<1>2. PICK d \in [1 .. n -> Zn] : \A x \in Zn : h[x] = evaluatePolynomial(d, x)
  BY Zenon DEF Poly
<1> DEFINE e == [k \in 1 .. n |-> add(c[k], mul(z, d[k]))]
           w == [x \in Zn |-> add(f[x], mul(z, h[x]))]
<1>3. e \in [1 .. n -> Zn]
  BY Zenon, Closed
<1>4. \A x \in Zn : w[x] = evaluatePolynomial(e, x)
  <2> SUFFICES ASSUME NEW x \in Zn PROVE add(f[x], mul(z, h[x])) = evaluatePolynomial(e, x)
    BY Zenon
  <2>1. evaluatePolynomial(e, x) = add(evaluatePolynomial(c, x), mul(z, evaluatePolynomial(d, x)))
    BY Zenon, EvaluateLinear
  <2> QED BY Zenon, <1>1, <1>2, <2>1
<1>5. f \in [Zn -> Zn] /\ h \in [Zn -> Zn]
  BY Zenon DEF Poly
<1>6. w \in [Zn -> Zn]
  BY Zenon, <1>5, Closed
<1> HIDE DEF e, w
<1>7. w \in Poly(n)
  BY Zenon, <1>3, <1>4, <1>6 DEF Poly
<1> QED BY Zenon, <1>7 DEF w

\* A coefficient more does no harm.
LEMMA PolyPad == \A n \in Nat : Poly(n) \subseteq Poly(n + 1)
<1> DEFINE N == {n \in Nat : Poly(n) \subseteq Poly(n + 1)}
<1>1. \A n \in Nat : \A f \in Poly(n) : f \in [Zn -> Zn]
  BY Zenon DEF Poly
<1>2. 0 \in N
  <2> SUFFICES ASSUME NEW f \in Poly(0) PROVE f \in Poly(0 + 1)
    BY Zenon DEF N
  <2>1. \A x \in Zn : f[x] = add(0, mul(x, f[x]))
    BY PolyZero, Constants, MulLaws, AddLaws
  <2> QED BY Zenon, <2>1, <1>1, Constants, PolyHorner
<1>3. ASSUME NEW n \in Nat, n \in N PROVE n + 1 \in N
  <2> SUFFICES ASSUME NEW f \in Poly(n + 1) PROVE f \in Poly((n + 1) + 1)
    BY DEF N
  <2>1. n + 1 \in Nat
    OBVIOUS
  <2>2. PICK b \in Zn, q \in Poly(n) : \A x \in Zn : f[x] = add(b, mul(x, q[x]))
    BY Zenon, <2>1, <1>1, PolyHorner
  <2>3. q \in Poly(n + 1)
    BY Zenon, <1>3
  <2> QED BY Zenon, <2>1, <2>2, <2>3, <1>1, PolyHorner
<1>4. Nat \subseteq N
  <2> HIDE DEF N
  <2> QED BY Zenon, <1>2, <1>3, Induction
<1> QED BY Zenon, <1>4

\* Division by x - a.
LEMMA DivisionStep ==
    ASSUME NEW a \in Zn, NEW b \in Zn, NEW u \in Zn, NEW q \in Zn, NEW x \in Zn
    PROVE  add(b, mul(x, add(u, mul(add(x, neg(a)), q))))
              = add(add(b, mul(a, u)), mul(add(x, neg(a)), add(u, mul(x, q))))
<1>1. PICK e \in Zn : e = add(x, neg(a))
  BY Zenon, Closed
<1>2. add(a, e) = x
  <2>1. neg(a) \in Zn /\ add(a, e) = add(e, a) /\ add(neg(a), a) = 0
    BY Zenon, Closed, AddLaws
  <2>2. add(e, a) = add(x, add(neg(a), a))
    BY <1>1, <2>1, AddLaws
  <2> QED BY Zenon, <2>1, <2>2, AddLaws
<1>3. mul(e, q) \in Zn /\ mul(x, q) \in Zn /\ mul(e, mul(x, q)) \in Zn /\ mul(e, u) \in Zn /\ mul(a, u) \in Zn
  BY Zenon, Closed
<1>4. mul(x, add(u, mul(e, q))) = add(mul(x, u), mul(x, mul(e, q)))
  BY <1>3, Distributive
<1>5. mul(x, u) = add(mul(a, u), mul(e, u))
  BY <1>2, Distributive
<1>6. mul(x, mul(e, q)) = mul(e, mul(x, q))
  <2>1. mul(x, mul(e, q)) = mul(mul(x, e), q) /\ mul(e, mul(x, q)) = mul(mul(e, x), q) /\ mul(x, e) = mul(e, x)
    BY MulLaws
  <2> QED BY Zenon, <2>1
<1>7. mul(e, add(u, mul(x, q))) = add(mul(e, u), mul(e, mul(x, q)))
  BY <1>3, Distributive
<1>8. add(mul(e, u), mul(e, mul(x, q))) \in Zn
  BY SMTT(30), <1>3, Closed
<1>9. add(add(mul(a, u), mul(e, u)), mul(e, mul(x, q))) = add(mul(a, u), add(mul(e, u), mul(e, mul(x, q))))
  BY <1>3, AddLaws
<1>10. add(b, add(mul(a, u), add(mul(e, u), mul(e, mul(x, q)))))
         = add(add(b, mul(a, u)), add(mul(e, u), mul(e, mul(x, q))))
  BY <1>3, <1>8, AddLaws
<1> QED BY Zenon, <1>1, <1>4, <1>5, <1>6, <1>7, <1>9, <1>10

\* What a polynomial takes off its value at a is divided by x - a, and the
\* quotient has one coefficient less.
LEMMA PolyDivision ==
    ASSUME NEW a \in Zn
    PROVE  \A n \in Nat : \A f \in Poly(n + 1) :
              \E q \in Poly(n) : \A x \in Zn : f[x] = add(f[a], mul(add(x, neg(a)), q[x]))
<1> DEFINE N == {n \in Nat : \A f \in Poly(n + 1) :
                    \E q \in Poly(n) : \A x \in Zn : f[x] = add(f[a], mul(add(x, neg(a)), q[x]))}
<1>1. \A n \in Nat : \A f \in Poly(n) : f \in [Zn -> Zn]
  BY Zenon DEF Poly
<1>2. 0 \in N
  <2> SUFFICES ASSUME NEW f \in Poly(0 + 1)
               PROVE  \E q \in Poly(0) : \A x \in Zn : f[x] = add(f[a], mul(add(x, neg(a)), q[x]))
    BY Zenon DEF N
  <2>1. 0 \in Nat /\ f \in [Zn -> Zn]
    BY <1>1
  <2>2. PICK b \in Zn, q \in Poly(0) : \A x \in Zn : f[x] = add(b, mul(x, q[x]))
    BY Zenon, <2>1, PolyHorner
  <2>3. \A x \in Zn : q[x] = 0
    BY Zenon, PolyZero
  <2>4. \A x \in Zn : f[x] = b
    BY <2>2, <2>3, MulLaws, AddLaws
  <2>5. \A x \in Zn : b = add(b, mul(add(x, neg(a)), 0))
    BY Zenon, Closed, MulLaws, AddLaws
  <2>6. \A x \in Zn : f[x] = add(f[a], mul(add(x, neg(a)), q[x]))
    BY Zenon, <2>3, <2>4, <2>5
  <2> QED BY Zenon, <2>6
<1>3. ASSUME NEW n \in Nat, n \in N PROVE n + 1 \in N
  <2> SUFFICES ASSUME NEW f \in Poly((n + 1) + 1)
               PROVE  \E q \in Poly(n + 1) : \A x \in Zn : f[x] = add(f[a], mul(add(x, neg(a)), q[x]))
    BY DEF N
  <2>1. n + 1 \in Nat /\ (n + 1) + 1 \in Nat
    OBVIOUS
  <2>2. PICK b \in Zn, h \in Poly(n + 1) : \A x \in Zn : f[x] = add(b, mul(x, h[x]))
    BY Zenon, <2>1, <1>1, PolyHorner
  <2>3. PICK q \in Poly(n) : \A x \in Zn : h[x] = add(h[a], mul(add(x, neg(a)), q[x]))
    BY Zenon, <1>3
  <2> DEFINE w == [x \in Zn |-> add(h[a], mul(x, q[x]))]
  <2>4. h[a] \in Zn /\ \A x \in Zn : q[x] \in Zn
    BY Zenon, <1>1, <2>1
  <2>5. w \in [Zn -> Zn] /\ \A x \in Zn : w[x] = add(h[a], mul(x, q[x]))
    BY Zenon, <2>4, Closed
  <2> HIDE DEF w
  <2>6. w \in Poly(n + 1)
    BY Zenon, <2>4, <2>5, PolyHorner
  <2>7. ASSUME NEW x \in Zn PROVE f[x] = add(f[a], mul(add(x, neg(a)), w[x]))
    <3>1. f[x] = add(b, mul(x, add(h[a], mul(add(x, neg(a)), q[x])))) /\ f[a] = add(b, mul(a, h[a]))
      BY Zenon, <2>2, <2>3
    <3>2. w[x] = add(h[a], mul(x, q[x]))
      BY Zenon, <2>5
    <3>3. add(b, mul(x, add(h[a], mul(add(x, neg(a)), q[x]))))
             = add(add(b, mul(a, h[a])), mul(add(x, neg(a)), add(h[a], mul(x, q[x]))))
      <4>1. PICK u \in Zn, v \in Zn : u = h[a] /\ v = q[x]
        BY Zenon, <2>4
      <4>2. add(b, mul(x, add(u, mul(add(x, neg(a)), v))))
              = add(add(b, mul(a, u)), mul(add(x, neg(a)), add(u, mul(x, v))))
        BY DivisionStep
      <4> QED BY Zenon, <4>1, <4>2
    <3> QED BY Zenon, <3>1, <3>2, <3>3
  <2> QED BY Zenon, <2>6, <2>7
<1>4. Nat \subseteq N
  <2> HIDE DEF N
  <2> QED BY Zenon, <1>2, <1>3, Induction
<1> QED BY Zenon, <1>4

\* Zn and its subsets are finite.
LEMMA ZnFinite == IsFiniteSet(Zn) /\ \A s \in SUBSET Zn : IsFiniteSet(s) /\ Cardinality(s) \in Nat
<1>1. IsFiniteSet(Zn)
  BY PAssumption, FS_Interval DEF Zn
<1> QED BY Zenon, <1>1, FS_Subset, FS_CardinalityType

\* An element less is one less.
LEMMA CardinalityStep ==
    ASSUME NEW s \in SUBSET Zn, NEW a \in s
    PROVE  /\ s \ {a} \in SUBSET Zn /\ Cardinality(s \ {a}) \in Nat
           /\ Cardinality(s) = Cardinality(s \ {a}) + 1
<1>1. IsFiniteSet(s) /\ Cardinality(s) \in Nat /\ Cardinality(s \ {a}) \in Nat
  BY Zenon, ZnFinite
<1>2. Cardinality(s \ {a}) = Cardinality(s) - 1
  BY Zenon, <1>1, FS_RemoveElement
<1> QED BY <1>1, <1>2

\* The product with 1 + z * x.
LEMMA PolyTimes ==
    ASSUME NEW n \in Nat, NEW h \in Poly(n), NEW z \in Zn
    PROVE  [x \in Zn |-> add(h[x], mul(z, mul(x, h[x])))] \in Poly(n + 1)
<1> DEFINE e == [x \in Zn |-> mul(x, h[x])]
<1>1. \A x \in Zn : h[x] \in Zn
  BY Zenon DEF Poly
<1>2. h \in Poly(n + 1)
  BY Zenon, PolyPad
<1>3. e \in [Zn -> Zn] /\ \A x \in Zn : e[x] = mul(x, h[x])
  BY Zenon, <1>1, Closed
<1> HIDE DEF e
<1>4. \A x \in Zn : e[x] = add(0, mul(x, h[x]))
  BY Zenon, <1>1, <1>3, Closed, AddLaws
<1>5. e \in Poly(n + 1)
  BY Zenon, <1>3, <1>4, Constants, PolyHorner
<1>6. n + 1 \in Nat
  OBVIOUS
<1>7. [x \in Zn |-> add(h[x], mul(z, e[x]))] \in Poly(n + 1)
  BY Zenon, <1>2, <1>5, <1>6, PolyLinear
<1> QED BY Zenon, <1>3, <1>7

\* Constants are polynomials with one coefficient.
LEMMA PolyConstant == ASSUME NEW b \in Zn PROVE [x \in Zn |-> b] \in Poly(0 + 1)
<1> DEFINE z == [x \in Zn |-> 0]
           f == [x \in Zn |-> b]
           c == [k \in 1 .. 0 |-> 0]
<1>1. c \in [1 .. 0 -> Zn] /\ 0 \in Nat
  BY Zenon, Constants
<1> HIDE DEF c
<1>2. ASSUME NEW x \in Zn PROVE evaluatePolynomial(c, x) = 0
  <2>1. PICK r, p : Loop(r, p, c, x, 0) /\ evaluatePolynomial(c, x) = r[0]
    BY Zenon, <1>1, EvaluateLoop
  <2> QED BY Zenon, <2>1 DEF Loop
<1>3. z \in [Zn -> Zn] /\ \A x \in Zn : z[x] = 0
  BY Zenon, Constants
<1>4. f \in [Zn -> Zn] /\ \A x \in Zn : f[x] = b
  BY Zenon
<1> HIDE DEF z, f
<1>5. z \in Poly(0)
  BY Zenon, <1>1, <1>2, <1>3 DEF Poly
<1>6. \A x \in Zn : f[x] = add(b, mul(x, z[x]))
  BY <1>3, <1>4, MulLaws, AddLaws
<1>7. f \in Poly(0 + 1)
  BY Zenon, <1>1, <1>4, <1>5, <1>6, PolyHorner
<1> QED BY Zenon, <1>7 DEF f

\* A polynomial that is 1 at 0 and 0 on s.
LEMMA Vanishing ==
    \A s \in SUBSET (Zn \ {0}) : \E f \in Poly(Cardinality(s) + 1) : f[0] = 1 /\ \A j \in s : f[j] = 0
<1> DEFINE D == Zn \ {0}
           T == {s \in SUBSET D : \E f \in Poly(Cardinality(s) + 1) : f[0] = 1 /\ \A j \in s : f[j] = 0}
<1>1. Inductive(T, D)
  <2>1. SUFFICES ASSUME NEW s \in SUBSET D, \A a \in s : s \ {a} \in T
                 PROVE  \E f \in Poly(Cardinality(s) + 1) : f[0] = 1 /\ \A j \in s : f[j] = 0
    BY Zenon DEF Inductive
  <2>2. CASE s = {}
    <3> DEFINE f == [x \in Zn |-> 1]
    <3>1. f \in Poly(0 + 1)
      BY Zenon, Constants, PolyConstant
    <3>2. f[0] = 1
      BY Zenon, Constants
    <3>3. Cardinality(s) = 0
      BY Zenon, <2>2, FS_EmptySet
    <3> HIDE DEF f
    <3> QED BY Zenon, <2>2, <3>1, <3>2, <3>3
  <2>3. ASSUME NEW a \in s PROVE \E f \in Poly(Cardinality(s) + 1) : f[0] = 1 /\ \A j \in s : f[j] = 0
    <3>1. PICK m \in Nat : m = Cardinality(s \ {a}) + 1 /\ Cardinality(s) = m
      BY CardinalityStep
    <3>2. PICK h \in Poly(m) : h[0] = 1 /\ \A j \in s \ {a} : h[j] = 0
      BY Zenon, <2>1, <3>1
    <3>3. a \in Zn \ {0} /\ s \subseteq Zn /\ inv(a) \in Zn /\ mul(a, inv(a)) = 1 /\ neg(inv(a)) \in Zn
      BY Zenon, InverseExists, Closed
    <3> DEFINE f == [x \in Zn |-> add(h[x], mul(neg(inv(a)), mul(x, h[x])))]
    <3>4. \A x \in Zn : h[x] \in Zn
      BY Zenon DEF Poly
    <3>5. f \in Poly(m + 1)
      BY Zenon, <3>3, PolyTimes
    <3>6. f[0] = 1
      <4>1. f[0] = add(1, mul(neg(inv(a)), mul(0, 1)))
        BY Zenon, <3>2, Constants
      <4> QED BY <4>1, <3>3, Constants, MulLaws, AddLaws
    <3>7. ASSUME NEW j \in s PROVE f[j] = 0
      <4>1. f[j] = add(h[j], mul(neg(inv(a)), mul(j, h[j]))) /\ j \in Zn
        BY Zenon, <3>3
      <4>2. CASE j # a
        <5>1. f[j] = add(0, mul(neg(inv(a)), mul(j, 0)))
          BY Zenon, <4>1, <4>2, <3>2
        <5> QED BY <4>1, <5>1, <3>3, Constants, MulLaws, AddLaws
      <4>3. CASE j = a
        <5>1. PICK u \in Zn : u = h[a]
          BY Zenon, <3>3, <3>4
        <5>2. mul(neg(inv(a)), mul(a, u)) = mul(mul(neg(inv(a)), a), u)
          BY <3>3, MulLaws
        <5>3. mul(neg(inv(a)), a) = neg(mul(inv(a), a)) /\ mul(inv(a), a) = 1
          BY <3>3, NegLaws, MulLaws
        <5>4. mul(neg(1), u) = neg(mul(1, u)) /\ mul(1, u) = u
          BY Constants, NegLaws, MulLaws
        <5>5. add(u, neg(u)) = 0
          BY Zenon, AddLaws
        <5> QED BY Zenon, <4>1, <4>3, <5>1, <5>2, <5>3, <5>4, <5>5
      <4> QED BY Zenon, <4>2, <4>3
    <3> HIDE DEF f
    <3> QED BY Zenon, <3>1, <3>5, <3>6, <3>7
  <2> QED BY Zenon, <2>2, <2>3
<1>2. IsFiniteSet(D)
  BY Zenon, ZnFinite
<1>3. \A s \in SUBSET D : s \in T
  <2> HIDE DEF T, D
  <2> QED BY Zenon, <1>1, <1>2, SetInduction
<1> QED BY Zenon, <1>3

\* evaluatePolynomial at 0 is the first coefficient.
LEMMA EvaluateAtZero ==
    ASSUME NEW n \in Nat \ {0}, NEW c \in [1 .. n -> Zn]
    PROVE  c[1] \in Zn /\ evaluatePolynomial(c, 0) = c[1]
<1>1. PICK m \in Nat : n = m + 1
  <2>1. n - 1 \in Nat /\ n = (n - 1) + 1
    OBVIOUS
  <2> QED BY Zenon, <2>1
<1> DEFINE d == [k \in 1 .. m |-> c[k + 1]]
<1>2. d \in [1 .. m -> Zn] /\ \A k \in 1 .. m : d[k] = c[k + 1]
  BY <1>1
<1>3. c[1] \in Zn /\ c \in [1 .. (m + 1) -> Zn]
  BY <1>1
<1> HIDE DEF d
<1>4. evaluatePolynomial(d, 0) \in Zn
  BY Zenon, <1>2, Constants, EvaluateType
<1>5. evaluatePolynomial(c, 0) = add(c[1], mul(0, evaluatePolynomial(d, 0)))
  BY Zenon, <1>2, <1>3, Constants, EvaluateHorner
<1>6. mul(0, evaluatePolynomial(d, 0)) = 0 /\ add(c[1], 0) = c[1]
  BY Zenon, <1>3, <1>4, MulLaws, AddLaws
<1> QED BY Zenon, <1>3, <1>5, <1>6

\* Polynomials add up to a polynomial.
LEMMA PolyZeroIn == ASSUME NEW n \in Nat PROVE [x \in Zn |-> 0] \in Poly(n)
<1> DEFINE c == [k \in 1 .. n |-> 0]
           f == [x \in Zn |-> evaluatePolynomial(c, x)]
<1>1. c \in [1 .. n -> Zn]
  BY Zenon, Constants
<1> HIDE DEF c
<1>2. \A x \in Zn : evaluatePolynomial(c, x) \in Zn
  BY Zenon, <1>1, EvaluateType
<1>3. f \in [Zn -> Zn] /\ \A x \in Zn : f[x] = evaluatePolynomial(c, x)
  BY Zenon, <1>2
<1> HIDE DEF f
<1>4. f \in Poly(n)
  BY Zenon, <1>1, <1>3 DEF Poly
<1>5. neg(1) \in Zn
  BY Zenon, Constants, Closed
<1>6. [x \in Zn |-> add(f[x], mul(neg(1), f[x]))] \in Poly(n)
  BY ZenonT(60), <1>4, <1>5, PolyLinear
<1>7. ASSUME NEW x \in Zn PROVE add(f[x], mul(neg(1), f[x])) = 0
  <2>1. PICK u \in Zn : u = f[x]
    BY Zenon, <1>3
  <2>2. mul(neg(1), u) = neg(mul(1, u)) /\ mul(1, u) = u /\ add(u, neg(u)) = 0
    BY Constants, NegLaws, MulLaws, AddLaws
  <2> QED BY Zenon, <2>1, <2>2
<1>8. [x \in Zn |-> add(f[x], mul(neg(1), f[x]))] = [x \in Zn |-> 0]
  BY Zenon, <1>7
<1> QED BY Zenon, <1>6, <1>8

\* The values of the total are the totals of the values.
LEMMA PolyTotal ==
    ASSUME NEW D, IsFiniteSet(D), NEW n \in Nat, NEW F \in [D -> Poly(n)]
    PROVE  [x \in Zn |-> Total([d \in D |-> F[d][x]])] \in Poly(n)
<1> DEFINE V(s, x) == [d \in s |-> F[d][x]]
           G(s) == [x \in Zn |-> Total(V(s, x))]
           T == {s \in SUBSET D : G(s) \in Poly(n)}
<1>1. \A f \in Poly(n) : f \in [Zn -> Zn]
  BY Zenon DEF Poly
<1>2. \A s \in SUBSET D : IsFiniteSet(s) /\ \A x \in Zn : V(s, x) \in [s -> Zn]
  BY Zenon, <1>1, FS_Subset
<1>3. Inductive(T, D)
  <2>1. SUFFICES ASSUME NEW s \in SUBSET D, \A a \in s : s \ {a} \in T PROVE G(s) \in Poly(n)
    BY Zenon DEF Inductive
  <2>2. CASE s = {}
    <3>1. ASSUME NEW x \in Zn PROVE Total(V(s, x)) = 0
      <4> HIDE DEF V
      <4> QED BY Zenon, <1>2, <2>2, TotalStep
    <3>2. G(s) = [x \in Zn |-> 0]
      <4> HIDE DEF V
      <4> QED BY Zenon, <3>1
    <3> HIDE DEF G
    <3> QED BY Zenon, <3>2, PolyZeroIn
  <2>3. ASSUME NEW a \in s PROVE G(s) \in Poly(n)
    <3> DEFINE f == F[a]
               h == G(s \ {a})
    <3>1. f \in Poly(n) /\ h \in Poly(n) /\ 1 \in Zn
      <4> HIDE DEF G
      <4> QED BY Zenon, <2>1, Constants
    <3>2. ASSUME NEW x \in Zn PROVE Total(V(s, x)) = add(f[x], mul(1, h[x]))
      <4>1. Without(V(s, x), a) = V(s \ {a}, x) /\ V(s, x)[a] = f[x] /\ h[x] = Total(V(s \ {a}, x))
        BY Zenon DEF Without
      <4>2. Total(V(s, x)) = add(V(s, x)[a], Total(Without(V(s, x), a))) /\ Total(Without(V(s, x), a)) \in Zn
        <5> HIDE DEF V
        <5> QED BY Zenon, <1>2, TotalStep
      <4> HIDE DEF V, h, f
      <4>3. mul(1, h[x]) = h[x]
        BY Zenon, <4>1, <4>2, MulLaws
      <4> QED BY SMTT(30), <4>1, <4>2, <4>3
    <3>3. G(s) = [x \in Zn |-> add(f[x], mul(1, h[x]))]
      <4> HIDE DEF V, f, h
      <4> QED BY Zenon, <3>2
    <3> HIDE DEF f, h, G
    <3>4. [x \in Zn |-> add(f[x], mul(1, h[x]))] \in Poly(n)
      BY Zenon, <3>1, PolyLinear
    <3> QED BY Zenon, <3>3, <3>4
  <2> QED BY Zenon, <2>2, <2>3
<1>4. \A s \in SUBSET D : s \in T
  <2> HIDE DEF T
  <2> QED BY Zenon, <1>3, SetInduction
<1> QED BY Zenon, <1>4

-----------------------------------------------------------------------------
(* Lagrange interpolation at 0.                                            *)

\* No denominator of aggregateShares is zero.
LEMMA DenominatorNonzero ==
    ASSUME NEW s \in SUBSET Zn, NEW i \in Zn
    PROVE  numerator(i, s) \in Zn /\ denominator(i, s) \in Zn \ {0}
<1> DEFINE D == s \ {i}
           f == [j \in D |-> neg(j)]
           h == [j \in D |-> add(i, neg(j))]
<1>1. IsFiniteSet(D)
  BY Zenon, ZnFinite
<1>2. f \in [D -> Zn]
  BY Zenon, Closed
<1>3. \A j \in D : add(i, neg(j)) \in Zn \ {0}
  BY Zenon, Closed, NegLaws
<1>4. h \in [D -> Zn \ {0}]
  BY Zenon, <1>3
<1>5. numerator(i, s) = Product(f) /\ denominator(i, s) = Product(h)
  BY Zenon DEF numerator, denominator, Others
<1> HIDE DEF D, f, h
<1>6. Product(f) \in Zn
  BY Zenon, <1>1, <1>2, ProductStep
<1>7. Product(h) \in Zn \ {0}
  BY Zenon, <1>1, <1>4, ProductNonzero
<1> QED BY Zenon, <1>5, <1>6, <1>7

\* The Lagrange coefficients are in Zn.
LEMMA LambdaType == ASSUME NEW s \in SUBSET Zn, NEW i \in Zn PROVE lambda(i, s) \in Zn
<1>1. numerator(i, s) \in Zn /\ denominator(i, s) \in Zn \ {0}
  BY Zenon, DenominatorNonzero
<1>2. inv(denominator(i, s)) \in Zn
  BY Zenon, <1>1, InverseExists
<1> QED BY Zenon, <1>1, <1>2, Closed DEF lambda

\* The products without the factor of a.
LEMMA FactorOut ==
    ASSUME NEW s \in SUBSET Zn, NEW i \in s, NEW a \in s \ {i}
    PROVE  /\ numerator(i, s) = mul(neg(a), numerator(i, s \ {a}))
           /\ denominator(i, s) = mul(add(i, neg(a)), denominator(i, s \ {a}))
<1> DEFINE D == s \ {i}
           f == [j \in D |-> neg(j)]
           h == [j \in D |-> add(i, neg(j))]
<1>1. IsFiniteSet(D) /\ a \in D /\ D \ {a} = Others(i, s \ {a})
  BY Zenon, ZnFinite DEF Others
<1>2. f \in [D -> Zn] /\ h \in [D -> Zn]
  BY Zenon, Closed
<1>3. numerator(i, s) = Product(f) /\ denominator(i, s) = Product(h)
  BY Zenon DEF numerator, denominator, Others
<1>4. numerator(i, s \ {a}) = Product(Without(f, a))
  <2>1. Without(f, a) = [j \in D \ {a} |-> neg(j)]
    BY Zenon DEF Without
  <2> QED BY Zenon, <1>1, <2>1 DEF numerator
<1>5. denominator(i, s \ {a}) = Product(Without(h, a))
  <2>1. Without(h, a) = [j \in D \ {a} |-> add(i, neg(j))]
    BY Zenon DEF Without
  <2> QED BY Zenon, <1>1, <2>1 DEF denominator
<1>6. f[a] = neg(a) /\ h[a] = add(i, neg(a))
  BY Zenon, <1>1
<1> HIDE DEF D, f, h
<1>7. Product(f) = mul(f[a], Product(Without(f, a)))
  BY Zenon, <1>1, <1>2, ProductStep
<1>8. Product(h) = mul(h[a], Product(Without(h, a)))
  BY ZenonT(60), <1>1, <1>2, ProductStep
<1> QED BY Zenon, <1>3, <1>4, <1>5, <1>6, <1>7, <1>8

\* A factor cancels in the inverse of a product.
LEMMA InverseOfProduct == \A e, d \in Zn \ {0} : mul(inv(mul(e, d)), e) = inv(d)
<1> SUFFICES ASSUME NEW e \in Zn \ {0}, NEW d \in Zn \ {0} PROVE mul(inv(mul(e, d)), e) = inv(d)
  BY Zenon
<1>1. mul(e, d) \in Zn \ {0} /\ mul(e, d) = mul(d, e)
  BY Zenon, MulNonzero, MulLaws
<1>2. PICK v \in Zn : v = inv(mul(e, d)) /\ mul(mul(e, d), v) = 1
  BY Zenon, <1>1, InverseExists
<1>3. inv(d) \in Zn /\ mul(d, inv(d)) = 1 /\ mul(v, e) = mul(e, v) /\ mul(v, e) \in Zn
  BY Zenon, InverseExists, MulLaws, Closed
<1>4. mul(mul(d, e), v) = mul(d, mul(e, v))
  BY MulLaws
<1>5. mul(d, mul(v, e)) = 1
  BY Zenon, <1>1, <1>2, <1>3, <1>4
<1> QED BY <1>2, <1>3, <1>5, Cancel

\* The coefficients of i with and without the point a.
LEMMA LambdaRemove ==
    ASSUME NEW s \in SUBSET Zn, NEW i \in s, NEW a \in s \ {i}
    PROVE  mul(lambda(i, s), add(i, neg(a))) = mul(neg(a), lambda(i, s \ {a}))
<1>1. PICK n \in Zn, d \in Zn \ {0} : n = numerator(i, s \ {a}) /\ d = denominator(i, s \ {a})
  <2>1. s \ {a} \in SUBSET Zn /\ i \in Zn
    BY Zenon
  <2> QED BY Zenon, <2>1, DenominatorNonzero
<1>2. PICK e \in Zn \ {0}, b \in Zn : e = add(i, neg(a)) /\ b = neg(a)
  BY Closed, NegLaws
<1>3. lambda(i, s) = mul(mul(b, n), inv(mul(e, d)))
  BY Zenon, <1>1, <1>2, FactorOut DEF lambda
<1>4. lambda(i, s \ {a}) = mul(n, inv(d))
  BY Zenon, <1>1 DEF lambda
<1>5. PICK v \in Zn : v = inv(mul(e, d))
  BY SMTT(30), MulNonzero, InverseExists
<1>6. mul(v, e) = inv(d) /\ mul(v, e) \in Zn /\ mul(b, n) \in Zn
  BY Zenon, <1>5, InverseOfProduct, Closed
<1>7. mul(mul(mul(b, n), v), e) = mul(mul(b, n), mul(v, e))
  BY <1>6, MulLaws
<1>8. mul(mul(b, n), mul(v, e)) = mul(b, mul(n, mul(v, e)))
  BY <1>6, MulLaws
<1> QED BY Zenon, <1>2, <1>3, <1>4, <1>5, <1>6, <1>7, <1>8

\* A common factor can be taken out of a total.
LEMMA TotalScale ==
    ASSUME NEW D, IsFiniteSet(D), NEW v \in [D -> Zn], NEW z \in Zn
    PROVE  Total([d \in D |-> mul(z, v[d])]) = mul(z, Total(v))
<1>1. PICK y \in Zn : y = add(z, neg(1))
  BY Zenon, Constants, Closed
<1>2. ASSUME NEW u \in Zn PROVE add(u, mul(y, u)) = mul(z, u)
  <2>1. add(1, y) = z
    <3>1. neg(1) \in Zn /\ add(1, y) = add(y, 1) /\ add(neg(1), 1) = 0
      BY Zenon, Constants, Closed, AddLaws
    <3>2. add(y, 1) = add(z, add(neg(1), 1))
      BY <1>1, <3>1, Constants, AddLaws
    <3> QED BY Zenon, <3>1, <3>2, AddLaws
  <2>2. mul(add(1, y), u) = add(mul(1, u), mul(y, u)) /\ mul(1, u) = u
    BY Constants, Distributive, MulLaws
  <2> QED BY Zenon, <2>1, <2>2
<1>3. Total([d \in D |-> add(v[d], mul(y, v[d]))]) = add(Total(v), mul(y, Total(v)))
  BY Zenon, TotalLinear
<1>4. Total(v) \in Zn
  BY Zenon, TotalStep
<1>5. [d \in D |-> add(v[d], mul(y, v[d]))] = [d \in D |-> mul(z, v[d])]
  BY Zenon, <1>2
<1> QED BY Zenon, <1>2, <1>3, <1>4, <1>5

\* What aggregateShares computes of the values f at the points s.
Combine(s, f) == Total([i \in s |-> mul(lambda(i, s), f[i])])

\* The combination is in Zn, ...
LEMMA CombineType == ASSUME NEW s \in SUBSET Zn, NEW f \in [Zn -> Zn] PROVE Combine(s, f) \in Zn
<1> DEFINE v == [i \in s |-> mul(lambda(i, s), f[i])]
<1>1. \A i \in s : mul(lambda(i, s), f[i]) \in Zn
  BY Zenon, LambdaType, Closed
<1>2. v \in [s -> Zn] /\ IsFiniteSet(s)
  BY Zenon, <1>1, ZnFinite
<1> HIDE DEF v
<1>3. Total(v) \in Zn
  BY Zenon, <1>2, TotalStep
<1> QED BY Zenon, <1>3 DEF Combine, v

\* ... and it is linear in the values.
LEMMA CombineLinear ==
    ASSUME NEW s \in SUBSET Zn, NEW f \in [Zn -> Zn], NEW h \in [Zn -> Zn], NEW z \in Zn
    PROVE  Combine(s, [x \in Zn |-> add(f[x], mul(z, h[x]))]) = add(Combine(s, f), mul(z, Combine(s, h)))
<1> DEFINE u == [i \in s |-> mul(lambda(i, s), f[i])]
           v == [i \in s |-> mul(lambda(i, s), h[i])]
           w == [x \in Zn |-> add(f[x], mul(z, h[x]))]
           L == [i \in s |-> mul(lambda(i, s), w[i])]
           R == [i \in s |-> add(u[i], mul(z, v[i]))]
<1>1. \A i \in s : lambda(i, s) \in Zn
  BY Zenon, LambdaType
<1>2. u \in [s -> Zn] /\ v \in [s -> Zn] /\ IsFiniteSet(s)
  BY Zenon, <1>1, ZnFinite, Closed
<1>3. ASSUME NEW i \in s PROVE L[i] = R[i]
  <2>1. PICK l \in Zn, b \in Zn, c \in Zn : l = lambda(i, s) /\ b = f[i] /\ c = h[i]
    BY Zenon, <1>1
  <2>2. L[i] = mul(l, add(b, mul(z, c)))
    BY Zenon, <2>1
  <2>3. R[i] = add(mul(l, b), mul(z, mul(l, c)))
    BY Zenon, <2>1
  <2>4. mul(l, add(b, mul(z, c))) = add(mul(l, b), mul(l, mul(z, c)))
    <3>1. mul(z, c) \in Zn
      BY Zenon, Closed
    <3> QED BY <3>1, Distributive
  <2>5. mul(l, mul(z, c)) = mul(mul(l, z), c) /\ mul(mul(z, l), c) = mul(z, mul(l, c)) /\ mul(l, z) = mul(z, l)
    BY MulLaws
  <2> QED BY Zenon, <2>2, <2>3, <2>4, <2>5
<1>4. L = R
  BY Zenon, <1>3
<1>5. Total(R) = add(Total(u), mul(z, Total(v)))
  <2> HIDE DEF u, v
  <2>1. Total([i \in s |-> add(u[i], mul(z, v[i]))]) = add(Total(u), mul(z, Total(v)))
    BY <1>2, TotalLinear
  <2> QED BY Zenon, <2>1
<1> QED BY Zenon, <1>4, <1>5 DEF Combine

\* The factor x - a takes the point a away.
LEMMA CombineShift ==
    ASSUME NEW s \in SUBSET Zn, NEW a \in s, NEW q \in [Zn -> Zn]
    PROVE  Combine(s, [x \in Zn |-> mul(add(x, neg(a)), q[x])]) = mul(neg(a), Combine(s \ {a}, q))
<1> DEFINE w == [x \in Zn |-> mul(add(x, neg(a)), q[x])]
           L == [i \in s |-> mul(lambda(i, s), w[i])]
           t == s \ {a}
           v == [i \in t |-> mul(lambda(i, t), q[i])]
           R == [i \in t |-> mul(neg(a), v[i])]
<1>1. \A i \in s : lambda(i, s) \in Zn /\ lambda(i, t) \in Zn
  BY Zenon, LambdaType
<1>2. \A i \in s : w[i] \in Zn /\ w[i] = mul(add(i, neg(a)), q[i])
  BY Zenon, Closed
<1>3. v \in [t -> Zn] /\ L \in [s -> Zn] /\ IsFiniteSet(s) /\ IsFiniteSet(t) /\ neg(a) \in Zn /\ a \in Zn
  BY Zenon, <1>1, <1>2, ZnFinite, Closed
<1>4. L[a] = 0
  <2>1. PICK l \in Zn, c \in Zn : l = lambda(a, s) /\ c = q[a]
    BY Zenon, <1>1
  <2>2. L[a] = mul(l, mul(add(a, neg(a)), c))
    BY Zenon, <2>1, <1>2
  <2>3. add(a, neg(a)) = 0 /\ mul(0, c) = 0 /\ mul(l, 0) = 0
    BY Zenon, <1>3, AddLaws, MulLaws
  <2> HIDE DEF L
  <2> QED BY Zenon, <2>2, <2>3
<1>5. Without(L, a) = R
  <2>1. ASSUME NEW i \in t PROVE mul(lambda(i, s), w[i]) = R[i]
    <3>1. PICK l \in Zn, m \in Zn, c \in Zn, e \in Zn, b \in Zn :
              l = lambda(i, s) /\ m = lambda(i, t) /\ c = q[i] /\ e = add(i, neg(a)) /\ b = neg(a)
      BY Zenon, <1>1, Closed
    <3>2. mul(lambda(i, s), w[i]) = mul(l, mul(e, c)) /\ R[i] = mul(b, mul(m, c))
      BY Zenon, <1>2, <3>1
    <3>3. mul(l, e) = mul(b, m)
      BY Zenon, <3>1, LambdaRemove
    <3>4. mul(l, mul(e, c)) = mul(mul(l, e), c) /\ mul(mul(b, m), c) = mul(b, mul(m, c))
      BY MulLaws
    <3> QED BY Zenon, <3>2, <3>3, <3>4
  <2>2. Without(L, a) = [i \in t |-> mul(lambda(i, s), w[i])]
    BY Zenon DEF Without
  <2> QED BY Zenon, <2>1, <2>2
<1>6. Total(L) = add(L[a], Total(Without(L, a))) /\ Total(Without(L, a)) \in Zn
  <2> HIDE DEF L, w
  <2> QED BY Zenon, <1>3, TotalStep
<1>7. Total(R) = mul(neg(a), Total(v))
  <2> HIDE DEF v
  <2> QED BY Zenon, <1>3, TotalScale
<1>8. Total(L) = mul(neg(a), Total(v))
  <2> HIDE DEF L, R, v
  <2> QED BY Zenon, <1>4, <1>5, <1>6, <1>7, AddLaws
<1> QED BY Zenon, <1>8 DEF Combine

\* The Lagrange coefficients add up to 1: with two points a and b,
\* (x - a) - (x - b) is the constant b - a.
LEMMA CombineOne == \A s \in SUBSET Zn : s # {} => Combine(s, [x \in Zn |-> 1]) = 1
<1> DEFINE one == [x \in Zn |-> 1]
           T == {s \in SUBSET Zn : s # {} => Combine(s, one) = 1}
<1>1. one \in [Zn -> Zn] /\ \A x \in Zn : one[x] = 1
  BY Zenon, Constants
<1>2. Inductive(T, Zn)
  <2>1. SUFFICES ASSUME NEW s \in SUBSET Zn, \A a \in s : s \ {a} \in T, s # {} PROVE Combine(s, one) = 1
    BY Zenon DEF Inductive
  <2>2. PICK a \in s : TRUE
    BY Zenon, <2>1
  <2>3. CASE s = {a}
    <3> DEFINE D == s \ {a}
               f == [j \in D |-> neg(j)]
               h == [j \in D |-> add(a, neg(j))]
               v == [i \in s |-> mul(lambda(i, s), one[i])]
    <3>1. D = {} /\ IsFiniteSet(D) /\ IsFiniteSet(s) /\ f \in [D -> Zn] /\ h \in [D -> Zn]
      BY Zenon, <2>3, ZnFinite
    <3>2. numerator(a, s) = Product(f) /\ denominator(a, s) = Product(h)
      BY Zenon DEF numerator, denominator, Others
    <3>3. Product(f) = 1 /\ Product(h) = 1
      <4> HIDE DEF D, f, h
      <4> QED BY Zenon, <3>1, ProductStep
    <3>4. inv(1) = 1
      <4>1. 1 \in Zn \ {0} /\ mul(1, 1) = 1
        BY Zenon, Constants, MulLaws
      <4>2. inv(1) \in Zn /\ mul(1, inv(1)) = 1
        BY Zenon, <4>1, InverseExists
      <4> QED BY Zenon, <4>1, <4>2, Cancel
    <3>5. lambda(a, s) = 1
      <4>1. mul(1, 1) = 1
        BY Zenon, Constants, MulLaws
      <4> QED BY Zenon, <4>1, <3>2, <3>3, <3>4 DEF lambda
    <3>6. v[a] = 1 /\ v \in [s -> Zn]
      <4>1. mul(1, 1) = 1 /\ 1 \in Zn
        BY Zenon, Constants, MulLaws
      <4> QED BY Zenon, <4>1, <3>5, <2>3, <1>1
    <3>7. Without(v, a) \in [D -> Zn]
      BY Zenon, <3>1 DEF Without
    <3>8. Total(v) = add(v[a], Total(Without(v, a)))
      <4> HIDE DEF v
      <4> QED BY <3>1, <3>6, TotalStep
    <3>9. Total(Without(v, a)) = 0
      <4> HIDE DEF v, D
      <4> QED BY Zenon, <3>1, <3>7, TotalStep
    <3>10. add(1, 0) = 1
      BY Zenon, Constants, AddLaws
    <3>11. Total(v) = 1
      <4> HIDE DEF v
      <4> QED BY Zenon, <3>6, <3>8, <3>9, <3>10
    <3> QED BY Zenon, <3>11 DEF Combine
  <2>4. CASE s # {a}
    <3>1. PICK b \in s : b # a
      BY Zenon, <2>2, <2>4
    <3>2. a \in Zn /\ b \in Zn /\ neg(a) \in Zn /\ neg(b) \in Zn /\ s \ {a} # {} /\ s \ {b} # {}
      BY Zenon, <3>1, Closed
    <3> DEFINE fa == [x \in Zn |-> mul(add(x, neg(a)), one[x])]
               fb == [x \in Zn |-> mul(add(x, neg(b)), one[x])]
               d == add(b, neg(a))
               w == [x \in Zn |-> add(fb[x], mul(d, one[x]))]
    <3>3. Combine(s, fa) = neg(a) /\ Combine(s, fb) = neg(b)
      <4>1. Combine(s \ {a}, one) = 1 /\ Combine(s \ {b}, one) = 1
        BY Zenon, <2>1, <3>1, <3>2
      <4>2. Combine(s, fa) = mul(neg(a), Combine(s \ {a}, one))
        BY Zenon, <1>1, CombineShift
      <4>3. Combine(s, fb) = mul(neg(b), Combine(s \ {b}, one))
        BY Zenon, <1>1, CombineShift
      <4>4. mul(neg(a), 1) = neg(a) /\ mul(neg(b), 1) = neg(b)
        BY Zenon, <3>2, MulLaws
      <4> HIDE DEF fa, fb, one
      <4> QED BY Zenon, <4>1, <4>2, <4>3, <4>4
    <3>4. d \in Zn \ {0}
      BY Zenon, <3>1, <3>2, Closed, NegLaws
    <3>5. \A x \in Zn : fa[x] = add(x, neg(a)) /\ fb[x] = add(x, neg(b))
      <4>1. \A x \in Zn : mul(add(x, neg(a)), 1) = add(x, neg(a)) /\ mul(add(x, neg(b)), 1) = add(x, neg(b))
        BY Zenon, <3>2, Closed, MulLaws
      <4> QED BY Zenon, <4>1, <1>1
    <3>6. w = fa
      <4>1. ASSUME NEW x \in Zn PROVE add(add(x, neg(b)), add(b, neg(a))) = add(x, neg(a))
        <5>1. PICK p \in Zn, q \in Zn : p = neg(a) /\ q = neg(b)
          BY Zenon, <3>2
        <5>2. add(add(x, q), add(b, p)) = add(x, add(q, add(b, p)))
          BY <3>2, Closed, AddLaws
        <5>3. add(q, add(b, p)) = add(add(q, b), p)
          BY <3>2, AddLaws
        <5>4. add(q, b) = add(b, q) /\ add(b, q) = 0 /\ add(0, p) = p
          BY Zenon, <5>1, <3>2, AddLaws
        <5> QED BY Zenon, <5>1, <5>2, <5>3, <5>4
      <4>2. mul(d, 1) = d
        BY Zenon, <3>4, MulLaws
      <4>3. ASSUME NEW x \in Zn PROVE add(fb[x], mul(d, one[x])) = fa[x]
        <5>1. fa[x] = add(x, neg(a)) /\ fb[x] = add(x, neg(b)) /\ one[x] = 1
          BY Zenon, <1>1, <3>5
        <5> HIDE DEF fa, fb, one
        <5> QED BY Zenon, <4>1, <4>2, <5>1
      <4> QED BY Zenon, <4>3
    <3>7. fb \in [Zn -> Zn]
      BY Zenon, <3>2, <3>5, Closed
    <3>8. Combine(s, w) = add(Combine(s, fb), mul(d, Combine(s, one)))
      <4> HIDE DEF d, fb, one
      <4>1. Combine(s, [x \in Zn |-> add(fb[x], mul(d, one[x]))]) = add(Combine(s, fb), mul(d, Combine(s, one)))
        BY <1>1, <3>4, <3>7, CombineLinear
      <4> QED BY Zenon, <4>1
    <3>9. Combine(s, one) \in Zn
      BY Zenon, <1>1, CombineType
    <3>10. add(neg(b), mul(d, Combine(s, one))) = add(neg(b), mul(d, 1))
      <4>1. add(neg(b), mul(d, Combine(s, one))) = neg(a)
        <5> HIDE DEF w, fa, fb, d, one
        <5> QED BY Zenon, <3>3, <3>6, <3>8
      <4>2. mul(d, 1) = d
        BY Zenon, <3>4, MulLaws
      <4>3. add(neg(b), add(b, neg(a))) = neg(a)
        <5>1. PICK p \in Zn, q \in Zn : p = neg(a) /\ q = neg(b)
          BY Zenon, <3>2
        <5>2. add(q, add(b, p)) = add(add(q, b), p)
          BY <3>2, AddLaws
        <5>3. add(q, b) = add(b, q) /\ add(b, q) = 0 /\ add(0, p) = p
          BY Zenon, <5>1, <3>2, AddLaws
        <5> QED BY Zenon, <5>1, <5>2, <5>3
      <4> QED BY Zenon, <4>1, <4>2, <4>3
    <3> HIDE DEF d, one
    <3>11. mul(d, Combine(s, one)) = mul(d, 1)
      BY Zenon, <3>2, <3>4, <3>9, <3>10, Constants, Closed, Cancel
    <3> QED BY Zenon, <3>4, <3>9, <3>11, Constants, Cancel
  <2> QED BY Zenon, <2>3, <2>4
<1>3. \A s \in SUBSET Zn : s \in T
  <2> HIDE DEF T
  <2> QED BY Zenon, <1>2, ZnFinite, SetInduction
<1> QED BY Zenon, <1>3

\* The values of a polynomial at as many points as it has coefficients combine
\* to its value at 0.
LEMMA Interpolation == \A s \in SUBSET Zn : \A f \in Poly(Cardinality(s)) : Combine(s, f) = f[0]
<1> DEFINE T == {s \in SUBSET Zn : \A f \in Poly(Cardinality(s)) : Combine(s, f) = f[0]}
           one == [x \in Zn |-> 1]
<1>1. Inductive(T, Zn)
  <2>1. SUFFICES ASSUME NEW s \in SUBSET Zn, \A a \in s : s \ {a} \in T, NEW f \in Poly(Cardinality(s))
                 PROVE  Combine(s, f) = f[0]
    BY Zenon DEF Inductive
  <2>2. CASE s = {}
    <3> DEFINE v == [i \in s |-> mul(lambda(i, s), f[i])]
    <3>1. f \in Poly(0)
      BY Zenon, <2>2, FS_EmptySet
    <3>2. f[0] = 0
      BY Zenon, <3>1, Constants, PolyZero
    <3>3. v \in [s -> Zn] /\ IsFiniteSet(s)
      BY Zenon, <2>2, ZnFinite
    <3>4. Total(v) = 0
      <4> HIDE DEF v
      <4> QED BY Zenon, <2>2, <3>3, TotalStep
    <3> QED BY Zenon, <3>2, <3>4 DEF Combine
  <2>3. ASSUME NEW a \in s PROVE Combine(s, f) = f[0]
    <3>1. PICK m \in Nat : m = Cardinality(s \ {a}) /\ Cardinality(s) = m + 1
      BY Zenon, CardinalityStep
    <3>2. a \in Zn /\ f \in Poly(m + 1)
      BY Zenon, <3>1
    <3>3. PICK q \in Poly(m) : \A x \in Zn : f[x] = add(f[a], mul(add(x, neg(a)), q[x]))
      BY Zenon, <3>2, PolyDivision
    <3>4. f \in [Zn -> Zn] /\ q \in [Zn -> Zn]
      BY Zenon DEF Poly
    <3>5. Combine(s \ {a}, q) = q[0]
      BY Zenon, <2>1, <3>1
    <3> DEFINE h == [x \in Zn |-> mul(add(x, neg(a)), q[x])]
               w == [x \in Zn |-> add(h[x], mul(f[a], one[x]))]
    <3>6. \A x \in Zn : h[x] \in Zn /\ h[x] = mul(add(x, neg(a)), q[x])
      BY Zenon, <3>2, <3>4, Closed
    <3>7. h \in [Zn -> Zn] /\ one \in [Zn -> Zn] /\ f[a] \in Zn
      BY Zenon, <3>2, <3>4, <3>6, Constants
    <3>8. w = f
      <4>1. ASSUME NEW x \in Zn PROVE w[x] = f[x]
        <5>1. w[x] = add(h[x], mul(f[a], 1)) /\ f[x] = add(f[a], h[x])
          BY Zenon, <3>3, <3>6
        <5>2. mul(f[a], 1) = f[a] /\ add(h[x], f[a]) = add(f[a], h[x])
          BY Zenon, <3>6, <3>7, MulLaws, AddLaws
        <5> HIDE DEF w, h
        <5> QED BY Zenon, <5>1, <5>2
      <4> HIDE DEF h
      <4> QED BY Zenon, <4>1, <3>4
    <3>9. Combine(s, w) = add(Combine(s, h), mul(f[a], Combine(s, one)))
      <4> HIDE DEF h, one
      <4>1. Combine(s, [x \in Zn |-> add(h[x], mul(f[a], one[x]))]) = add(Combine(s, h), mul(f[a], Combine(s, one)))
        BY Zenon, <3>7, CombineLinear
      <4> QED BY Zenon, <4>1
    <3>10. Combine(s, h) = mul(neg(a), q[0])
      BY Zenon, <3>4, <3>5, CombineShift
    <3>11. Combine(s, one) = 1
      BY Zenon, CombineOne
    <3>12. f[0] = add(f[a], mul(neg(a), q[0]))
      <4>1. add(0, neg(a)) = neg(a)
        BY Zenon, <3>2, Closed, AddLaws
      <4> QED BY Zenon, <3>3, <4>1, Constants
    <3>13. mul(f[a], 1) = f[a] /\ add(mul(neg(a), q[0]), f[a]) = add(f[a], mul(neg(a), q[0]))
      <4>1. mul(neg(a), q[0]) \in Zn
        BY Zenon, <3>2, <3>4, Closed, Constants
      <4> QED BY Zenon, <4>1, <3>7, MulLaws, AddLaws
    <3> HIDE DEF w, h, one
    <3> QED BY Zenon, <3>8, <3>9, <3>10, <3>11, <3>12, <3>13
  <2> QED BY Zenon, <2>2, <2>3
<1>2. \A s \in SUBSET Zn : s \in T
  <2> HIDE DEF T
  <2> QED BY Zenon, <1>1, ZnFinite, SetInduction
<1> QED BY Zenon, <1>2

-----------------------------------------------------------------------------
(* aggregateShares.                                                        *)

\* Two factors change places.
LEMMA MulSwap == \A z, b, l \in Zn : mul(mul(z, b), l) = mul(z, mul(l, b))
  BY MulLaws

\* What the user gets from shares of a polynomial's values.
LEMMA AggregatePoly ==
    ASSUME NEW D \in SUBSET Zn, NEW f \in Poly(Cardinality(D)), NEW z \in Zn
    PROVE  aggregateShares([j \in D |-> mul(z, f[j])]) = mul(z, f[0])
<1> DEFINE shares == [j \in D |-> mul(z, f[j])]
<1>1. f \in [Zn -> Zn]
  BY Zenon DEF Poly
<1>2. shares \in [D -> Zn] /\ \A j \in D : shares[j] = mul(z, f[j])
  BY Zenon, <1>1, Closed
<1> HIDE DEF shares
<1>3. aggregateShares(shares) = Total([i \in D |-> mul(shares[i], lambda(i, D))])
  <2>1. DOMAIN shares = D
    BY Zenon, <1>2
  <2> QED BY Zenon, <2>1 DEF aggregateShares, pow
<1> DEFINE v == [i \in D |-> mul(lambda(i, D), f[i])]
<1>4. ASSUME NEW i \in D PROVE v[i] \in Zn /\ mul(shares[i], lambda(i, D)) = mul(z, v[i])
  <2>1. PICK l \in Zn, b \in Zn : l = lambda(i, D) /\ b = f[i]
    BY Zenon, <1>1, LambdaType
  <2>2. v[i] = mul(l, b) /\ mul(shares[i], lambda(i, D)) = mul(mul(z, b), l)
    BY Zenon, <1>2, <2>1
  <2>3. mul(mul(z, b), l) = mul(z, mul(l, b)) /\ mul(l, b) \in Zn
    <3>1. mul(l, b) \in Zn
      BY Zenon, Closed
    <3> QED BY <3>1, MulSwap
  <2> HIDE DEF v
  <2> QED BY Zenon, <2>2, <2>3
<1>5. v \in [D -> Zn] /\ IsFiniteSet(D)
  BY Zenon, <1>4, ZnFinite
<1>6. Total([i \in D |-> mul(shares[i], lambda(i, D))]) = Total([i \in D |-> mul(z, v[i])])
  <2>1. [i \in D |-> mul(shares[i], lambda(i, D))] = [i \in D |-> mul(z, v[i])]
    <3> HIDE DEF v
    <3> QED BY Zenon, <1>4
  <2> QED BY Zenon, <2>1
<1>7. Total([i \in D |-> mul(z, v[i])]) = mul(z, Total(v))
  <2> HIDE DEF v
  <2> QED BY Zenon, <1>5, TotalScale
<1>8. Total(v) = f[0]
  <2>1. Combine(D, f) = f[0]
    BY Zenon, Interpolation
  <2> QED BY Zenon, <2>1 DEF Combine
<1> HIDE DEF v
<1> QED BY Zenon, <1>3, <1>6, <1>7, <1>8 DEF shares
=============================================================================
