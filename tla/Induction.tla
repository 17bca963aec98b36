------------------------------ MODULE Induction -----------------------------
(***************************************************************************)
(* Induction over the natural numbers and over finite sets in the form the *)
(* provers can use: of sets and functions, where the theorems of the       *)
(* library are of operators.  From the well-foundedness of the natural     *)
(* numbers follow induction, functions that are defined by recursion,      *)
(* folds over finite sets, and sums.  The last section is of division.     *)
(***************************************************************************)
EXTENDS Integers, FiniteSetTheorems, TLAPS

\* A set that has 0, and with each number the next one, has all numbers.
LEMMA SetInduction ==
  ASSUME NEW T, 0 \in T, \A n \in Nat : n \in T => n + 1 \in T
  PROVE  Nat \subseteq T
<1> SUFFICES ASSUME Nat \ T # {} PROVE FALSE
  OBVIOUS
<1>1. PICK x \in Nat \ T : \A y \in Nat \ T : <<y, x>> \notin OpToRel(<, Nat)
  BY NatLessThanWellFounded, WFMin, Zenon
<1>2. \A y \in Nat \ T : ~(y < x)
  BY <1>1 DEF OpToRel
<1>3. x # 0 /\ x - 1 \in Nat /\ x - 1 < x
  OBVIOUS
<1>4. (x - 1) + 1 = x
  OBVIOUS
<1> QED
  BY <1>2, <1>3, <1>4

\* There is a function that starts with base and goes on by step.
LEMMA Recursion ==
  ASSUME NEW S, NEW base \in S, NEW step \in [S -> S]
  PROVE  \E f \in [Nat -> S] :
           f[0] = base /\ \A n \in Nat : f[n + 1] = step[f[n]]
<1> DEFINE Good(g, n) == /\ g \in [0..n -> S] /\ g[0] = base
                         /\ \A m \in 0..(n - 1) : g[m + 1] = step[g[m]]
<1>1. \A n \in Nat : \E g \in [0..n -> S] : Good(g, n)
  <2> DEFINE T == {n \in Nat : \E g \in [0..n -> S] : Good(g, n)}
  <2>1. 0 \in T
    <3> DEFINE g == [m \in 0..0 |-> base]
    <3>1. g \in [0..0 -> S] /\ Good(g, 0)
      OBVIOUS
    <3> QED
      BY <3>1
  <2>2. ASSUME NEW n \in Nat, n \in T
        PROVE  n + 1 \in T
    <3>1. PICK g \in [0..n -> S] : Good(g, n)
      BY <2>2
    <3> DEFINE h == [m \in 0..(n + 1) |-> IF m <= n THEN g[m] ELSE step[g[n]]]
    <3>2. h \in [0..(n + 1) -> S]
      OBVIOUS
    <3>3. h[0] = base
      BY <3>1
    <3>4. ASSUME NEW m \in 0..((n + 1) - 1)
          PROVE  h[m + 1] = step[h[m]]
      <4>1. h[m] = g[m] /\ m \in 0..n
        OBVIOUS
      <4>2. CASE m = n
        BY <4>1, <4>2
      <4>3. CASE m # n
        <5>1. m \in 0..(n - 1) /\ h[m + 1] = g[m + 1]
          BY <4>3
        <5> QED
          BY <3>1, <4>1, <5>1
      <4> QED
        BY <4>2, <4>3
    <3>5. Good(h, n + 1)
      BY <3>2, <3>3, <3>4
    <3> HIDE DEF h
    <3> QED
      BY <3>2, <3>5
  <2> HIDE DEF T
  <2>3. Nat \subseteq T
    BY <2>1, <2>2, SetInduction
  <2> QED
    BY <2>3 DEF T
<1>2. ASSUME NEW n \in Nat, NEW k \in Nat, NEW g, NEW h, Good(g, n), Good(h, k)
      PROVE  \A m \in Nat : m <= n /\ m <= k => g[m] = h[m]
  <2> DEFINE T == {m \in Nat : m <= n /\ m <= k => g[m] = h[m]}
  <2>1. 0 \in T
    BY <1>2
  <2>2. ASSUME NEW m \in Nat, m \in T
        PROVE  m + 1 \in T
    <3> SUFFICES ASSUME m + 1 <= n, m + 1 <= k PROVE g[m + 1] = h[m + 1]
      OBVIOUS
    <3>1. m \in 0..(n - 1) /\ m \in 0..(k - 1) /\ g[m] = h[m]
      BY <2>2
    <3> QED
      BY <1>2, <3>1
  <2> HIDE DEF T
  <2>3. Nat \subseteq T
    BY <2>1, <2>2, SetInduction
  <2> QED
    BY <2>3 DEF T
<1> DEFINE f == [n \in Nat |-> (CHOOSE g \in [0..n -> S] : Good(g, n))[n]]
           At(n) == CHOOSE g \in [0..n -> S] : Good(g, n)
<1>3. \A n \in Nat : Good(At(n), n) /\ f[n] = At(n)[n]
  BY <1>1
<1> HIDE DEF At, f
<1>4. f \in [Nat -> S]
  <2>1. \A n \in Nat : f[n] \in S
    BY <1>3
  <2> QED
    BY <2>1 DEF f
<1>5. f[0] = base
  BY <1>3
<1>6. ASSUME NEW n \in Nat PROVE f[n + 1] = step[f[n]]
  <2>1. n + 1 \in Nat /\ n <= n + 1 /\ n <= n /\ n \in 0..((n + 1) - 1)
    OBVIOUS
  <2>2. At(n)[n] = At(n + 1)[n]
    <3>1. Good(At(n), n) /\ Good(At(n + 1), n + 1)
      BY <1>3, <2>1
    <3> HIDE DEF Good
    <3> QED
      BY <1>2, <2>1, <3>1
  <2>3. At(n + 1)[n + 1] = step[At(n + 1)[n]]
    BY <1>3, <2>1
  <2> QED
    BY <1>3, <2>1, <2>2, <2>3
<1> QED
  BY <1>4, <1>5, <1>6

-----------------------------------------------------------------------------
(* Finite sets.                                                            *)

\* A set of sets that has the empty set, and with each subset of a finite set
\* the one that has another element, has all subsets of it.
LEMMA SubsetInduction ==
  ASSUME NEW D, IsFiniteSet(D), NEW T, {} \in T,
         \A s \in SUBSET D : \A x \in D \ s : s \in T => s \union {x} \in T
  PROVE  SUBSET D \subseteq T
<1> DEFINE U == {n \in Nat : \A s \in SUBSET D : Cardinality(s) = n => s \in T}
<1>1. 0 \in U
  <2>1. \A s \in SUBSET D : Cardinality(s) = 0 => s = {}
    BY FS_EmptySet, FS_Subset
  <2> QED
    BY <2>1
<1>2. ASSUME NEW n \in Nat, n \in U
      PROVE  n + 1 \in U
  <2> SUFFICES ASSUME NEW s \in SUBSET D, Cardinality(s) = n + 1
               PROVE  s \in T
    OBVIOUS
  <2>1. IsFiniteSet(s) /\ s # {}
    BY FS_Subset, FS_EmptySet
  <2>2. PICK x \in s : TRUE
    BY <2>1
  <2>3. Cardinality(s \ {x}) = n
    <3>1. Cardinality(s \ {x}) = Cardinality(s) - 1
      BY <2>1, <2>2, FS_RemoveElement
    <3>2. (n + 1) - 1 = n
      OBVIOUS
    <3> QED
      BY <3>1, <3>2
  <2>4. s \ {x} \in T /\ s \ {x} \in SUBSET D /\ x \in D \ (s \ {x})
    BY <1>2, <2>2, <2>3
  <2>5. (s \ {x}) \union {x} = s
    BY <2>2
  <2> QED
    BY <2>4, <2>5
<1> HIDE DEF U
<1>3. Nat \subseteq U
  BY <1>1, <1>2, SetInduction
<1>4. ASSUME NEW s \in SUBSET D
      PROVE  s \in T
  <2>1. Cardinality(s) \in Nat
    BY FS_Subset, FS_CardinalityType
  <2> QED
    BY <1>3, <2>1 DEF U
<1> QED
  BY <1>4

\* iter takes one element after the other from a set, in the order of pick, and
\* does with each what step does.
Iterates(iter, D, base, step, pick) ==
  \A s \in SUBSET D :
    iter[s] = IF s = {} THEN base ELSE step[pick[s]][iter[s \ {pick[s]}]]

Foldable(D, V, base, step, pick) ==
  /\ IsFiniteSet(D) /\ base \in V /\ step \in [D -> [V -> V]]
  /\ \A s \in SUBSET D : s # {} => pick[s] \in s

\* From a finite set this can be done.
LEMMA Folding ==
  ASSUME NEW D, NEW V, NEW base, NEW step, NEW pick, Foldable(D, V, base, step, pick)
  PROVE  \E iter \in [SUBSET D -> V] : Iterates(iter, D, base, step, pick)
<1>0. /\ IsFiniteSet(D) /\ base \in V /\ step \in [D -> [V -> V]]
      /\ \A s \in SUBSET D : s # {} => pick[s] \in s
  BY DEF Foldable
<1> DEFINE Good(f, s) ==
             f[s] = IF s = {} THEN base ELSE step[pick[s]][f[s \ {pick[s]}]]
           U == {n \in Nat : \E f \in [SUBSET D -> V] :
                   \A s \in SUBSET D : Cardinality(s) <= n => Good(f, s)}
<1>1. \A s \in SUBSET D : IsFiniteSet(s) /\ Cardinality(s) \in Nat
  BY <1>0, FS_Subset, FS_CardinalityType
<1>2. \A s \in SUBSET D : s # {} =>
        /\ pick[s] \in s /\ pick[s] \in D /\ s \ {pick[s]} \in SUBSET D
        /\ Cardinality(s \ {pick[s]}) = Cardinality(s) - 1
  BY <1>0, <1>1, FS_RemoveElement
<1>3. 0 \in U
  <2> DEFINE f == [s \in SUBSET D |-> base]
  <2>1. f \in [SUBSET D -> V]
    BY <1>0
  <2>2. \A s \in SUBSET D : Cardinality(s) <= 0 => s = {}
    BY <1>1, FS_EmptySet
  <2>3. \A s \in SUBSET D : Cardinality(s) <= 0 => Good(f, s)
    BY <2>2
  <2> QED
    BY <2>1, <2>3
<1>4. ASSUME NEW n \in Nat, n \in U
      PROVE  n + 1 \in U
  <2>1. PICK f \in [SUBSET D -> V] :
          \A s \in SUBSET D : Cardinality(s) <= n => Good(f, s)
    BY <1>4
  <2> DEFINE g == [s \in SUBSET D |->
                     IF Cardinality(s) <= n THEN f[s]
                     ELSE IF Cardinality(s) = n + 1 THEN step[pick[s]][f[s \ {pick[s]}]]
                     ELSE base]
  <2>2. ASSUME NEW s \in SUBSET D
        PROVE  g[s] \in V
    <3>1. CASE Cardinality(s) = n + 1
      <4>1. s # {}
        <5>1. Cardinality({}) = 0 /\ n + 1 # 0
          BY FS_EmptySet
        <5> QED
          BY <3>1, <5>1
      <4>2. step[pick[s]] \in [V -> V] /\ f[s \ {pick[s]}] \in V
        BY <1>0, <1>2, <4>1
      <4> QED
        BY <3>1, <4>2
    <3>2. CASE Cardinality(s) # n + 1
      BY <1>0, <2>1, <3>2
    <3> QED
      BY <3>1, <3>2
  <2>3. g \in [SUBSET D -> V]
    BY <2>2
  <2>4. ASSUME NEW s \in SUBSET D, Cardinality(s) <= n + 1
        PROVE  Good(g, s)
    <3>1. CASE s = {}
      <4>1. Cardinality(s) <= n /\ g[s] = f[s]
        BY <3>1, FS_EmptySet
      <4>2. f[s] = base
        BY <2>1, <3>1, <4>1
      <4> QED
        BY <3>1, <4>1, <4>2
    <3>2. CASE s # {}
      <4> DEFINE t == s \ {pick[s]}
      <4>1. t \in SUBSET D /\ Cardinality(t) = Cardinality(s) - 1 /\ Cardinality(s) \in Nat
        BY <1>1, <1>2, <3>2
      <4>2. Cardinality(t) <= n
        BY <2>4, <4>1
      <4>3. g[t] = f[t]
        BY <4>1, <4>2
      <4>4. CASE Cardinality(s) <= n
        <5>1. g[s] = f[s] /\ f[s] = step[pick[s]][f[t]]
          BY <2>1, <3>2, <4>4
        <5> QED
          BY <3>2, <4>3, <5>1
      <4>5. CASE Cardinality(s) = n + 1
        <5>1. g[s] = step[pick[s]][f[t]]
          BY <4>5
        <5> QED
          BY <3>2, <4>3, <5>1
      <4>6. Cardinality(s) <= n \/ Cardinality(s) = n + 1
        BY <2>4, <4>1
      <4> QED
        BY <4>4, <4>5, <4>6
    <3> QED
      BY <3>1, <3>2
  <2> HIDE DEF g, Good
  <2> QED
    BY <2>3, <2>4
<1> HIDE DEF U
<1>5. Nat \subseteq U
  BY <1>3, <1>4, SetInduction
<1>6. Cardinality(D) \in U /\ \A s \in SUBSET D : Cardinality(s) <= Cardinality(D)
  BY <1>0, <1>5, FS_Subset, FS_CardinalityType
<1>7. PICK f \in [SUBSET D -> V] :
        \A s \in SUBSET D : Cardinality(s) <= Cardinality(D) => Good(f, s)
  BY <1>6 DEF U
<1> QED
  BY <1>6, <1>7 DEF Iterates

-----------------------------------------------------------------------------
(* Sums.                                                                   *)

\* val gives each element of D a number, pick an element of each set of them.
Addable(D, val, pick) ==
  /\ IsFiniteSet(D) /\ val \in [D -> Nat]
  /\ \A s \in SUBSET D : s # {} => pick[s] \in s

\* The numbers of a set, added up in the order of pick.
Adds(total, D, val, pick) ==
  \A s \in SUBSET D :
    total[s] = IF s = {} THEN 0 ELSE val[pick[s]] + total[s \ {pick[s]}]

\* There is such a total.
LEMMA AddsUp ==
  ASSUME NEW D, NEW val, NEW pick, Addable(D, val, pick)
  PROVE  \E total \in [SUBSET D -> Nat] : Adds(total, D, val, pick)
<1> DEFINE step == [x \in D |-> [sum \in Nat |-> val[x] + sum]]
<1>1. \A x \in D : val[x] \in Nat
  BY DEF Addable
<1>2. step \in [D -> [Nat -> Nat]]
  BY <1>1
<1>3. Foldable(D, Nat, 0, step, pick)
  BY <1>2 DEF Foldable, Addable
<1>4. PICK total \in [SUBSET D -> Nat] : Iterates(total, D, 0, step, pick)
  <2> DEFINE V == Nat
             zero == 0
  <2>1. Foldable(D, V, zero, step, pick)
    BY <1>3
  <2> HIDE DEF step, V, zero
  <2>2. \E total \in [SUBSET D -> V] : Iterates(total, D, zero, step, pick)
    BY <2>1, Folding, Zenon
  <2> QED
    BY <2>2 DEF V, zero
<1>5. ASSUME NEW s \in SUBSET D
      PROVE  total[s] = IF s = {} THEN 0 ELSE val[pick[s]] + total[s \ {pick[s]}]
  <2>1. total[s] = IF s = {} THEN 0 ELSE step[pick[s]][total[s \ {pick[s]}]]
    BY <1>4 DEF Iterates
  <2>2. CASE s # {}
    <3>1. pick[s] \in D /\ total[s \ {pick[s]}] \in Nat
      BY <2>2 DEF Addable
    <3>2. step[pick[s]][total[s \ {pick[s]}]] = val[pick[s]] + total[s \ {pick[s]}]
      BY <3>1
    <3> QED
      BY <2>1, <2>2, <3>2
  <2> QED
    BY <2>1, <2>2
<1> QED
  BY <1>5 DEF Adds

\* Any number of a set may be the first that is taken.
AnyFirst(total, D, val) ==
  \A s \in SUBSET D : \A x \in s : total[s] = val[x] + total[s \ {x}]

\* A sum is a number.
LEMMA AddsType ==
  ASSUME NEW D, NEW val, NEW pick, Addable(D, val, pick), NEW total, Adds(total, D, val, pick)
  PROVE  \A s \in SUBSET D : total[s] \in Nat
<1> DEFINE T == {n \in Nat : \A s \in SUBSET D : Cardinality(s) = n => total[s] \in Nat}
<1>1. \A s \in SUBSET D : IsFiniteSet(s) /\ Cardinality(s) \in Nat
  BY FS_Subset, FS_CardinalityType DEF Addable
<1>2. 0 \in T
  <2>1. \A s \in SUBSET D : Cardinality(s) = 0 => s = {}
    BY <1>1, FS_EmptySet
  <2>2. total[{}] = 0
    BY DEF Adds
  <2>3. \A s \in SUBSET D : Cardinality(s) = 0 => total[s] \in Nat
    BY <2>1, <2>2
  <2> QED
    BY <2>3
<1>3. ASSUME NEW n \in Nat, n \in T
      PROVE  n + 1 \in T
  <2> SUFFICES ASSUME NEW s \in SUBSET D, Cardinality(s) = n + 1
               PROVE  total[s] \in Nat
    OBVIOUS
  <2>1. s # {}
    <3>1. Cardinality({}) = 0 /\ n + 1 # 0
      BY FS_EmptySet
    <3> QED
      BY <3>1
  <2>2. pick[s] \in s /\ total[s] = val[pick[s]] + total[s \ {pick[s]}]
    BY <2>1 DEF Adds, Addable
  <2>3. Cardinality(s \ {pick[s]}) = n /\ s \ {pick[s]} \in SUBSET D
    <3>1. Cardinality(s \ {pick[s]}) = Cardinality(s) - 1
      BY <1>1, <2>2, FS_RemoveElement
    <3> QED
      BY <3>1
  <2>4. total[s \ {pick[s]}] \in Nat /\ val[pick[s]] \in Nat
    BY <1>3, <2>2, <2>3 DEF Addable
  <2> QED
    BY <2>2, <2>4
<1> HIDE DEF T
<1>4. Nat \subseteq T
  BY <1>2, <1>3, SetInduction
<1> QED
  BY <1>1, <1>4 DEF T

\* It does not matter which of them is taken first.
LEMMA AnyOrder ==
  ASSUME NEW D, NEW val, NEW pick, Addable(D, val, pick), NEW total, Adds(total, D, val, pick)
  PROVE  AnyFirst(total, D, val)
<1> DEFINE Any(s) == \A x \in s : total[s] = val[x] + total[s \ {x}]
           T == {n \in Nat : \A s \in SUBSET D : Cardinality(s) = n => Any(s)}
<1>0. \A s \in SUBSET D : total[s] \in Nat
  BY AddsType
<1>1. \A s \in SUBSET D : IsFiniteSet(s) /\ Cardinality(s) \in Nat
  BY FS_Subset, FS_CardinalityType DEF Addable
<1>2. 0 \in T
  <2>1. \A s \in SUBSET D : Cardinality(s) = 0 => s = {}
    BY <1>1, FS_EmptySet
  <2> QED
    BY <2>1
<1>3. ASSUME NEW n \in Nat, n \in T
      PROVE  n + 1 \in T
  <2> SUFFICES ASSUME NEW s \in SUBSET D, Cardinality(s) = n + 1, NEW x \in s
               PROVE  total[s] = val[x] + total[s \ {x}]
    OBVIOUS
  <2> DEFINE p == pick[s]
             rest == (s \ {p}) \ {x}
  <2>1. p \in s /\ total[s] = val[p] + total[s \ {p}]
    BY DEF Adds, Addable
  <2>2. CASE x = p
    BY <2>1, <2>2
  <2>3. CASE x # p
    <3>1. \A y \in s : s \ {y} \in SUBSET D /\ Cardinality(s \ {y}) = n
      <4>1. \A y \in s : Cardinality(s \ {y}) = Cardinality(s) - 1
        BY <1>1, FS_RemoveElement
      <4> QED
        BY <4>1
    <3>2. x \in s \ {p} /\ p \in s \ {x} /\ rest = (s \ {x}) \ {p} /\ rest \in SUBSET D
      BY <2>1, <2>3
    <3>3. Any(s \ {p}) /\ Any(s \ {x})
      BY <1>3, <2>1, <3>1
    <3>4. total[s \ {p}] = val[x] + total[rest] /\ total[s \ {x}] = val[p] + total[rest]
      BY <3>2, <3>3
    <3>5. total[rest] \in Nat /\ val[x] \in Nat /\ val[p] \in Nat
      BY <1>0, <2>1, <3>2 DEF Addable
    <3> DEFINE a == total[rest]
               b == total[s \ {p}]
               c == total[s \ {x}]
    <3>6. b = val[x] + a /\ c = val[p] + a /\ total[s] = val[p] + b /\ a \in Nat
      BY <2>1, <3>4, <3>5
    <3> HIDE DEF p, rest, a, b, c
    <3>7. total[s] = val[x] + c
      BY <3>5, <3>6
    <3> QED
      BY <3>7 DEF c
  <2> QED
    BY <2>2, <2>3
<1> HIDE DEF T
<1>4. Nat \subseteq T
  BY <1>2, <1>3, SetInduction
<1>5. ASSUME NEW s \in SUBSET D
      PROVE  Any(s)
  <2>1. Cardinality(s) \in T
    BY <1>1, <1>4
  <2> QED
    BY <2>1 DEF T
<1> QED
  BY <1>5 DEF AnyFirst

\* The sums of the numbers up to each.
Running(h, n, val) ==
  /\ h \in [0..n -> Nat] /\ h[0] = 0
  /\ \A k \in 1..n : h[k] = h[k - 1] + val[k]

\* The numbers of an interval, added up from the first to the last.
LEMMA InOrder ==
  ASSUME NEW n \in Nat, NEW val, NEW pick, Addable(1..n, val, pick),
         NEW total, Adds(total, 1..n, val, pick)
  PROVE  \E h : Running(h, n, val) /\ h[n] = total[1..n]
<1> DEFINE D == 1..n
           h == [k \in 0..n |-> total[1..k]]
<1>1. Addable(D, val, pick) /\ Adds(total, D, val, pick) /\ val \in [D -> Nat]
  BY DEF Addable
<1>2. \A s \in SUBSET D : total[s] \in Nat
  <2> HIDE DEF D, h
  <2> QED
    BY <1>1, AddsType
<1>3. AnyFirst(total, D, val)
  <2> HIDE DEF D, h
  <2> QED
    BY <1>1, AnyOrder, Zenon
<1>4. \A k \in 0..n : 1..k \in SUBSET D
  OBVIOUS
<1>5. h \in [0..n -> Nat]
  BY <1>2, <1>4
<1>6. h[0] = 0
  <2>1. total[{}] = 0 /\ {} \in SUBSET D
    BY <1>1 DEF Adds
  <2>2. 1..0 = {} /\ 0 \in 0..n
    OBVIOUS
  <2> QED
    BY <2>1, <2>2
<1>7. ASSUME NEW k \in 1..n
      PROVE  h[k] = h[k - 1] + val[k]
  <2>1. /\ k \in 0..n /\ k - 1 \in 0..n /\ k \in 1..k /\ (1..k) \ {k} = 1..(k - 1)
    OBVIOUS
  <2>2. total[1..k] = val[k] + total[1..(k - 1)]
    BY <1>3, <1>4, <2>1 DEF AnyFirst
  <2>3. /\ h[k] = total[1..k] /\ h[k - 1] = total[1..(k - 1)]
        /\ val[k] \in Nat /\ total[1..(k - 1)] \in Nat
    BY <1>1, <1>2, <1>4, <2>1
  <2> HIDE DEF h
  <2> QED
    BY <2>2, <2>3
<1>8. h[n] = total[1..n]
  OBVIOUS
<1> HIDE DEF h
<1> QED
  BY <1>5, <1>6, <1>7, <1>8 DEF Running

-----------------------------------------------------------------------------
(* Division.                                                               *)

\* What is left of a division, and the quotient.
LEMMA Division ==
  ASSUME NEW x \in Nat, NEW m \in Nat, m > 0
  PROVE  /\ x \div m \in Nat /\ x % m \in 0..(m - 1)
         /\ x = m * (x \div m) + (x % m)
OBVIOUS

\* There is but one quotient.
LEMMA Quotient ==
  ASSUME NEW m \in Nat, m > 0, NEW q \in Nat, NEW r \in 0..(m - 1)
  PROVE  (m * q + r) \div m = q /\ (m * q + r) % m = r
<1> DEFINE x == m * q + r
           p == x \div m
           s == x % m
<1>1. x \in Nat
  OBVIOUS
<1>2. p \in Nat /\ s \in 0..(m - 1) /\ x = m * p + s
  BY <1>1, Division
<1>3. m * q + r = m * p + s
  BY <1>2
<1> HIDE DEF p, s, x
<1>4. ~(p < q)
  <2> SUFFICES ASSUME p < q PROVE FALSE
    OBVIOUS
  <2>1. m * q >= m * (p + 1)
    BY <1>2
  <2>2. m * (p + 1) = m * p + m
    BY <1>2
  <2>3. m * p \in Int /\ m * q \in Int
    BY <1>2
  <2> QED
    BY <1>2, <1>3, <2>1, <2>2, <2>3
<1>5. ~(q < p)
  <2> SUFFICES ASSUME q < p PROVE FALSE
    OBVIOUS
  <2>1. m * p >= m * (q + 1)
    BY <1>2
  <2>2. m * (q + 1) = m * q + m
    BY <1>2
  <2>3. m * p \in Int /\ m * q \in Int
    BY <1>2
  <2> QED
    BY <1>2, <1>3, <2>1, <2>2, <2>3
<1>6. p = q
  BY <1>2, <1>4, <1>5
<1>7. s = r
  BY <1>2, <1>3, <1>6
<1> QED
  BY <1>6, <1>7 DEF p, s, x

\* Nothing between two multiples is a multiple.
LEMMA NoMultiple ==
  ASSUME NEW m \in Nat, NEW a \in Nat, NEW b \in Nat, NEW d \in Int,
         d # 0, -m < d, d < m, m * a = m * b + d
  PROVE  FALSE
<1>1. CASE a <= b
  <2>1. CASE a = b
    BY <2>1
  <2>2. CASE a # b
    <3>1. m * b >= m * (a + 1)
      BY <1>1, <2>2
    <3>2. m * (a + 1) = m * a + m /\ m * a \in Int /\ m * b \in Int
      OBVIOUS
    <3> QED
      BY <3>1, <3>2
  <2> QED
    BY <2>1, <2>2
<1>2. CASE b < a
    <3>1. m * a >= m * (b + 1)
      BY <1>2
    <3>2. m * (b + 1) = m * b + m /\ m * a \in Int /\ m * b \in Int
      OBVIOUS
    <3> QED
      BY <3>1, <3>2
<1> QED
  BY <1>1, <1>2
=============================================================================
