-------------------------- MODULE ProcContentsProofs ------------------------
(***************************************************************************)
(* Theorems about what the files of /proc show: AddressPrinter, for        *)
(* addresses of any number of hextets; JsonEscape, for any strings, any    *)
(* buffer and whatever comes before them; JsonEntry, for any members that  *)
(* are there and any number of items in them.                              *)
(***************************************************************************)
EXTENDS AddressPrinter, JsonEscape, JsonEntry, Induction, SequenceTheorems

-----------------------------------------------------------------------------
(* Sequences put one after the other.                                      *)

\* FlattenSeq is what its recursion comes to.
LEMMA Flattened ==
  ASSUME NEW S, NEW seqs, Len(seqs) \in Nat \ {0},
         NEW flat \in [1..Len(seqs) -> S], flat[1] = seqs[1],
         \A k \in 2..Len(seqs) : flat[k] = flat[k - 1] \o seqs[k]
  PROVE  FlattenSeq(seqs) = flat[Len(seqs)]
<1> DEFINE n == Len(seqs)
           Eq(f) == f = [k \in 1..n |-> IF k = 1 THEN seqs[k] ELSE f[k - 1] \o seqs[k]]
           g == CHOOSE f : Eq(f)
<1>1. n \in Nat \ {0} /\ flat \in [1..n -> S] /\ flat[1] = seqs[1]
  OBVIOUS
<1>2. \A k \in 2..n : flat[k] = flat[k - 1] \o seqs[k]
  OBVIOUS
<1>3. FlattenSeq(seqs) = g[n]
  BY DEF FlattenSeq
<1> HIDE DEF n
<1>4. Eq(flat)
  <2>1. \A k \in 1..n : flat[k] = IF k = 1 THEN seqs[k] ELSE flat[k - 1] \o seqs[k]
    <3> TAKE k \in 1..n
    <3>1. k # 1 => k \in 2..n
      BY <1>1
    <3> QED
      BY <1>1, <1>2, <3>1
  <2> QED
    BY <1>1, <2>1
<1>5. Eq(g)
  <2> HIDE DEF Eq
  <2> QED
    BY <1>4
<1>6. \A k \in 1..n : g[k] = IF k = 1 THEN seqs[k] ELSE g[k - 1] \o seqs[k]
  BY <1>5
<1> HIDE DEF g
<1> DEFINE T == {k \in Nat : k + 1 \in 1..n => g[k + 1] = flat[k + 1]}
<1>7. 0 \in T
  BY <1>1, <1>6
<1>8. ASSUME NEW k \in Nat, k \in T
      PROVE  k + 1 \in T
  <2> SUFFICES ASSUME (k + 1) + 1 \in 1..n
               PROVE  g[(k + 1) + 1] = flat[(k + 1) + 1]
    OBVIOUS
  <2>1. k + 1 \in 1..n /\ ((k + 1) + 1) - 1 = k + 1 /\ (k + 1) + 1 # 1 /\ (k + 1) + 1 \in 2..n
    BY <1>1
  <2>2. g[k + 1] = flat[k + 1]
    BY <1>8, <2>1
  <2>3. g[(k + 1) + 1] = g[k + 1] \o seqs[(k + 1) + 1]
    BY <1>6, <2>1
  <2>4. flat[(k + 1) + 1] = flat[k + 1] \o seqs[(k + 1) + 1]
    BY <1>2, <2>1
  <2> QED
    BY <2>2, <2>3, <2>4
<1> HIDE DEF T
<1>9. Nat \subseteq T
  BY <1>7, <1>8, SetInduction
<1>10. n - 1 \in T /\ (n - 1) + 1 = n /\ n \in 1..n
  BY <1>1, <1>9
<1>11. g[n] = flat[n]
  BY <1>10 DEF T
<1> QED
  BY <1>3, <1>11 DEF n

\* Pairs, and pairs put one after the other.
Pairs(n, a, b) == [k \in 1..n |-> <<a[k], b[k]>>]
Paired(n, a, b) ==
  [k \in 1..(2 * n) |-> IF k % 2 = 1 THEN a[(k + 1) \div 2] ELSE b[k \div 2]]

LEMMA FlattenedPairs ==
  ASSUME NEW S, NEW n \in Nat \ {0}, NEW a \in [1..n -> S], NEW b \in [1..n -> S]
  PROVE  FlattenSeq(Pairs(n, a, b)) = Paired(n, a, b)
<1> DEFINE seqs == [k \in 1..n |-> <<a[k], b[k]>>]
           El(k) == IF k % 2 = 1 THEN a[(k + 1) \div 2] ELSE b[k \div 2]
           flat == [m \in 1..n |-> [k \in 1..(2 * m) |-> El(k)]]
<1>1. \A k \in 1..(2 * n) : El(k) \in S
  <2> TAKE k \in 1..(2 * n)
  <2>1. /\ k % 2 \in {0, 1} /\ (k % 2 = 1 => (k + 1) \div 2 \in 1..n)
        /\ (k % 2 = 0 => k \div 2 \in 1..n)
    OBVIOUS
  <2> QED
    BY <2>1
<1>2. Len(seqs) = n
  OBVIOUS
<1>3. \A m \in 1..n : flat[m] \in Seq(S) /\ Len(flat[m]) = 2 * m
  <2> TAKE m \in 1..n
  <2>1. 2 * m \in Nat /\ \A k \in 1..(2 * m) : k \in 1..(2 * n)
    OBVIOUS
  <2>2. flat[m] \in [1..(2 * m) -> S]
    BY <1>1, <2>1
  <2> QED
    BY <2>1, <2>2
<1>4. flat[1] = seqs[1]
  <2>1. El(1) = a[1] /\ El(2) = b[1]
    OBVIOUS
  <2>2. seqs[1] \in Seq(S) /\ Len(seqs[1]) = 2 /\ seqs[1][1] = a[1] /\ seqs[1][2] = b[1]
    OBVIOUS
  <2>3. \A k \in 1..2 : flat[1][k] = El(k)
    OBVIOUS
  <2>4. flat[1] \in Seq(S) /\ Len(flat[1]) = 2
    BY <1>3
  <2> HIDE DEF El, flat, seqs
  <2>5. \A k \in 1..2 : flat[1][k] = seqs[1][k]
    <3>1. \A k \in 1..2 : k = 1 \/ k = 2
      OBVIOUS
    <3> QED
      BY <2>1, <2>2, <2>3, <3>1
  <2> QED
    BY <2>2, <2>4, <2>5, SeqEqual
<1>5. ASSUME NEW m \in 2..n
      PROVE  flat[m] = flat[m - 1] \o seqs[m]
  <2>1. m \in 1..n /\ m - 1 \in 1..n /\ 2 * (m - 1) = 2 * m - 2
    OBVIOUS
  <2>2. /\ seqs[m] \in Seq(S) /\ Len(seqs[m]) = 2
        /\ seqs[m][1] = a[m] /\ seqs[m][2] = b[m]
    BY <2>1
  <2>3. El(2 * m - 1) = a[m] /\ El(2 * m) = b[m]
    <3>1. (2 * m - 1) % 2 = 1 /\ ((2 * m - 1) + 1) \div 2 = m /\ (2 * m) % 2 = 0 /\ (2 * m) \div 2 = m
      OBVIOUS
    <3> QED
      BY <3>1
  <2>4. /\ \A k \in 1..(2 * m) : flat[m][k] = El(k)
        /\ \A k \in 1..(2 * m - 2) : flat[m - 1][k] = El(k)
    BY <2>1
  <2> HIDE DEF El, flat, seqs
  <2>5. /\ flat[m] \in Seq(S) /\ Len(flat[m]) = 2 * m
        /\ flat[m - 1] \in Seq(S) /\ Len(flat[m - 1]) = 2 * m - 2
    BY <1>3, <2>1
  <2>6. /\ flat[m - 1] \o seqs[m] \in Seq(S) /\ Len(flat[m - 1] \o seqs[m]) = 2 * m
        /\ \A k \in 1..(2 * m) : (flat[m - 1] \o seqs[m])[k] =
             IF k <= 2 * m - 2 THEN flat[m - 1][k] ELSE seqs[m][k - (2 * m - 2)]
    <3>1. /\ flat[m - 1] \o seqs[m] \in Seq(S)
          /\ Len(flat[m - 1] \o seqs[m]) = Len(flat[m - 1]) + Len(seqs[m])
          /\ \A k \in 1..(Len(flat[m - 1]) + Len(seqs[m])) : (flat[m - 1] \o seqs[m])[k] =
               IF k <= Len(flat[m - 1]) THEN flat[m - 1][k] ELSE seqs[m][k - Len(flat[m - 1])]
      BY <2>2, <2>5, ConcatProperties
    <3>2. (2 * m - 2) + 2 = 2 * m
      OBVIOUS
    <3> QED
      BY <2>2, <2>5, <3>1, <3>2
  <2>7. \A k \in 1..(2 * m) : flat[m][k] = (flat[m - 1] \o seqs[m])[k]
    <3> TAKE k \in 1..(2 * m)
    <3>1. CASE k \in 1..(2 * m - 2)
      <4>1. k <= 2 * m - 2
        BY <3>1
      <4> QED
        BY <2>4, <2>6, <3>1, <4>1
    <3>2. CASE k = 2 * m - 1
      <4>1. ~(k <= 2 * m - 2) /\ k - (2 * m - 2) = 1
        BY <3>2
      <4>2. (flat[m - 1] \o seqs[m])[k] = seqs[m][1]
        BY <2>6, <4>1
      <4>3. flat[m][k] = El(2 * m - 1)
        BY <2>4, <3>2
      <4> QED
        BY <2>2, <2>3, <4>2, <4>3
    <3>3. CASE k = 2 * m
      <4>1. ~(k <= 2 * m - 2) /\ k - (2 * m - 2) = 2
        BY <3>3
      <4>2. (flat[m - 1] \o seqs[m])[k] = seqs[m][2]
        BY <2>6, <4>1
      <4>3. flat[m][k] = El(2 * m)
        BY <2>4, <3>3
      <4> QED
        BY <2>2, <2>3, <4>2, <4>3
    <3>4. k \in 1..(2 * m - 2) \/ k = 2 * m - 1 \/ k = 2 * m
      OBVIOUS
    <3> QED
      BY <3>1, <3>2, <3>3, <3>4
  <2> QED
    BY <2>5, <2>6, <2>7, SeqEqual
<1>6. flat \in [1..n -> Seq(S)]
  BY <1>3
<1>7. flat[n] = [k \in 1..(2 * n) |-> El(k)]
  OBVIOUS
<1> HIDE DEF flat, seqs, El
<1>8. FlattenSeq(seqs) = flat[n]
  BY <1>2, <1>4, <1>5, <1>6, Flattened
<1> QED
  BY <1>7, <1>8 DEF seqs, El, Pairs, Paired

-----------------------------------------------------------------------------
(* The search for the longest run of zeros.                                *)

SearchTypeOK ==
  /\ hextets \in [Places -> Hextets]
  /\ loop \in {"search", "count", "print", "done"}
  /\ i \in 0..N /\ count \in 0..N /\ longest \in 0..N
  /\ longestIndex \in Int

\* The longest run is the first of its length.
BestSoFar ==
  longest > 0 =>
    /\ Run(longestIndex, longest)
    /\ \A p \in Places : Run(p, longest) => longestIndex <= p

\* No run that begins before i is longer.
SeenSoFar == \A p \in Places, n \in 1..N : p < i /\ Run(p, n) => n <= longest

Stages ==
  /\ loop = "count" => i + longest < N /\ Run(i, count)
  /\ loop \in {"print", "done"} => i + longest >= N

SearchInv == SearchTypeOK /\ BestSoFar /\ SeenSoFar /\ Stages

\* Where the search ends, a run that begins later has no room to be longer.
LEMMA SearchInvImplies == SearchInv => FoundLongest
<1> SUFFICES ASSUME SearchInv, loop \in {"print", "done"} PROVE FoundLongest
  BY DEF FoundLongest
<1>1. i + longest >= N /\ i \in Nat /\ longest \in Nat /\ N \in Nat
  BY PrinterAssumption DEF SearchInv, SearchTypeOK, Stages
<1>2. \A p \in Places, n \in 1..N : Run(p, n) => n <= longest
  <2> SUFFICES ASSUME NEW p \in Places, NEW n \in 1..N, Run(p, n)
               PROVE n <= longest
    OBVIOUS
  <2>1. CASE p < i
    BY <2>1 DEF SearchInv, SeenSoFar
  <2>2. CASE p >= i
    BY <1>1, <2>2 DEF Run, Places
  <2> QED BY <1>1, <2>1, <2>2 DEF Places
<1> QED BY <1>2 DEF FoundLongest, SearchInv, BestSoFar

\* The end of a count decides about the runs that begin at i.
LEMMA CountDecides ==
  ASSUME SearchInv, EndCount
  PROVE  \A n \in 1..N : Run(i, n) => n <= count
<1> SUFFICES ASSUME NEW n \in 1..N, Run(i, n), n > count PROVE FALSE
  BY DEF SearchInv, SearchTypeOK
<1>1. i \in Nat /\ count \in Nat /\ N \in Nat
  BY PrinterAssumption DEF SearchInv, SearchTypeOK
<1>2. i + count \in i..(i + n - 1) /\ count + i < N
  BY <1>1 DEF Run
<1>3. hextets[i + count] = 0
  BY <1>2 DEF Run
<1> QED BY <1>1, <1>2, <1>3 DEF EndCount, MoreZeros

\* Each step of the search keeps the invariant, and so does the output.
LEMMA SearchStep ==
  ASSUME SearchInv, PrinterNext
  PROVE  SearchInv'
<1> USE PrinterAssumption
<1>0. /\ i \in Nat /\ count \in Nat /\ longest \in Nat /\ N \in Nat
      /\ i <= N /\ count <= N /\ longest <= N
  BY DEF SearchInv, SearchTypeOK
<1>1. CASE StartCount
  <2>1. Run(i, 0)
    BY <1>0, <1>1 DEF StartCount, Worthwhile, Run
  <2> QED
    BY <1>0, <1>1, <2>1
    DEF StartCount, Worthwhile, SearchInv, SearchTypeOK, BestSoFar, SeenSoFar,
        Stages, Run
<1>2. CASE CountZero
  <2>1. count + i < N /\ hextets[i + count] = 0 /\ Run(i, count)
    BY <1>2 DEF CountZero, MoreZeros, SearchInv, Stages
  <2>2. Run(i, count + 1)
    <3>1. \A k \in i..(i + (count + 1) - 1) : k = i + count \/ k \in i..(i + count - 1)
      BY <1>0
    <3> QED BY <1>0, <2>1, <3>1 DEF Run
  <2> QED
    BY <1>0, <1>2, <2>1, <2>2
    DEF CountZero, SearchInv, SearchTypeOK, BestSoFar, SeenSoFar, Stages, Run
<1>3. CASE EndCount
  <2>1. i + longest < N /\ Run(i, count)
    BY <1>3 DEF EndCount, SearchInv, Stages
  <2>2. \A n \in 1..N : Run(i, n) => n <= count
    BY <1>3, CountDecides
  <2>3. /\ loop' = "search" /\ i' = i + 1 /\ hextets' = hextets
        /\ count' = count /\ i' <= N
    BY <1>0, <1>3, <2>1 DEF EndCount
  <2>4. CASE count > longest
    <3>1. longest' = count /\ longestIndex' = i
      BY <1>3, <2>4 DEF EndCount, Longer
    <3>2. BestSoFar'
      <4>1. \A p \in Places : p < i => ~Run(p, count)
        BY <1>0, <2>4 DEF SearchInv, SeenSoFar
      <4>2. \A p \in Places : Run(p, count) => i <= p
        BY <1>0, <4>1 DEF Places
      <4> QED BY <2>1, <2>3, <3>1, <4>2 DEF BestSoFar, Run
    <3>3. SeenSoFar'
      <4> SUFFICES ASSUME NEW p \in Places, NEW n \in 1..N, p < i + 1, Run(p, n)
                   PROVE n <= count
        BY <2>3, <3>1 DEF SeenSoFar, Run
      <4>1. CASE p = i
        BY <2>2, <4>1
      <4>2. CASE p < i
        BY <1>0, <2>4, <4>2 DEF SearchInv, SeenSoFar
      <4> QED BY <1>0, <4>1, <4>2 DEF Places
    <3> QED
      BY <1>0, <2>3, <3>1, <3>2, <3>3 DEF SearchInv, SearchTypeOK, Stages
  <2>5. CASE ~(count > longest)
    <3>1. longest' = longest /\ longestIndex' = longestIndex
      BY <1>3, <2>5 DEF EndCount, Longer
    <3>2. BestSoFar'
      BY <2>3, <3>1 DEF SearchInv, BestSoFar, Run
    <3>3. SeenSoFar'
      <4> SUFFICES ASSUME NEW p \in Places, NEW n \in 1..N, p < i + 1, Run(p, n)
                   PROVE n <= longest
        BY <2>3, <3>1 DEF SeenSoFar, Run
      <4>1. CASE p = i
        BY <1>0, <2>2, <2>5, <4>1
      <4>2. CASE p < i
        BY <4>2 DEF SearchInv, SeenSoFar
      <4> QED BY <1>0, <4>1, <4>2 DEF Places
    <3> QED
      BY <1>0, <2>3, <3>1, <3>2, <3>3 DEF SearchInv, SearchTypeOK, Stages
  <2> QED BY <2>4, <2>5
<1>4. CASE EndSearch
  BY <1>0, <1>4
  DEF EndSearch, Worthwhile, SearchInv, SearchTypeOK, BestSoFar, SeenSoFar,
      Stages, Run
<1>5. CASE PrintAddress
  BY <1>0, <1>5
  DEF PrintAddress, SearchInv, SearchTypeOK, BestSoFar, SeenSoFar, Stages, Run
<1> QED BY <1>1, <1>2, <1>3, <1>4, <1>5 DEF PrinterNext

\* A run that was found begins at a place.
Found == longest > 0 => longestIndex \in Places

LEMMA FoundStep ==
  ASSUME SearchInv, Found, [PrinterNext]_printerVars
  PROVE  Found'
<1>1. CASE EndCount
  <2>1. i \in Places
    BY <1>1, PrinterAssumption
    DEF EndCount, SearchInv, SearchTypeOK, Stages, Places
  <2> QED
    BY <1>1, <2>1 DEF EndCount, Found, Places
<1>2. CASE ~EndCount
  <2>1. longest' = longest /\ longestIndex' = longestIndex
    BY <1>2 DEF PrinterNext, StartCount, CountZero, EndSearch, PrintAddress, printerVars
  <2> QED
    BY <2>1 DEF Found, Places
<1> QED
  BY <1>1, <1>2

-----------------------------------------------------------------------------
(* What is printed.                                                        *)

Signs == Hextets \union {Colon}

LEMMA JoinedIs ==
  ASSUME NEW n \in Nat, NEW numbers \in [1..n -> Hextets]
  PROVE  /\ Joined(numbers) \in Seq(Signs)
         /\ Joined(numbers) = [k \in 1..(2 * n - 1) |->
                                IF k % 2 = 1 THEN numbers[(k + 1) \div 2] ELSE Colon]
         /\ n > 0 => Len(Joined(numbers)) = 2 * n - 1
<1> DEFINE El(k) == IF k % 2 = 1 THEN numbers[(k + 1) \div 2] ELSE Colon
<1>1. Len(numbers) = n
  OBVIOUS
<1>2. Joined(numbers) = [k \in 1..(2 * n - 1) |-> El(k)]
  BY <1>1 DEF Joined
<1>3. \A k \in 1..(2 * n - 1) : El(k) \in Signs
  <2> TAKE k \in 1..(2 * n - 1)
  <2>1. k % 2 = 1 => (k + 1) \div 2 \in 1..n
    OBVIOUS
  <2> QED
    BY <2>1 DEF Signs
<1> HIDE DEF El
<1>4. CASE n > 0
  <2>1. 2 * n - 1 \in Nat
    BY <1>4
  <2>2. Joined(numbers) \in [1..(2 * n - 1) -> Signs]
    BY <1>2, <1>3
  <2>3. Joined(numbers) \in Seq(Signs) /\ Len(Joined(numbers)) = 2 * n - 1
    BY <2>1, <2>2
  <2> QED
    BY <1>2, <2>3 DEF El
<1>5. CASE n = 0
  <2>1. 1..(2 * n - 1) = {} /\ 1..0 = {}
    BY <1>5
  <2>2. Joined(numbers) \in [1..0 -> Signs]
    BY <1>2, <2>1
  <2>3. Joined(numbers) \in Seq(Signs)
    BY <2>2
  <2> QED
    BY <1>2, <1>5, <2>3 DEF El
<1> QED
  BY <1>4, <1>5

\* A colon after each number is what joins them and a colon at the end, and a
\* colon before each is a colon and what joins them.
LEMMA HeadedIs ==
  ASSUME NEW n \in Nat \ {0}, NEW numbers \in [1..n -> Hextets]
  PROVE  /\ Headed(numbers) = Joined(numbers) \o <<Colon>>
         /\ Tailed(numbers) = <<Colon>> \o Joined(numbers)
<1> DEFINE colons == [k \in 1..n |-> Colon]
           joined == Joined(numbers)
<1>1. numbers \in [1..n -> Signs] /\ colons \in [1..n -> Signs] /\ DOMAIN numbers = 1..n
  BY DEF Signs
<1>2. /\ joined \in Seq(Signs) /\ Len(joined) = 2 * n - 1
      /\ \A k \in 1..(2 * n - 1) :
           joined[k] = IF k % 2 = 1 THEN numbers[(k + 1) \div 2] ELSE Colon
  <2>1. joined = [k \in 1..(2 * n - 1) |->
                    IF k % 2 = 1 THEN numbers[(k + 1) \div 2] ELSE Colon]
    BY JoinedIs
  <2>2. joined \in Seq(Signs) /\ Len(joined) = 2 * n - 1
    BY JoinedIs
  <2> QED
    BY <2>1, <2>2
<1>3. <<Colon>> \in Seq(Signs) /\ Len(<<Colon>>) = 1 /\ <<Colon>>[1] = Colon
  BY DEF Signs
<1>4. 2 * n \in Nat /\ \A k \in 1..(2 * n) : colons[k \div 2] = Colon \/ k \div 2 \notin 1..n
  OBVIOUS
<1>5. Headed(numbers) = [k \in 1..(2 * n) |->
                          IF k % 2 = 1 THEN numbers[(k + 1) \div 2] ELSE colons[k \div 2]]
  <2>1. Pairs(n, numbers, colons) = [k \in DOMAIN numbers |-> <<numbers[k], Colon>>]
    BY <1>1 DEF Pairs
  <2> HIDE DEF colons
  <2>2. numbers \in [1..n -> Signs] /\ colons \in [1..n -> Signs]
    BY <1>1
  <2>3. FlattenSeq(Pairs(n, numbers, colons)) = Paired(n, numbers, colons)
    BY <2>2, FlattenedPairs, Zenon
  <2> QED
    BY <2>1, <2>3 DEF Headed, Paired
<1>6. Tailed(numbers) = [k \in 1..(2 * n) |->
                          IF k % 2 = 1 THEN colons[(k + 1) \div 2] ELSE numbers[k \div 2]]
  <2>1. Pairs(n, colons, numbers) = [k \in DOMAIN numbers |-> <<Colon, numbers[k]>>]
    BY <1>1 DEF Pairs
  <2> HIDE DEF colons
  <2>2. colons \in [1..n -> Signs] /\ numbers \in [1..n -> Signs]
    BY <1>1
  <2>3. FlattenSeq(Pairs(n, colons, numbers)) = Paired(n, colons, numbers)
    BY <2>2, FlattenedPairs, Zenon
  <2> QED
    BY <2>1, <2>3 DEF Tailed, Paired
<1>7. \A k \in 1..n : colons[k] = Colon
  OBVIOUS
<1> HIDE DEF joined, colons
<1>8. /\ joined \o <<Colon>> \in Seq(Signs) /\ Len(joined \o <<Colon>>) = 2 * n
      /\ \A k \in 1..(2 * n) : (joined \o <<Colon>>)[k] =
           IF k <= 2 * n - 1 THEN joined[k] ELSE Colon
  <2>1. /\ joined \o <<Colon>> \in Seq(Signs)
        /\ Len(joined \o <<Colon>>) = Len(joined) + Len(<<Colon>>)
        /\ \A k \in 1..(Len(joined) + Len(<<Colon>>)) : (joined \o <<Colon>>)[k] =
             IF k <= Len(joined) THEN joined[k] ELSE <<Colon>>[k - Len(joined)]
    BY <1>2, <1>3, ConcatProperties
  <2>2. (2 * n - 1) + 1 = 2 * n
    OBVIOUS
  <2>3. ASSUME NEW k \in 1..(2 * n)
        PROVE  (joined \o <<Colon>>)[k] = IF k <= 2 * n - 1 THEN joined[k] ELSE Colon
    <3>1. ~(k <= 2 * n - 1) => k - (2 * n - 1) = 1
      OBVIOUS
    <3> QED
      BY <1>2, <1>3, <2>1, <2>2, <3>1
  <2> QED
    BY <1>2, <1>3, <2>1, <2>2, <2>3
<1>9. /\ <<Colon>> \o joined \in Seq(Signs) /\ Len(<<Colon>> \o joined) = 2 * n
      /\ \A k \in 1..(2 * n) : (<<Colon>> \o joined)[k] =
           IF k <= 1 THEN Colon ELSE joined[k - 1]
  <2>1. /\ <<Colon>> \o joined \in Seq(Signs)
        /\ Len(<<Colon>> \o joined) = Len(<<Colon>>) + Len(joined)
        /\ \A k \in 1..(Len(<<Colon>>) + Len(joined)) : (<<Colon>> \o joined)[k] =
             IF k <= Len(<<Colon>>) THEN <<Colon>>[k] ELSE joined[k - Len(<<Colon>>)]
    BY <1>2, <1>3, ConcatProperties
  <2>2. 1 + (2 * n - 1) = 2 * n
    OBVIOUS
  <2>3. ASSUME NEW k \in 1..(2 * n)
        PROVE  (<<Colon>> \o joined)[k] = IF k <= 1 THEN Colon ELSE joined[k - 1]
    <3>1. k <= 1 => k = 1
      OBVIOUS
    <3> QED
      BY <1>2, <1>3, <2>1, <2>2, <3>1
  <2> QED
    BY <1>2, <1>3, <2>1, <2>2, <2>3
<1>10. Headed(numbers) = joined \o <<Colon>>
  <2> DEFINE headed == [k \in 1..(2 * n) |->
                          IF k % 2 = 1 THEN numbers[(k + 1) \div 2] ELSE colons[k \div 2]]
  <2>1. \A k \in 1..(2 * n) : headed[k] = (joined \o <<Colon>>)[k] /\ headed[k] \in Signs
    <3> TAKE k \in 1..(2 * n)
    <3>1. CASE k % 2 = 1
      <4>1. k \in 1..(2 * n - 1) /\ k <= 2 * n - 1 /\ (k + 1) \div 2 \in 1..n
        BY <3>1
      <4> QED
        BY <1>1, <1>2, <1>8, <3>1, <4>1
    <3>2. CASE k % 2 = 0 /\ k <= 2 * n - 1
      <4>1. k \in 1..(2 * n - 1) /\ k \div 2 \in 1..n
        BY <3>2
      <4>2. headed[k] = Colon
        BY <1>7, <3>2, <4>1
      <4>3. (joined \o <<Colon>>)[k] = joined[k]
        BY <1>8, <3>2
      <4>4. joined[k] = Colon
        <5>1. joined[k] = IF k % 2 = 1 THEN numbers[(k + 1) \div 2] ELSE Colon
          BY <1>2, <4>1
        <5>2. k % 2 # 1
          BY <3>2
        <5> QED
          BY <5>1, <5>2, Zenon
      <4> QED
        BY <4>2, <4>3, <4>4 DEF Signs
    <3>3. CASE k % 2 = 0 /\ ~(k <= 2 * n - 1)
      <4>1. k \div 2 \in 1..n
        BY <3>3
      <4> QED
        BY <1>7, <1>8, <3>3, <4>1 DEF Signs
    <3>4. k % 2 = 0 \/ k % 2 = 1
      OBVIOUS
    <3> QED
      BY <3>1, <3>2, <3>3, <3>4
  <2>2. headed \in [1..(2 * n) -> Signs]
    BY <2>1
  <2> HIDE DEF headed
  <2>3. headed \in Seq(Signs) /\ Len(headed) = 2 * n
    BY <1>4, <2>2
  <2>4. headed = joined \o <<Colon>>
    BY <1>8, <2>1, <2>3, SeqEqual
  <2> QED
    BY <1>5, <2>4 DEF headed
<1>11. Tailed(numbers) = <<Colon>> \o joined
  <2> DEFINE tailed == [k \in 1..(2 * n) |->
                          IF k % 2 = 1 THEN colons[(k + 1) \div 2] ELSE numbers[k \div 2]]
  <2>1. \A k \in 1..(2 * n) : tailed[k] = (<<Colon>> \o joined)[k] /\ tailed[k] \in Signs
    <3> TAKE k \in 1..(2 * n)
    <3>1. CASE k % 2 = 0
      <4>1. /\ k - 1 \in 1..(2 * n - 1) /\ ~(k <= 1) /\ k \div 2 \in 1..n
            /\ (k - 1) % 2 = 1 /\ ((k - 1) + 1) \div 2 = k \div 2
        BY <3>1
      <4>2. tailed[k] = numbers[k \div 2]
        BY <3>1, <4>1
      <4>3. (<<Colon>> \o joined)[k] = joined[k - 1]
        BY <1>9, <4>1
      <4>4. joined[k - 1] = numbers[k \div 2]
        BY <1>2, <4>1
      <4> QED
        BY <1>1, <4>1, <4>2, <4>3, <4>4
    <3>2. CASE k % 2 = 1 /\ k <= 1
      <4>1. (k + 1) \div 2 \in 1..n
        BY <3>2
      <4> QED
        BY <1>7, <1>9, <3>2, <4>1 DEF Signs
    <3>3. CASE k % 2 = 1 /\ ~(k <= 1)
      <4>1. k - 1 \in 1..(2 * n - 1) /\ (k + 1) \div 2 \in 1..n /\ (k - 1) % 2 = 0
        BY <3>3
      <4> QED
        BY <1>2, <1>7, <1>9, <3>3, <4>1 DEF Signs
    <3>4. k % 2 = 0 \/ k % 2 = 1
      OBVIOUS
    <3> QED
      BY <3>1, <3>2, <3>3, <3>4
  <2>2. tailed \in [1..(2 * n) -> Signs]
    BY <2>1
  <2> HIDE DEF tailed
  <2>3. tailed \in Seq(Signs) /\ Len(tailed) = 2 * n
    BY <1>4, <2>2
  <2>4. tailed = <<Colon>> \o joined
    BY <1>9, <2>1, <2>3, SeqEqual
  <2> QED
    BY <1>6, <2>4 DEF tailed
<1> QED
  BY <1>10, <1>11 DEF joined

\* What was printed is what PrintAddress prints of the run that was found.
TextInv ==
  loop = "done" =>
    text = IF longest = N THEN <<Colon, Colon>>
           ELSE IF longest = 0 THEN Joined(HextetsOf(0, N - 1))
           ELSE Headed(HextetsOf(0, longestIndex - 1)) \o Tailed(AfterRun)

LEMMA TextStep ==
  ASSUME TextInv, [PrinterNext]_printerVars
  PROVE  TextInv'
<1>1. CASE PrintAddress
  BY <1>1 DEF PrintAddress, TextInv, HextetsOf, AfterRun
<1>2. CASE loop' # "done"
  BY <1>2 DEF TextInv
<1>3. CASE UNCHANGED printerVars
  BY <1>3 DEF printerVars, TextInv, HextetsOf, AfterRun
<1> QED
  BY <1>1, <1>2, <1>3
  DEF PrinterNext, StartCount, CountZero, EndCount, EndSearch

\* Some of the hextets.
LEMMA HextetsAre ==
  ASSUME hextets \in [Places -> Hextets], NEW p \in 0..N, NEW q \in Int,
         q <= N - 1, q >= p - 1
  PROVE  HextetsOf(p, q) \in [1..(q - p + 1) -> Hextets] /\ q - p + 1 \in Nat
<1>1. N \in Nat \ {0} /\ q - p + 1 \in Nat
  BY PrinterAssumption
<1>2. \A k \in 1..(q - p + 1) : p + k - 1 \in Places
  BY <1>1 DEF Places
<1> QED
  BY <1>1, <1>2 DEF HextetsOf

LEMMA NoHextets ==
  ASSUME hextets \in [Places -> Hextets], NEW p \in 0..N
  PROVE  Joined(HextetsOf(p, p - 1)) = <<>>
<1>1. HextetsOf(p, p - 1) \in [1..((p - 1) - p + 1) -> Hextets]
  BY HextetsAre, PrinterAssumption
<1>2. (p - 1) - p + 1 = 0 /\ 2 * 0 - 1 = -1 /\ 0 \in Nat
  BY PrinterAssumption
<1>3. HextetsOf(p, p - 1) \in [1..0 -> Hextets]
  BY <1>1, <1>2
<1> DEFINE numbers == HextetsOf(p, p - 1)
<1> HIDE DEF numbers
<1>4. /\ Joined(numbers) \in Seq(Signs)
      /\ Joined(numbers) = [k \in 1..(2 * 0 - 1) |->
                              IF k % 2 = 1 THEN numbers[(k + 1) \div 2] ELSE Colon]
  BY <1>2, <1>3, JoinedIs DEF numbers
<1>5. DOMAIN Joined(numbers) = {}
  BY <1>2, <1>4
<1>6. Joined(numbers) = <<>>
  <2>1. Len(Joined(numbers)) = 0
    BY <1>4, <1>5, LenProperties
  <2> QED
    BY <1>4, <2>1, EmptySeq
<1> QED
  BY <1>6 DEF numbers

LEMMA InnerRunPrinted ==
  ASSUME SearchInv, Found, TextInv
  PROVE  InnerRunsDenote
<1> SUFFICES ASSUME loop = "done",
                    longest \in 1..(N - 1) => longestIndex > 0 /\ longestIndex + longest < N
             PROVE  Denotes
  BY DEF InnerRunsDenote
<1>1. /\ hextets \in [Places -> Hextets] /\ longest \in 0..N /\ N \in Nat \ {0}
      /\ longest > 0 => longestIndex \in Places /\ Run(longestIndex, longest)
  BY PrinterAssumption DEF SearchInv, SearchTypeOK, BestSoFar, Found
<1>2. <<Colon, Colon>> \in Seq(Signs) /\ <<Colon>> \in Seq(Signs)
  BY DEF Signs
<1>3. CASE longest = 0
  BY <1>1, <1>3 DEF TextInv, Denotes
<1>4. CASE longest = N
  <2>1. text = <<Colon, Colon>>
    BY <1>4 DEF TextInv
  <2>2. longestIndex = 0 /\ 0 \in Places /\ N \in 1..N /\ 0 + N = N
    BY <1>1, <1>4 DEF Run, Places
  <2>3. Run(0, N)
    BY <1>1, <1>4, <2>2
  <2>4. Joined(HextetsOf(0, 0 - 1)) = <<>> /\ Joined(HextetsOf(0 + N, N - 1)) = <<>>
    BY <1>1, <2>2, NoHextets
  <2>5. text = Joined(HextetsOf(0, 0 - 1)) \o <<Colon, Colon>> \o Joined(HextetsOf(0 + N, N - 1))
    BY <1>2, <2>1, <2>4, ConcatEmptySeq
  <2> QED
    BY <2>2, <2>3, <2>5 DEF Denotes
<1>5. CASE longest \in 1..(N - 1)
  <2> DEFINE before == HextetsOf(0, longestIndex - 1)
             after == HextetsOf(longestIndex + longest, N - 1)
             n == longestIndex
             m == N - (longestIndex + longest)
  <2>1. /\ n \in Nat \ {0} /\ m \in Nat \ {0} /\ n \in Places /\ longest \in 1..N
        /\ (n - 1) - 0 + 1 = n /\ (N - 1) - (longestIndex + longest) + 1 = m
        /\ longestIndex + longest \in 0..N /\ longest # N /\ longest # 0
        /\ n - 1 <= N - 1 /\ n - 1 >= 0 - 1 /\ n - 1 \in Int /\ 0 \in 0..N
        /\ N - 1 >= (longestIndex + longest) - 1 /\ N - 1 \in Int /\ N - 1 <= N - 1
    BY <1>1, <1>5 DEF Places
  <2>2. before \in [1..n -> Hextets]
    BY <1>1, <2>1, HextetsAre
  <2>3. after \in [1..m -> Hextets]
    BY <1>1, <2>1, HextetsAre
  <2>4. text = Headed(before) \o Tailed(after)
    BY <2>1 DEF TextInv, AfterRun
  <2> HIDE DEF before, after, n, m
  <2>5. /\ Headed(before) = Joined(before) \o <<Colon>>
        /\ Joined(before) \in Seq(Signs)
    BY <2>1, <2>2, HeadedIs, JoinedIs
  <2>6. /\ Tailed(after) = <<Colon>> \o Joined(after)
        /\ Joined(after) \in Seq(Signs)
    BY <2>1, <2>3, HeadedIs, JoinedIs
  <2>7. text = Joined(before) \o <<Colon, Colon>> \o Joined(after)
    <3> DEFINE one == <<Colon>>
               j == Joined(before)
               l == Joined(after)
    <3>1. <<Colon, Colon>> = one \o one
      OBVIOUS
    <3>2. text = (j \o one) \o (one \o l) /\ one \in Seq(Signs) /\ j \in Seq(Signs) /\ l \in Seq(Signs)
      BY <1>2, <2>4, <2>5, <2>6
    <3> HIDE DEF one, j, l
    <3>3. one \o one \in Seq(Signs) /\ one \o l \in Seq(Signs)
      BY <3>2, ConcatProperties
    <3>4. (j \o one) \o (one \o l) = j \o (one \o (one \o l))
      BY <3>2, <3>3, ConcatAssociative
    <3>5. one \o (one \o l) = (one \o one) \o l
      BY <3>2, ConcatAssociative
    <3>6. j \o ((one \o one) \o l) = (j \o (one \o one)) \o l
      BY <3>2, <3>3, ConcatAssociative
    <3>7. text = (j \o (one \o one)) \o l
      BY <3>2, <3>4, <3>5, <3>6
    <3> QED
      BY <3>1, <3>7 DEF j, l
  <2>8. n \in Places /\ longest \in 1..N /\ Run(n, longest)
    BY <1>1, <2>1 DEF n
  <2>9. text = Joined(HextetsOf(0, n - 1)) \o <<Colon, Colon>> \o Joined(HextetsOf(n + longest, N - 1))
    BY <2>7 DEF before, after, n
  <2> QED
    BY <2>8, <2>9 DEF Denotes
<1> QED
  BY <1>1, <1>3, <1>4, <1>5

LEMMA PrinterCorrect == PrinterSpec => [](SearchInv /\ Found /\ TextInv)
<1>1. PrinterInit => SearchInv /\ Found /\ TextInv
  BY PrinterAssumption
  DEF PrinterInit, SearchInv, SearchTypeOK, BestSoFar, SeenSoFar, Stages, Places,
      Found, TextInv
<1>2. SearchInv /\ UNCHANGED printerVars => SearchInv'
  BY DEF printerVars, SearchInv, SearchTypeOK, BestSoFar, SeenSoFar, Stages, Run
<1>3. SearchInv /\ Found /\ TextInv /\ [PrinterNext]_printerVars
        => (SearchInv /\ Found /\ TextInv)'
  BY <1>2, SearchStep, FoundStep, TextStep
<1> QED
  BY <1>1, <1>3, PTL DEF PrinterSpec

\* For an address of any number of hextets, the run of zeros that is left out
\* is the longest, and the first of its length: seq_print_sockaddr ends the search
\* as soon as no longer run has room, and loses none.
THEOREM SearchFindsLongest == PrinterSpec => []FoundLongest
BY PrinterCorrect, SearchInvImplies, PTL

\* For an address of any number of hextets, what seq_print_sockaddr prints can be
\* read back, if the run that is left out is inside the address or is all of it:
\* the colon that ends what comes before it and the colon that begins what comes
\* after it are the double colon, and no hextet is lost or printed twice.
THEOREM InnerRunsReadBack == PrinterSpec => []InnerRunsDenote
BY PrinterCorrect, InnerRunPrinted, PTL

\* Before it is printed there is no text, and before a run is found it begins
\* nowhere.
NothingYet ==
  /\ loop # "done" => text = <<>>
  /\ longest = 0 => longestIndex = -1

LEMMA NothingYetStep ==
  ASSUME SearchInv, NothingYet, [PrinterNext]_printerVars
  PROVE  NothingYet'
<1>1. CASE EndCount
  <2>1. longest \in Nat /\ count \in Nat /\ loop = "count" /\ text' = text
    BY <1>1 DEF EndCount, SearchInv, SearchTypeOK
  <2> QED
    BY <1>1, <2>1 DEF EndCount, Longer, NothingYet
<1>2. CASE PrintAddress
  BY <1>2 DEF PrintAddress, NothingYet
<1>3. CASE StartCount \/ CountZero \/ EndSearch \/ UNCHANGED printerVars
  BY <1>3 DEF StartCount, CountZero, EndSearch, printerVars, NothingYet
<1> QED
  BY <1>1, <1>2, <1>3 DEF PrinterNext

\* Numbers with their colons are signs, no numbers as well.
LEMMA HeadedType ==
  ASSUME NEW n \in Nat, NEW numbers \in [1..n -> Hextets]
  PROVE  Headed(numbers) \in Seq(Signs) /\ Tailed(numbers) \in Seq(Signs)
<1>1. <<Colon>> \in Seq(Signs) /\ Joined(numbers) \in Seq(Signs)
  BY JoinedIs DEF Signs
<1>2. CASE n > 0
  <2>1. /\ Headed(numbers) = Joined(numbers) \o <<Colon>>
        /\ Tailed(numbers) = <<Colon>> \o Joined(numbers)
    BY <1>2, HeadedIs
  <2> QED
    BY <1>1, <2>1, ConcatProperties
<1>3. CASE n = 0
  <2> DEFINE headed == [k \in DOMAIN numbers |-> <<numbers[k], Colon>>]
             tailed == [k \in DOMAIN numbers |-> <<Colon, numbers[k]>>]
  <2>1. DOMAIN numbers = 1..0
    BY <1>3
  <2>2. headed \in Seq(Signs) /\ Len(headed) = 0 /\ tailed \in Seq(Signs) /\ Len(tailed) = 0
    <3>1. headed \in [1..0 -> Signs] /\ tailed \in [1..0 -> Signs]
      BY <2>1
    <3> HIDE DEF headed, tailed
    <3> QED
      BY <3>1
  <2> HIDE DEF headed, tailed
  <2>3. FlattenSeq(headed) = headed /\ FlattenSeq(tailed) = tailed
    BY <2>2 DEF FlattenSeq
  <2> QED
    BY <2>2, <2>3 DEF Headed, Tailed, headed, tailed
<1> QED
  BY <1>2, <1>3

LEMMA PrintedType ==
  ASSUME SearchInv, Found, TextInv, NothingYet
  PROVE  PrinterTypeOK
<1>1. /\ hextets \in [Places -> Hextets] /\ longest \in 0..N /\ N \in Nat \ {0}
      /\ longest > 0 => longestIndex \in Places /\ Run(longestIndex, longest)
  BY PrinterAssumption DEF SearchInv, SearchTypeOK, BestSoFar, Found
<1>2. longestIndex \in Places \union {-1}
  BY <1>1 DEF NothingYet
<1>3. text \in Seq(Signs)
  <2>1. CASE loop # "done"
    BY <2>1, EmptySeq DEF NothingYet
  <2>2. CASE loop = "done" /\ longest = N
    <3>1. text = <<Colon, Colon>>
      BY <2>2 DEF TextInv
    <3> QED
      BY <3>1 DEF Signs
  <2>3. CASE loop = "done" /\ longest = 0
    <3> DEFINE all == HextetsOf(0, N - 1)
    <3>1. text = Joined(all)
      BY <1>1, <2>3 DEF TextInv
    <3>2. all \in [1..((N - 1) - 0 + 1) -> Hextets] /\ (N - 1) - 0 + 1 \in Nat
      BY <1>1, HextetsAre
    <3> HIDE DEF all
    <3> QED
      BY <3>1, <3>2, JoinedIs
  <2>4. CASE loop = "done" /\ longest # 0 /\ longest # N
    <3> DEFINE before == HextetsOf(0, longestIndex - 1)
               after == HextetsOf(longestIndex + longest, N - 1)
    <3>1. /\ longestIndex - 1 \in Int /\ longestIndex - 1 <= N - 1
          /\ longestIndex - 1 >= 0 - 1 /\ 0 \in 0..N
          /\ longestIndex + longest \in 0..N
          /\ N - 1 \in Int /\ N - 1 <= N - 1 /\ N - 1 >= (longestIndex + longest) - 1
      BY <1>1, <2>4 DEF Places, Run
    <3>2. /\ before \in [1..((longestIndex - 1) - 0 + 1) -> Hextets]
          /\ (longestIndex - 1) - 0 + 1 \in Nat
      BY <1>1, <3>1, HextetsAre
    <3>3. /\ after \in [1..((N - 1) - (longestIndex + longest) + 1) -> Hextets]
          /\ (N - 1) - (longestIndex + longest) + 1 \in Nat
      BY <1>1, <3>1, HextetsAre
    <3>4. text = Headed(before) \o Tailed(after)
      BY <2>4 DEF TextInv, AfterRun
    <3> HIDE DEF before, after
    <3>5. Headed(before) \in Seq(Signs) /\ Tailed(after) \in Seq(Signs)
      BY <3>2, <3>3, HeadedType
    <3> QED
      BY <3>4, <3>5, ConcatProperties
  <2> QED
    BY <2>1, <2>2, <2>3, <2>4
<1> QED
  BY <1>2, <1>3 DEF PrinterTypeOK, SearchInv, SearchTypeOK, Signs

LEMMA PrinterTypeCorrect == PrinterSpec => []PrinterTypeOK
<1>1. PrinterInit => NothingYet
  BY DEF PrinterInit, NothingYet
<1>2. SearchInv /\ NothingYet /\ [PrinterNext]_printerVars => NothingYet'
  BY NothingYetStep
<1>3. SearchInv /\ Found /\ TextInv /\ NothingYet => PrinterTypeOK
  BY PrintedType
<1> QED
  BY <1>1, <1>2, <1>3, PrinterCorrect, PTL DEF PrinterSpec

-----------------------------------------------------------------------------
(* Folding a sequence from the left.                                       *)

\* A set of some of the first numbers has a largest.
LEMMA MaxIs ==
  ASSUME NEW n \in Nat, NEW s \in SUBSET (1..n), s # {}
  PROVE  Max(s) \in s /\ \A y \in s : Max(s) >= y
<1> DEFINE T == {t \in SUBSET (1..n) : t # {} => \E x \in t : \A y \in t : x >= y}
<1>1. {} \in T
  OBVIOUS
<1>2. ASSUME NEW t \in SUBSET (1..n), NEW x \in (1..n) \ t, t \in T
      PROVE  t \union {x} \in T
  <2>1. CASE t = {}
    BY <2>1
  <2>2. CASE t # {}
    <3>1. PICK z \in t : \A y \in t : z >= y
      BY <1>2, <2>2
    <3>2. CASE x >= z
      <4>1. \A y \in t \union {x} : x >= y
        BY <3>1, <3>2
      <4> QED
        BY <4>1
    <3>3. CASE ~(x >= z)
      <4>1. \A y \in t \union {x} : z >= y
        BY <3>1, <3>3
      <4> QED
        BY <3>1, <4>1
    <3> QED
      BY <3>2, <3>3
  <2> QED
    BY <2>1, <2>2
<1> HIDE DEF T
<1>3. SUBSET (1..n) \subseteq T
  <2> DEFINE D == 1..n
  <2>1. IsFiniteSet(D)
    BY FS_Interval
  <2>2. \A t \in SUBSET D : \A x \in D \ t : t \in T => t \union {x} \in T
    BY <1>2
  <2> HIDE DEF D
  <2>3. SUBSET D \subseteq T
    BY <1>1, <2>1, <2>2, SubsetInduction
  <2> QED
    BY <2>3 DEF D
<1>4. \E x \in s : \A y \in s : x >= y
  BY <1>3 DEF T
<1> QED
  BY <1>4 DEF Max

LEMMA PrefixMax ==
  ASSUME NEW n \in Nat, NEW k \in 1..n
  PROVE  /\ 1..k \in SUBSET (1..n) /\ 1..k # {} /\ Max(1..k) = k
         /\ (1..k) \ {Max(1..k)} = 1..(k - 1)
<1>1. 1..k \in SUBSET (1..n) /\ k \in 1..k
  OBVIOUS
<1>2. Max(1..k) \in 1..k /\ Max(1..k) >= k
  BY <1>1, MaxIs
<1>3. Max(1..k) = k
  BY <1>2
<1> QED
  BY <1>1, <1>3

\* What the reader of JSON has read after a byte.
Chars == Character \union Output
ReaderState == [escaped : BOOLEAN, text : Seq(Chars)]

LEMMA ReadByteType ==
  ASSUME NEW state \in ReaderState, NEW byte \in Output
  PROVE  ReadByte(state, byte) \in ReaderState
<1>1. state.escaped \in BOOLEAN /\ state.text \in Seq(Chars)
  BY DEF ReaderState
<1>2. CASE state.escaped
  <2> DEFINE char == CASE byte = "n" -> "newline" [] byte = "t" -> "tab" [] OTHER -> byte
  <2>1. char \in Chars
    BY DEF Output, Character, Chars
  <2> HIDE DEF char
  <2>2. Append(state.text, char) \in Seq(Chars)
    BY <1>1, <2>1, AppendProperties
  <2> QED
    BY <1>2, <2>2 DEF ReadByte, ReaderState, char
<1>3. CASE ~state.escaped /\ byte = "backslash"
  BY <1>1, <1>3 DEF ReadByte, ReaderState
<1>4. CASE ~state.escaped /\ byte # "backslash"
  <2>1. Append(state.text, byte) \in Seq(Chars)
    BY <1>1, AppendProperties DEF Chars
  <2> QED
    BY <1>1, <1>4, <2>1 DEF ReadByte, ReaderState
<1> QED
  BY <1>2, <1>3, <1>4

\* What the reader of JSON has read after some bytes.
DecodeTo(bytes) == FoldLeft(ReadByte, Unread, bytes)

\* It takes them from the first to the last.
LEMMA DecodeFold ==
  ASSUME NEW bytes \in Seq(Output)
  PROVE  \E h : /\ h[0] = Unread
                /\ \A k \in 1..Len(bytes) : h[k] = ReadByte(h[k - 1], bytes[k])
                /\ DecodeTo(bytes) = h[Len(bytes)]
<1> DEFINE n == Len(bytes)
           D == 1..n
           step == [x \in D |-> [state \in ReaderState |-> ReadByte(state, bytes[x])]]
           pick == [s \in SUBSET D |-> Max(s)]
           Eq(f) == f = [s \in SUBSET D |->
                           IF s = {} THEN Unread ELSE ReadByte(f[s \ {Max(s)}], bytes[Max(s)])]
           iter == CHOOSE f : Eq(f)
<1>1. n \in Nat /\ DOMAIN bytes = D /\ \A x \in D : bytes[x] \in Output
  BY LenProperties
<1>2. DecodeTo(bytes) = iter[D]
  <2>1. DecodeTo(bytes) =
          (CHOOSE f : f = [s \in SUBSET DOMAIN bytes |->
              IF s = {} THEN Unread
              ELSE ReadByte(f[s \ {Max(s)}], bytes[Max(s)])])[DOMAIN bytes]
    BY DEF DecodeTo, FoldLeft, MapThenFoldSet
  <2> QED
    BY <1>1, <2>1
<1>3. Unread \in ReaderState
  BY EmptySeq DEF Unread, ReaderState
<1>4. step \in [D -> [ReaderState -> ReaderState]]
  BY <1>1, ReadByteType
<1>5. \A s \in SUBSET D : s # {} => pick[s] \in s /\ pick[s] = Max(s)
  BY <1>1, MaxIs
<1>6. IsFiniteSet(D)
  BY <1>1, FS_Interval
<1>7. PICK f \in [SUBSET D -> ReaderState] : Iterates(f, D, Unread, step, pick)
  <2>1. Foldable(D, ReaderState, Unread, step, pick)
    BY <1>3, <1>4, <1>5, <1>6 DEF Foldable
  <2> HIDE DEF n, D, step, pick
  <2> QED
    BY <2>1, Folding, Zenon
<1>8. ASSUME NEW s \in SUBSET D, s # {}
      PROVE  step[pick[s]][f[s \ {pick[s]}]] = ReadByte(f[s \ {Max(s)}], bytes[Max(s)])
  <2>1. Max(s) \in D /\ pick[s] = Max(s) /\ f[s \ {Max(s)}] \in ReaderState
    BY <1>5, <1>8
  <2> QED
    BY <2>1
<1> HIDE DEF step, pick
<1>9. Eq(f)
  BY <1>7, <1>8 DEF Iterates
<1>10. Eq(iter)
  <2> HIDE DEF Eq
  <2> QED
    BY <1>9
<1>11. \A s \in SUBSET D :
         iter[s] = IF s = {} THEN Unread ELSE ReadByte(iter[s \ {Max(s)}], bytes[Max(s)])
  BY <1>10
<1> HIDE DEF iter
<1> DEFINE h == [k \in 0..n |-> iter[1..k]]
<1>12. h[0] = Unread
  <2>1. 1..0 = {} /\ 0 \in 0..n
    BY <1>1
  <2> QED
    BY <1>11, <2>1
<1>13. \A k \in 1..n : h[k] = ReadByte(h[k - 1], bytes[k])
  <2> TAKE k \in 1..n
  <2>1. /\ 1..k \in SUBSET D /\ 1..k # {} /\ Max(1..k) = k
        /\ (1..k) \ {Max(1..k)} = 1..(k - 1)
    BY <1>1, PrefixMax
  <2>2. iter[1..k] = ReadByte(iter[1..(k - 1)], bytes[k])
    BY <1>11, <2>1
  <2>3. h[k] = iter[1..k] /\ h[k - 1] = iter[1..(k - 1)]
    BY <1>1
  <2> QED
    BY <2>2, <2>3
<1>14. h[n] = iter[D]
  BY <1>1
<1> HIDE DEF h
<1> QED
  BY <1>2, <1>12, <1>13, <1>14

LEMMA DecodeNone == DecodeTo(<<>>) = Unread
<1>1. <<>> \in Seq(Output) /\ Len(<<>>) = 0
  BY EmptySeq
<1> QED
  BY <1>1, DecodeFold

LEMMA DecodeOneMore ==
  ASSUME NEW bytes \in Seq(Output), NEW byte \in Output
  PROVE  DecodeTo(Append(bytes, byte)) = ReadByte(DecodeTo(bytes), byte)
<1> DEFINE n == Len(bytes)
           more == Append(bytes, byte)
<1>1. /\ more \in Seq(Output) /\ n \in Nat /\ Len(more) = n + 1 /\ more[n + 1] = byte
      /\ \A k \in 1..n : more[k] = bytes[k]
  BY LenProperties, AppendProperties
<1> HIDE DEF more
<1>2. PICK h : /\ h[0] = Unread
               /\ \A k \in 1..n : h[k] = ReadByte(h[k - 1], bytes[k])
               /\ DecodeTo(bytes) = h[n]
  BY DecodeFold
<1>3. PICK g : /\ g[0] = Unread
               /\ \A k \in 1..(n + 1) : g[k] = ReadByte(g[k - 1], more[k])
               /\ DecodeTo(more) = g[n + 1]
  <2>1. \E g : /\ g[0] = Unread
               /\ \A k \in 1..Len(more) : g[k] = ReadByte(g[k - 1], more[k])
               /\ DecodeTo(more) = g[Len(more)]
    BY <1>1, DecodeFold
  <2> QED
    BY <1>1, <2>1
<1> HIDE DEF n
<1> DEFINE T == {k \in Nat : k <= n => g[k] = h[k]}
<1>4. 0 \in T
  BY <1>2, <1>3
<1>5. ASSUME NEW k \in Nat, k \in T
      PROVE  k + 1 \in T
  <2>1. SUFFICES ASSUME k + 1 <= n PROVE g[k + 1] = h[k + 1]
    OBVIOUS
  <2>2. g[k] = h[k] /\ k + 1 \in 1..n /\ k + 1 \in 1..(n + 1) /\ (k + 1) - 1 = k
    BY <1>1, <1>5, <2>1
  <2>3. g[k + 1] = ReadByte(g[k], more[k + 1]) /\ h[k + 1] = ReadByte(h[k], bytes[k + 1])
    BY <1>2, <1>3, <2>2
  <2> QED
    BY <1>1, <2>2, <2>3
<1> HIDE DEF T
<1>6. Nat \subseteq T
  BY <1>4, <1>5, SetInduction
<1>7. g[n] = h[n]
  BY <1>1, <1>6 DEF T
<1>8. n + 1 \in 1..(n + 1) /\ (n + 1) - 1 = n
  BY <1>1
<1>9. g[n + 1] = ReadByte(g[n], more[n + 1])
  BY <1>3, <1>8
<1> QED
  BY <1>1, <1>2, <1>3, <1>7, <1>9 DEF more

LEMMA KeepCharType ==
  ASSUME NEW kept \in Seq(Character), NEW char \in Character
  PROVE  KeepChar(kept, char) \in Seq(Character)
BY AppendProperties DEF KeepChar

\* What is kept of some characters.
KeepTo(chars) == FoldLeft(KeepChar, <<>>, chars)

\* It takes them from the first to the last.
LEMMA KeepFold ==
  ASSUME NEW chars \in Seq(Character)
  PROVE  \E h : /\ h[0] = <<>>
                /\ \A k \in 1..Len(chars) : h[k] = KeepChar(h[k - 1], chars[k])
                /\ KeepTo(chars) = h[Len(chars)]
<1> DEFINE n == Len(chars)
           D == 1..n
           step == [x \in D |-> [kept \in Seq(Character) |-> KeepChar(kept, chars[x])]]
           pick == [s \in SUBSET D |-> Max(s)]
           Eq(f) == f = [s \in SUBSET D |->
                           IF s = {} THEN <<>> ELSE KeepChar(f[s \ {Max(s)}], chars[Max(s)])]
           iter == CHOOSE f : Eq(f)
<1>1. n \in Nat /\ DOMAIN chars = D /\ \A x \in D : chars[x] \in Character
  BY LenProperties
<1>2. KeepTo(chars) = iter[D]
  <2>1. KeepTo(chars) =
          (CHOOSE f : f = [s \in SUBSET DOMAIN chars |->
              IF s = {} THEN <<>>
              ELSE KeepChar(f[s \ {Max(s)}], chars[Max(s)])])[DOMAIN chars]
    BY DEF KeepTo, FoldLeft, MapThenFoldSet
  <2> QED
    BY <1>1, <2>1
<1>3. <<>> \in Seq(Character)
  BY EmptySeq
<1>4. step \in [D -> [Seq(Character) -> Seq(Character)]]
  BY <1>1, KeepCharType
<1>5. \A s \in SUBSET D : s # {} => pick[s] \in s /\ pick[s] = Max(s)
  BY <1>1, MaxIs
<1>6. IsFiniteSet(D)
  BY <1>1, FS_Interval
<1>7. PICK f \in [SUBSET D -> Seq(Character)] : Iterates(f, D, <<>>, step, pick)
  <2>1. Foldable(D, Seq(Character), <<>>, step, pick)
    BY <1>3, <1>4, <1>5, <1>6 DEF Foldable
  <2> HIDE DEF n, D, step, pick
  <2> QED
    BY <2>1, Folding, Zenon
<1>8. ASSUME NEW s \in SUBSET D, s # {}
      PROVE  step[pick[s]][f[s \ {pick[s]}]] = KeepChar(f[s \ {Max(s)}], chars[Max(s)])
  <2>1. Max(s) \in D /\ pick[s] = Max(s) /\ f[s \ {Max(s)}] \in Seq(Character)
    BY <1>5, <1>8
  <2> QED
    BY <2>1
<1> HIDE DEF step, pick
<1>9. Eq(f)
  BY <1>7, <1>8 DEF Iterates
<1>10. Eq(iter)
  <2> HIDE DEF Eq
  <2> QED
    BY <1>9
<1>11. \A s \in SUBSET D :
         iter[s] = IF s = {} THEN <<>> ELSE KeepChar(iter[s \ {Max(s)}], chars[Max(s)])
  BY <1>10
<1> HIDE DEF iter
<1> DEFINE h == [k \in 0..n |-> iter[1..k]]
<1>12. h[0] = <<>>
  <2>1. 1..0 = {} /\ 0 \in 0..n
    BY <1>1
  <2> QED
    BY <1>11, <2>1
<1>13. \A k \in 1..n : h[k] = KeepChar(h[k - 1], chars[k])
  <2> TAKE k \in 1..n
  <2>1. /\ 1..k \in SUBSET D /\ 1..k # {} /\ Max(1..k) = k
        /\ (1..k) \ {Max(1..k)} = 1..(k - 1)
    BY <1>1, PrefixMax
  <2>2. iter[1..k] = KeepChar(iter[1..(k - 1)], chars[k])
    BY <1>11, <2>1
  <2>3. h[k] = iter[1..k] /\ h[k - 1] = iter[1..(k - 1)]
    BY <1>1
  <2> QED
    BY <2>2, <2>3
<1>14. h[n] = iter[D]
  BY <1>1
<1> HIDE DEF h
<1> QED
  BY <1>2, <1>12, <1>13, <1>14

LEMMA KeepNone == KeepTo(<<>>) = <<>>
<1>1. <<>> \in Seq(Character) /\ Len(<<>>) = 0
  BY EmptySeq
<1> QED
  BY <1>1, KeepFold

LEMMA KeepOneMore ==
  ASSUME NEW chars \in Seq(Character), NEW char \in Character
  PROVE  KeepTo(Append(chars, char)) = KeepChar(KeepTo(chars), char)
<1> DEFINE n == Len(chars)
           more == Append(chars, char)
<1>1. /\ more \in Seq(Character) /\ n \in Nat /\ Len(more) = n + 1 /\ more[n + 1] = char
      /\ \A k \in 1..n : more[k] = chars[k]
  BY LenProperties, AppendProperties
<1> HIDE DEF more
<1>2. PICK h : /\ h[0] = <<>>
               /\ \A k \in 1..n : h[k] = KeepChar(h[k - 1], chars[k])
               /\ KeepTo(chars) = h[n]
  BY KeepFold
<1>3. PICK g : /\ g[0] = <<>>
               /\ \A k \in 1..(n + 1) : g[k] = KeepChar(g[k - 1], more[k])
               /\ KeepTo(more) = g[n + 1]
  <2>1. \E g : /\ g[0] = <<>>
               /\ \A k \in 1..Len(more) : g[k] = KeepChar(g[k - 1], more[k])
               /\ KeepTo(more) = g[Len(more)]
    BY <1>1, KeepFold
  <2> QED
    BY <1>1, <2>1
<1> HIDE DEF n
<1> DEFINE T == {k \in Nat : k <= n => g[k] = h[k]}
<1>4. 0 \in T
  BY <1>2, <1>3
<1>5. ASSUME NEW k \in Nat, k \in T
      PROVE  k + 1 \in T
  <2>1. SUFFICES ASSUME k + 1 <= n PROVE g[k + 1] = h[k + 1]
    OBVIOUS
  <2>2. g[k] = h[k] /\ k + 1 \in 1..n /\ k + 1 \in 1..(n + 1) /\ (k + 1) - 1 = k
    BY <1>1, <1>5, <2>1
  <2>3. g[k + 1] = KeepChar(g[k], more[k + 1]) /\ h[k + 1] = KeepChar(h[k], chars[k + 1])
    BY <1>2, <1>3, <2>2
  <2> QED
    BY <1>1, <2>2, <2>3
<1> HIDE DEF T
<1>6. Nat \subseteq T
  BY <1>4, <1>5, SetInduction
<1>7. g[n] = h[n]
  BY <1>1, <1>6 DEF T
<1>8. n + 1 \in 1..(n + 1) /\ (n + 1) - 1 = n
  BY <1>1
<1>9. g[n + 1] = KeepChar(g[n], more[n + 1])
  BY <1>3, <1>8
<1> QED
  BY <1>1, <1>2, <1>3, <1>7, <1>9 DEF more

-----------------------------------------------------------------------------
(* How a string is written.                                                *)

\* What is known of the buffer at every place of the code.
Buffered ==
  /\ stage = "open" => read = 0 /\ out = <<>> /\ used = 0
  /\ stage = "escape" =>
       /\ used = IF first < size THEN first ELSE size
       /\ Reaches <= size
  /\ stage = "close" => used = size \/ (read = Len(source) /\ used = first + Len(out))
  /\ stage = "shown" => used = size \/ (read = Len(source) /\ used = first + Len(out) + 1)
  /\ stage = "done" => read = Len(source) /\ used = first + Len(out) + 1

\* The output stands for the part of the string that is done.
ReadBack ==
  ~Contains(source, "backslash") =>
    DecodeTo(out) = [escaped |-> FALSE, text |-> KeepTo(SubSeq(source, 1, read))]

EscapeInv ==
  /\ source \in Seq(Character) /\ read \in 0..Len(source)
  /\ size \in Nat \ {0} /\ used \in 0..size /\ first \in Nat
  /\ out \in Seq(Output)
  /\ stage \in {"open", "escape", "close", "shown", "done"}
  /\ Buffered
  /\ ReadBack

LEMMA OneMore ==
  ASSUME NEW S, NEW s \in Seq(S), NEW n \in Nat, n < Len(s)
  PROVE  /\ s[n + 1] \in S /\ SubSeq(s, 1, n) \in Seq(S)
         /\ SubSeq(s, 1, n + 1) = Append(SubSeq(s, 1, n), s[n + 1])
<1> DEFINE a == SubSeq(s, 1, n)
           b == SubSeq(s, 1, n + 1)
           c == Append(a, s[n + 1])
<1>1. Len(s) \in Nat /\ n + 1 \in 1..Len(s) /\ s[n + 1] \in S
  BY LenProperties, ElementOfSeq
<1>2. a \in Seq(S) /\ Len(a) = n /\ \A j \in 1..n : a[j] = s[j]
  BY <1>1, SubSeqProperties
<1>3. b \in Seq(S) /\ Len(b) = n + 1 /\ \A j \in 1..(n + 1) : b[j] = s[j]
  BY <1>1, SubSeqProperties
<1> HIDE DEF a, b
<1>4. c \in Seq(S) /\ Len(c) = n + 1 /\ c[n + 1] = s[n + 1] /\ \A j \in 1..n : c[j] = a[j]
  BY <1>1, <1>2, AppendProperties
<1> HIDE DEF c
<1>5. \A j \in 1..Len(b) : b[j] = c[j]
  <2> TAKE j \in 1..Len(b)
  <2>1. j \in 1..n \/ j = n + 1
    BY <1>3
  <2> QED
    BY <1>2, <1>3, <1>4, <2>1
<1>6. b = c
  BY <1>3, <1>4, <1>5, SeqEqual
<1> QED
  BY <1>1, <1>2, <1>6 DEF a, b, c

\* A character that was done is in the part that is done.
LEMMA ReadMore ==
  ASSUME EscapeInv, stage = "escape", read < Len(source)
  PROVE  /\ Char \in Character
         /\ KeepTo(SubSeq(source, 1, read + 1)) = KeepChar(KeepTo(SubSeq(source, 1, read)), Char)
         /\ ~Contains(source, "backslash") => Char # "backslash"
<1>1. source \in Seq(Character) /\ read \in Nat
  BY DEF EscapeInv
<1> DEFINE part == SubSeq(source, 1, read)
<1>2. /\ Char \in Character /\ part \in Seq(Character)
      /\ SubSeq(source, 1, read + 1) = Append(part, Char)
  BY <1>1, OneMore DEF Char
<1> HIDE DEF part
<1>3. KeepTo(Append(part, Char)) = KeepChar(KeepTo(part), Char)
  BY <1>2, KeepOneMore
<1>4. ~Contains(source, "backslash") => Char # "backslash"
  <2>1. Len(source) \in Nat /\ read + 1 \in 1..Len(source)
    BY <1>1, LenProperties
  <2> QED
    BY <2>1 DEF Contains, Char
<1> QED
  BY <1>2, <1>3, <1>4 DEF part

LEMMA EscapeStart == EscapeInit => EscapeInv
<1> SUFFICES ASSUME EscapeInit PROVE EscapeInv
  OBVIOUS
<1>1. /\ source \in Seq(Character) /\ read = 0 /\ out = <<>> /\ used = 0 /\ stage = "open"
      /\ first \in Nat /\ size \in Nat \ {0}
  BY EscapeAssumption DEF EscapeInit
<1>2. Len(source) \in Nat /\ <<>> \in Seq(Output)
  BY <1>1, LenProperties, EmptySeq
<1>3. SubSeq(source, 1, 0) = <<>>
  BY <1>1, <1>2, SubSeqProperties, EmptySeq
<1>4. ReadBack
  BY <1>1, <1>3, DecodeNone, KeepNone DEF ReadBack, Unread
<1> QED
  BY <1>1, <1>2, <1>4 DEF EscapeInv, Buffered

LEMMA EscapeStep ==
  ASSUME EscapeInv, [EscapeNext]_escapeVars
  PROVE  EscapeInv'
<1> USE DEF EscapeInv
<1>1. Len(source) \in Nat /\ Len(out) \in Nat
  BY LenProperties
<1>2. CASE OpenString
  <2>1. out = <<>> /\ Len(out) = 0
    BY <1>2, EmptySeq DEF OpenString, Buffered
  <2> QED
    BY <1>1, <1>2, <2>1 DEF OpenString, Buffered, ReadBack, Reaches
<1>3. CASE EscapeChar
  <2> DEFINE e == Escape[Char]
             half == Append(out, "backslash")
  <2>1. /\ stage = "escape" /\ stage' = "escape" /\ read < Len(source) /\ read' = read + 1
        /\ Char \in {"newline", "tab", "quote"} /\ Reaches + 2 < size
        /\ out' = out \o <<"backslash", e>> /\ UNCHANGED <<source, size, used, first>>
    BY <1>3 DEF EscapeChar, Looping, Escape, EscapeFits
  <2>2. e \in {"n", "t", "quote"} /\ (CASE e = "n" -> "newline" [] e = "t" -> "tab" [] OTHER -> e) = Char
    BY <2>1 DEF Escape
  <2> HIDE DEF e
  <2>3. half \in Seq(Output) /\ Append(half, e) \in Seq(Output) /\ Len(Append(half, e)) = Len(out) + 2
    BY <1>1, <2>2, AppendProperties DEF Output
  <2>4. out' = Append(half, e)
    BY <2>1, <2>2 DEF Output
  <2>5. DecodeTo(out') = ReadByte(ReadByte(DecodeTo(out), "backslash"), e)
    <3>1. "backslash" \in Output /\ e \in Output
      BY <2>2 DEF Output
    <3>2. DecodeTo(half) = ReadByte(DecodeTo(out), "backslash")
      BY <3>1, DecodeOneMore
    <3> HIDE DEF half
    <3>3. DecodeTo(Append(half, e)) = ReadByte(DecodeTo(half), e)
      BY <2>3, <3>1, DecodeOneMore
    <3> QED
      BY <2>4, <3>2, <3>3
  <2> HIDE DEF half
  <2>6. ReadBack'
    <3> SUFFICES ASSUME ~Contains(source, "backslash")
                 PROVE  DecodeTo(out') = [escaped |-> FALSE, text |-> KeepTo(SubSeq(source, 1, read + 1))]
      BY <2>1 DEF ReadBack
    <3> DEFINE kept == KeepTo(SubSeq(source, 1, read))
    <3>1. DecodeTo(out) = [escaped |-> FALSE, text |-> kept]
      BY DEF ReadBack
    <3>2. KeepTo(SubSeq(source, 1, read + 1)) = Append(kept, Char)
      BY <2>1, ReadMore DEF KeepChar
    <3> HIDE DEF kept
    <3>3. ReadByte(DecodeTo(out), "backslash") = [escaped |-> TRUE, text |-> kept]
      BY <3>1 DEF ReadByte
    <3>4. ReadByte([escaped |-> TRUE, text |-> kept], e) = [escaped |-> FALSE, text |-> Append(kept, Char)]
      BY <2>2 DEF ReadByte
    <3> QED
      BY <2>5, <3>2, <3>3, <3>4
  <2>7. Len(out') = Len(out) + 2 /\ out' \in Seq(Output)
    BY <2>3, <2>4
  <2> QED
    BY <1>1, <2>1, <2>6, <2>7 DEF Buffered, Reaches
<1>4. CASE NoRoom
  BY <1>1, <1>4 DEF NoRoom, Looping, Overflow, Buffered, ReadBack
<1>5. CASE SkipReturn
  <2>1. /\ stage = "escape" /\ read < Len(source) /\ read' = read + 1 /\ Char = "return"
        /\ UNCHANGED <<source, size, used, first, out, stage>>
    BY <1>5 DEF SkipReturn, Looping
  <2>2. KeepTo(SubSeq(source, 1, read + 1)) = KeepTo(SubSeq(source, 1, read))
    BY <2>1, ReadMore DEF KeepChar
  <2>3. ReadBack'
    BY <2>1, <2>2 DEF ReadBack
  <2> QED
    BY <1>1, <2>1, <2>3 DEF Buffered, Reaches
<1>6. CASE PlainChar
  <2>1. /\ stage = "escape" /\ read < Len(source) /\ read' = read + 1 /\ Reaches < size
        /\ Char \notin {"newline", "tab", "quote", "return"} /\ out' = Append(out, Char)
        /\ UNCHANGED <<source, size, used, first, stage>>
    BY <1>6 DEF PlainChar, Looping, Escape
  <2>2. Char \in Output
    BY <2>1, ReadMore DEF Character, Output
  <2>3. out' \in Seq(Output) /\ Len(out') = Len(out) + 1
    BY <1>1, <2>1, <2>2, AppendProperties
  <2>4. DecodeTo(out') = ReadByte(DecodeTo(out), Char)
    BY <2>1, <2>2, DecodeOneMore
  <2>5. ReadBack'
    <3> SUFFICES ASSUME ~Contains(source, "backslash")
                 PROVE  DecodeTo(out') = [escaped |-> FALSE, text |-> KeepTo(SubSeq(source, 1, read + 1))]
      BY <2>1 DEF ReadBack
    <3> DEFINE kept == KeepTo(SubSeq(source, 1, read))
    <3>1. DecodeTo(out) = [escaped |-> FALSE, text |-> kept]
      BY DEF ReadBack
    <3>2. KeepTo(SubSeq(source, 1, read + 1)) = Append(kept, Char) /\ Char # "backslash"
      BY <2>1, ReadMore DEF KeepChar
    <3> HIDE DEF kept
    <3>3. ReadByte(DecodeTo(out), Char) = [escaped |-> FALSE, text |-> Append(kept, Char)]
      BY <3>1, <3>2 DEF ReadByte
    <3> QED
      BY <2>4, <3>2, <3>3
  <2> QED
    BY <1>1, <2>1, <2>3, <2>5 DEF Buffered, Reaches
<1>7. CASE EndEscape
  BY <1>1, <1>7 DEF EndEscape, Looping, Reaches, Buffered, ReadBack
<1>8. CASE CloseString
  BY <1>1, <1>8 DEF CloseString, PutChar, Buffered, ReadBack
<1>9. CASE ShowAgain
  <2>1. /\ stage' = "open" /\ read' = 0 /\ used' = 0 /\ out' = <<>> /\ size' = 2 * size
        /\ UNCHANGED <<source, first>>
    BY <1>9 DEF ShowAgain
  <2>2. SubSeq(source, 1, 0) = <<>> /\ <<>> \in Seq(Output)
    BY <1>1, SubSeqProperties, EmptySeq
  <2>3. ReadBack'
    BY <2>1, <2>2, DecodeNone, KeepNone DEF ReadBack, Unread
  <2> QED
    BY <1>1, <2>1, <2>2, <2>3 DEF Buffered
<1>10. CASE Shown
  BY <1>1, <1>10 DEF Shown, Overflowed, Buffered, ReadBack
<1>11. CASE UNCHANGED escapeVars
  BY <1>1, <1>11 DEF escapeVars, Buffered, ReadBack, Reaches
<1> QED
  BY <1>2, <1>3, <1>4, <1>5, <1>6, <1>7, <1>8, <1>9, <1>10, <1>11 DEF EscapeNext

LEMMA EscapeInvImplies == EscapeInv => StringKept
<1> SUFFICES ASSUME EscapeInv PROVE StringKept
  OBVIOUS
<1> USE DEF EscapeInv
<1>1. NeverPastBuffer
  BY DEF NeverPastBuffer, Buffered
<1>2. ASSUME stage = "done", ~Contains(source, "backslash")
      PROVE  SameButReturns /\ used = first + Len(out) + 1
  <2>1. read = Len(source) /\ used = first + Len(out) + 1
    BY <1>2 DEF Buffered
  <2>2. SubSeq(source, 1, Len(source)) = source
    <3> DEFINE whole == SubSeq(source, 1, Len(source))
    <3>1. Len(source) \in Nat
      BY LenProperties
    <3>2. whole \in Seq(Character) /\ Len(whole) = Len(source)
          /\ \A j \in 1..Len(source) : whole[j] = source[j]
      BY <3>1, SubSeqProperties
    <3> HIDE DEF whole
    <3>3. whole = source
      BY <3>2, SeqEqual
    <3> QED
      BY <3>3 DEF whole
  <2>3. DecodeTo(out) = [escaped |-> FALSE, text |-> KeepTo(source)]
    BY <1>2, <2>1, <2>2 DEF ReadBack
  <2> QED
    BY <2>1, <2>3 DEF SameButReturns, Decoded, WithoutReturns, DecodeTo, KeepTo
<1> QED
  BY <1>1, <1>2 DEF StringKept, KeptWhole

\* No byte that json_escape puts goes past the end of the buffer, whatever the
\* string.  Of a string without a backslash, what is shown in the end is the whole
\* of it but for carriage returns, however often the buffer was too small; of one
\* with a backslash, which is not escaped, it is not said what it reads back as.
THEOREM StringsKeptWhole == EscapeSpec => []StringKept
<1>1. EscapeInv /\ [EscapeNext]_escapeVars => EscapeInv'
  BY EscapeStep
<1> QED
  BY <1>1, EscapeStart, EscapeInvImplies, PTL DEF EscapeSpec

-----------------------------------------------------------------------------
(* What an entry of the JSON file is made of.                              *)

JsonState == [last : Token \union {"none"}, inside : Seq(Token), ok : BOOLEAN]

LEMMA ReadTokenType ==
  ASSUME NEW state \in JsonState, NEW token \in Token
  PROVE  ReadToken(state, token) \in JsonState
<1> DEFINE inside == IF token \in {"openObject", "openArray"} THEN Append(state.inside, token)
                     ELSE IF token \in {"closeObject", "closeArray"} /\ state.inside # <<>> THEN Front(state.inside)
                     ELSE state.inside
           ok == /\ state.ok
                 /\ IF state.inside = <<>> THEN state.last = "none" /\ token \in {"openObject", "openArray"}
                    ELSE token \in Follows(state.last, Last(state.inside))
<1>1. state.inside \in Seq(Token) /\ state.ok \in BOOLEAN
  BY DEF JsonState
<1>2. Append(state.inside, token) \in Seq(Token)
  BY <1>1, AppendProperties
<1>3. state.inside # <<>> => Front(state.inside) \in Seq(Token)
  <2> SUFFICES ASSUME state.inside # <<>> PROVE Front(state.inside) \in Seq(Token)
    OBVIOUS
  <2>1. Len(state.inside) \in Nat \ {0}
    BY <1>1, EmptySeq, LenProperties
  <2> QED
    BY <1>1, <2>1, SubSeqProperties DEF Front
<1>4. inside \in Seq(Token)
  BY <1>1, <1>2, <1>3
<1>5. ok \in BOOLEAN
  BY <1>1
<1> HIDE DEF inside
<1>6. ReadToken(state, token) = [last |-> token, inside |-> inside, ok |-> ok]
  BY DEF ReadToken, inside
<1> HIDE DEF ok
<1> QED
  BY <1>4, <1>5, <1>6 DEF JsonState

\* What the reader of JSON has read after some tokens.
ReadTo(tokens) == FoldLeft(ReadToken, NothingRead, tokens)

\* It takes them from the first to the last.
LEMMA ReadFold ==
  ASSUME NEW tokens \in Seq(Token)
  PROVE  \E h : /\ h[0] = NothingRead
                /\ \A k \in 1..Len(tokens) : h[k] = ReadToken(h[k - 1], tokens[k])
                /\ ReadTo(tokens) = h[Len(tokens)]
<1> DEFINE n == Len(tokens)
           D == 1..n
           step == [x \in D |-> [state \in JsonState |-> ReadToken(state, tokens[x])]]
           pick == [s \in SUBSET D |-> Max(s)]
           Eq(f) == f = [s \in SUBSET D |->
                           IF s = {} THEN NothingRead ELSE ReadToken(f[s \ {Max(s)}], tokens[Max(s)])]
           iter == CHOOSE f : Eq(f)
<1>1. n \in Nat /\ DOMAIN tokens = D /\ \A x \in D : tokens[x] \in Token
  BY LenProperties
<1>2. ReadTo(tokens) = iter[D]
  <2>1. ReadTo(tokens) =
          (CHOOSE f : f = [s \in SUBSET DOMAIN tokens |->
              IF s = {} THEN NothingRead
              ELSE ReadToken(f[s \ {Max(s)}], tokens[Max(s)])])[DOMAIN tokens]
    BY DEF ReadTo, FoldLeft, MapThenFoldSet
  <2> QED
    BY <1>1, <2>1
<1>3. NothingRead \in JsonState
  BY EmptySeq DEF NothingRead, JsonState
<1>4. step \in [D -> [JsonState -> JsonState]]
  BY <1>1, ReadTokenType
<1>5. \A s \in SUBSET D : s # {} => pick[s] \in s /\ pick[s] = Max(s)
  BY <1>1, MaxIs
<1>6. IsFiniteSet(D)
  BY <1>1, FS_Interval
<1>7. PICK f \in [SUBSET D -> JsonState] : Iterates(f, D, NothingRead, step, pick)
  <2>1. Foldable(D, JsonState, NothingRead, step, pick)
    BY <1>3, <1>4, <1>5, <1>6 DEF Foldable
  <2> HIDE DEF n, D, step, pick
  <2> QED
    BY <2>1, Folding, Zenon
<1>8. ASSUME NEW s \in SUBSET D, s # {}
      PROVE  step[pick[s]][f[s \ {pick[s]}]] = ReadToken(f[s \ {Max(s)}], tokens[Max(s)])
  <2>1. Max(s) \in D /\ pick[s] = Max(s) /\ f[s \ {Max(s)}] \in JsonState
    BY <1>5, <1>8
  <2> QED
    BY <2>1
<1> HIDE DEF step, pick
<1>9. Eq(f)
  BY <1>7, <1>8 DEF Iterates
<1>10. Eq(iter)
  <2> HIDE DEF Eq
  <2> QED
    BY <1>9
<1>11. \A s \in SUBSET D :
         iter[s] = IF s = {} THEN NothingRead ELSE ReadToken(iter[s \ {Max(s)}], tokens[Max(s)])
  BY <1>10
<1> HIDE DEF iter
<1> DEFINE h == [k \in 0..n |-> iter[1..k]]
<1>12. h[0] = NothingRead
  <2>1. 1..0 = {} /\ 0 \in 0..n
    BY <1>1
  <2> QED
    BY <1>11, <2>1
<1>13. \A k \in 1..n : h[k] = ReadToken(h[k - 1], tokens[k])
  <2> TAKE k \in 1..n
  <2>1. /\ 1..k \in SUBSET D /\ 1..k # {} /\ Max(1..k) = k
        /\ (1..k) \ {Max(1..k)} = 1..(k - 1)
    BY <1>1, PrefixMax
  <2>2. iter[1..k] = ReadToken(iter[1..(k - 1)], tokens[k])
    BY <1>11, <2>1
  <2>3. h[k] = iter[1..k] /\ h[k - 1] = iter[1..(k - 1)]
    BY <1>1
  <2> QED
    BY <2>2, <2>3
<1>14. h[n] = iter[D]
  BY <1>1
<1> HIDE DEF h
<1> QED
  BY <1>2, <1>12, <1>13, <1>14

LEMMA ReadNone == ReadTo(<<>>) = NothingRead
<1>1. <<>> \in Seq(Token) /\ Len(<<>>) = 0
  BY EmptySeq
<1> QED
  BY <1>1, ReadFold

LEMMA ReadOneMore ==
  ASSUME NEW tokens \in Seq(Token), NEW token \in Token
  PROVE  ReadTo(Append(tokens, token)) = ReadToken(ReadTo(tokens), token)
<1> DEFINE n == Len(tokens)
           more == Append(tokens, token)
<1>1. /\ more \in Seq(Token) /\ n \in Nat /\ Len(more) = n + 1 /\ more[n + 1] = token
      /\ \A k \in 1..n : more[k] = tokens[k]
  BY LenProperties, AppendProperties
<1> HIDE DEF more
<1>2. PICK h : /\ h[0] = NothingRead
               /\ \A k \in 1..n : h[k] = ReadToken(h[k - 1], tokens[k])
               /\ ReadTo(tokens) = h[n]
  BY ReadFold
<1>3. PICK g : /\ g[0] = NothingRead
               /\ \A k \in 1..(n + 1) : g[k] = ReadToken(g[k - 1], more[k])
               /\ ReadTo(more) = g[n + 1]
  <2>1. \E g : /\ g[0] = NothingRead
               /\ \A k \in 1..Len(more) : g[k] = ReadToken(g[k - 1], more[k])
               /\ ReadTo(more) = g[Len(more)]
    BY <1>1, ReadFold
  <2> QED
    BY <1>1, <2>1
<1> HIDE DEF n
<1> DEFINE T == {k \in Nat : k <= n => g[k] = h[k]}
<1>4. 0 \in T
  BY <1>2, <1>3
<1>5. ASSUME NEW k \in Nat, k \in T
      PROVE  k + 1 \in T
  <2>1. SUFFICES ASSUME k + 1 <= n PROVE g[k + 1] = h[k + 1]
    OBVIOUS
  <2>2. g[k] = h[k] /\ k + 1 \in 1..n /\ k + 1 \in 1..(n + 1) /\ (k + 1) - 1 = k
    BY <1>1, <1>5, <2>1
  <2>3. g[k + 1] = ReadToken(g[k], more[k + 1]) /\ h[k + 1] = ReadToken(h[k], tokens[k + 1])
    BY <1>2, <1>3, <2>2
  <2> QED
    BY <1>1, <2>2, <2>3
<1> HIDE DEF T
<1>6. Nat \subseteq T
  BY <1>4, <1>5, SetInduction
<1>7. g[n] = h[n]
  BY <1>1, <1>6 DEF T
<1>8. n + 1 \in 1..(n + 1) /\ (n + 1) - 1 = n
  BY <1>1
<1>9. g[n + 1] = ReadToken(g[n], more[n + 1])
  BY <1>3, <1>8
<1> QED
  BY <1>1, <1>2, <1>3, <1>7, <1>9 DEF more

\* What the reader has read of what was printed, with what is bare for a value.
JsonTo(tokens) == ReadTo(Valued(tokens))

\* The tokens take the reader from one state to another.
Carries(tokens, from, to) ==
  \A before \in Seq(Token) : JsonTo(before) = from => JsonTo(before \o tokens) = to

LEMMA JsonOneMore ==
  ASSUME NEW tokens \in Seq(Token), NEW token \in Token
  PROVE  JsonTo(Append(tokens, token)) = ReadToken(JsonTo(tokens), AsValue(token))
<1> DEFINE more == Append(tokens, token)
           a == Valued(more)
           b == Append(Valued(tokens), AsValue(token))
           n == Len(tokens)
<1>1. /\ n \in Nat /\ DOMAIN tokens = 1..n /\ more \in Seq(Token) /\ Len(more) = n + 1
      /\ DOMAIN more = 1..(n + 1) /\ more[n + 1] = token
      /\ \A j \in 1..n : more[j] = tokens[j] /\ tokens[j] \in Token
  BY LenProperties, AppendProperties, ElementOfSeq
<1> HIDE DEF more, n
<1>2. \A x \in Token : AsValue(x) \in Token
  BY DEF AsValue, Token
<1>3. /\ Valued(tokens) \in Seq(Token) /\ Len(Valued(tokens)) = n
      /\ \A j \in 1..n : Valued(tokens)[j] = AsValue(tokens[j])
  <2>1. Valued(tokens) = [j \in 1..n |-> AsValue(tokens[j])]
    BY <1>1 DEF Valued
  <2>2. Valued(tokens) \in [1..n -> Token]
    BY <1>1, <1>2, <2>1
  <2> QED
    BY <1>1, <2>1, <2>2, IsASeq, LenProperties
<1>4. /\ a \in Seq(Token) /\ Len(a) = n + 1
      /\ \A j \in 1..(n + 1) : a[j] = AsValue(more[j])
  <2>1. a = [j \in 1..(n + 1) |-> AsValue(more[j])]
    BY <1>1 DEF Valued
  <2>2. \A j \in 1..(n + 1) : more[j] \in Token
    BY <1>1, ElementOfSeq
  <2>3. a \in [1..(n + 1) -> Token]
    BY <1>2, <2>1, <2>2
  <2> HIDE DEF a
  <2>4. n + 1 \in Nat
    BY <1>1
  <2> QED
    BY <2>1, <2>3, <2>4, IsASeq, LenProperties
<1> HIDE DEF a
<1>5. /\ b \in Seq(Token) /\ Len(b) = n + 1 /\ b[n + 1] = AsValue(token)
      /\ \A j \in 1..n : b[j] = Valued(tokens)[j]
  BY <1>2, <1>3, AppendProperties
<1> HIDE DEF b
<1>6. \A j \in 1..Len(a) : a[j] = b[j]
  <2> TAKE j \in 1..Len(a)
  <2>1. j \in 1..n \/ j = n + 1
    BY <1>1, <1>4
  <2> QED
    BY <1>1, <1>3, <1>4, <1>5, <2>1
<1>7. a = b
  BY <1>4, <1>5, <1>6, SeqEqual
<1>8. ReadTo(Append(Valued(tokens), AsValue(token))) = ReadToken(ReadTo(Valued(tokens)), AsValue(token))
  BY <1>2, <1>3, ReadOneMore
<1> QED
  BY <1>7, <1>8 DEF a, b, more, JsonTo

LEMMA JsonNone == JsonTo(<<>>) = NothingRead
<1>1. Valued(<<>>) = <<>>
  BY DEF Valued
<1> QED
  BY <1>1, ReadNone DEF JsonTo

LEMMA CarriesOne ==
  ASSUME NEW token \in Token, NEW from
  PROVE  Carries(<<token>>, from, ReadToken(from, AsValue(token)))
<1> SUFFICES ASSUME NEW before \in Seq(Token), JsonTo(before) = from
             PROVE  JsonTo(before \o <<token>>) = ReadToken(from, AsValue(token))
  BY DEF Carries
<1> QED
  BY JsonOneMore, AppendIsConcat

LEMMA CarriesNothing ==
  ASSUME NEW state
  PROVE  Carries(<<>>, state, state)
BY ConcatEmptySeq DEF Carries

LEMMA CarriesOn ==
  ASSUME NEW a \in Seq(Token), NEW b \in Seq(Token), NEW from, NEW over, NEW to,
         Carries(a, from, over), Carries(b, over, to)
  PROVE  Carries(a \o b, from, to)
<1> SUFFICES ASSUME NEW before \in Seq(Token), JsonTo(before) = from
             PROVE  JsonTo(before \o (a \o b)) = to
  BY DEF Carries
<1>1. JsonTo(before \o a) = over /\ before \o a \in Seq(Token)
  BY ConcatProperties DEF Carries
<1>2. JsonTo((before \o a) \o b) = to
  BY <1>1 DEF Carries
<1>3. (before \o a) \o b = before \o (a \o b)
  BY ConcatAssociative
<1> QED
  BY <1>2, <1>3

\* The first sequence, the first two of them, and so on.
FlatPrefixes(f, lists, n, E) ==
  /\ f \in [1..n -> Seq(E)] /\ f[1] = lists[1]
  /\ \A k \in 2..n : f[k] = f[k - 1] \o lists[k]

\* What FlattenSeq makes of sequences is the last of these.
LEMMA FlattensTo ==
  ASSUME NEW E, NEW n \in Nat \ {0}, NEW lists \in [1..n -> Seq(E)]
  PROVE  \E f : FlatPrefixes(f, lists, n, E) /\ FlattenSeq(lists) = f[n]
<1> DEFINE S == Seq(E)
           Good(f) == f \in [1..n -> S] /\ f[1] = lists[1] /\ \A k \in 2..n : f[k] = f[k - 1] \o lists[k]
<1>1. \E f : Good(f)
  <2> DEFINE D == 1..n
             step == [x \in D |-> [flat \in S |-> flat \o lists[x]]]
             pick == [s \in SUBSET D |-> Max(s)]
  <2>1. <<>> \in S /\ IsFiniteSet(D)
    BY EmptySeq, FS_Interval
  <2>2. step \in [D -> [S -> S]]
    BY ConcatProperties
  <2>3. \A s \in SUBSET D : s # {} => pick[s] \in s /\ pick[s] = Max(s)
    BY MaxIs
  <2>4. PICK iter \in [SUBSET D -> S] : Iterates(iter, D, <<>>, step, pick)
    <3>1. Foldable(D, S, <<>>, step, pick)
      BY <2>1, <2>2, <2>3 DEF Foldable
    <3> HIDE DEF S, D, step, pick
    <3> QED
      BY <3>1, Folding, Zenon
  <2>5. iter[{}] = <<>>
    BY <2>4 DEF Iterates
  <2>6. ASSUME NEW k \in 1..n
        PROVE  iter[1..k] = iter[1..(k - 1)] \o lists[k]
    <3>1. /\ 1..k \in SUBSET D /\ 1..k # {} /\ Max(1..k) = k
          /\ (1..k) \ {Max(1..k)} = 1..(k - 1) /\ 1..(k - 1) \in SUBSET D
      BY PrefixMax
    <3>2. iter[1..k] = step[pick[1..k]][iter[(1..k) \ {pick[1..k]}]]
      BY <2>4, <3>1 DEF Iterates
    <3>3. pick[1..k] = k /\ iter[1..(k - 1)] \in S
      BY <2>3, <2>4, <3>1
    <3>4. step[k][iter[1..(k - 1)]] = iter[1..(k - 1)] \o lists[k]
      BY <3>3
    <3> QED
      BY <3>1, <3>2, <3>3, <3>4
  <2> DEFINE f == [k \in 1..n |-> iter[1..k]]
  <2>7. f \in [1..n -> S]
    <3>1. \A k \in 1..n : 1..k \in SUBSET D
      OBVIOUS
    <3> QED
      BY <2>4, <3>1
  <2>8. f[1] = lists[1]
    <3>1. 1 \in 1..n /\ 1..(1 - 1) = {}
      OBVIOUS
    <3>2. iter[1..1] = <<>> \o lists[1]
      BY <2>5, <2>6, <3>1
    <3>3. lists[1] \in Seq(E)
      BY <3>1
    <3> QED
      BY <3>1, <3>2, <3>3, ConcatEmptySeq
  <2>9. \A k \in 2..n : f[k] = f[k - 1] \o lists[k]
    <3> TAKE k \in 2..n
    <3>1. k \in 1..n /\ k - 1 \in 1..n
      OBVIOUS
    <3> QED
      BY <2>6, <3>1
  <2> HIDE DEF f
  <2> QED
    BY <2>7, <2>8, <2>9
<1>2. PICK f : Good(f)
  BY <1>1
<1>3. Len(lists) = n
  OBVIOUS
<1>4. FlattenSeq(lists) = f[n]
  BY <1>2, <1>3, Flattened
<1> QED
  BY <1>2, <1>4 DEF FlatPrefixes

\* One list of tokens after the other.
LEMMA CarriesAll ==
  ASSUME NEW n \in Nat \ {0}, NEW lists \in [1..n -> Seq(Token)], NEW states,
         \A j \in 1..n : Carries(lists[j], states[j - 1], states[j])
  PROVE  FlattenSeq(lists) \in Seq(Token) /\ Carries(FlattenSeq(lists), states[0], states[n])
<1> DEFINE Good(f) == /\ f \in [1..n -> Seq(Token)] /\ f[1] = lists[1]
                      /\ \A k \in 2..n : f[k] = f[k - 1] \o lists[k]
<1>1. PICK f : FlatPrefixes(f, lists, n, Token) /\ FlattenSeq(lists) = f[n]
  BY FlattensTo
<1>2. Good(f)
  BY <1>1 DEF FlatPrefixes
<1>4. FlattenSeq(lists) = f[n]
  BY <1>1
<1> DEFINE T == {k \in Nat : k + 1 \in 1..n => Carries(f[k + 1], states[0], states[k + 1])}
<1>5. 0 \in T
  <2>1. 1 \in 1..n /\ Carries(lists[1], states[1 - 1], states[1])
    OBVIOUS
  <2>2. 1 - 1 = 0 /\ 0 + 1 = 1
    OBVIOUS
  <2> QED
    BY <1>2, <2>1, <2>2
<1>6. ASSUME NEW k \in Nat, k \in T
      PROVE  k + 1 \in T
  <2> SUFFICES ASSUME (k + 1) + 1 \in 1..n
               PROVE  Carries(f[(k + 1) + 1], states[0], states[(k + 1) + 1])
    OBVIOUS
  <2> DEFINE m == (k + 1) + 1
  <2>1. m \in 2..n /\ m - 1 = k + 1 /\ k + 1 \in 1..n
    OBVIOUS
  <2>2. Carries(f[k + 1], states[0], states[k + 1])
    BY <1>6, <2>1
  <2>3. Carries(lists[m], states[m - 1], states[m]) /\ m \in 1..n
    BY <2>1
  <2>4. f[m] = f[k + 1] \o lists[m] /\ f[k + 1] \in Seq(Token) /\ lists[m] \in Seq(Token)
    BY <1>2, <2>1, <2>3
  <2> HIDE DEF m
  <2>5. Carries(f[k + 1] \o lists[m], states[0], states[m])
    BY <2>1, <2>2, <2>3, <2>4, CarriesOn
  <2> QED
    BY <2>4, <2>5 DEF m
<1> HIDE DEF T
<1>7. Nat \subseteq T
  BY <1>5, <1>6, SetInduction
<1>8. n - 1 \in T /\ (n - 1) + 1 = n /\ n \in 1..n
  BY <1>7
<1>9. Carries(f[n], states[0], states[n])
  BY <1>8 DEF T
<1> QED
  BY <1>2, <1>4, <1>8, <1>9

\* The reader has found nothing wrong and is inside these brackets.
Stands(last, inside) == [last |-> last, inside |-> inside, ok |-> TRUE]

Inside(inside, token) ==
  IF token \in {"openObject", "openArray"} THEN Append(inside, token)
  ELSE IF token \in {"closeObject", "closeArray"} THEN Front(inside)
  ELSE inside

AtTop == <<"openObject">>
InArray == <<"openObject", "openArray">>
InObject == <<"openObject", "openObject">>

LEMMA Tuples ==
  ASSUME NEW S, NEW a \in S, NEW b \in S
  PROVE  /\ <<a>> \in Seq(S) /\ <<a, b>> \in Seq(S)
         /\ <<a>> # <<>> /\ <<a, b>> # <<>>
         /\ <<a>> \o <<b>> = <<a, b>> /\ Append(<<a>>, b) = <<a, b>>
         /\ Last(<<a>>) = a /\ Last(<<a, b>>) = b
         /\ Front(<<a>>) = <<>> /\ Front(<<a, b>>) = <<a>>
<1>1. /\ <<a>> \in Seq(S) /\ Len(<<a>>) = 1 /\ <<a>>[1] = a
  OBVIOUS
<1>2. /\ <<a, b>> \in Seq(S) /\ Len(<<a, b>>) = 2 /\ <<a, b>>[1] = a /\ <<a, b>>[2] = b
  OBVIOUS
<1>3. <<a>> # <<>> /\ <<a, b>> # <<>>
  BY <1>1, <1>2, EmptySeq
<1>4. Last(<<a>>) = a /\ Last(<<a, b>>) = b
  BY <1>1, <1>2 DEF Last
<1>5. Append(<<a>>, b) = <<a, b>>
  <2> DEFINE both == Append(<<a>>, b)
             two == <<a, b>>
  <2>1. both \in Seq(S) /\ Len(both) = 2 /\ both[1] = a /\ both[2] = b
    BY <1>1, AppendProperties
  <2>2. two \in Seq(S) /\ Len(two) = 2 /\ two[1] = a /\ two[2] = b
    BY <1>2
  <2> HIDE DEF both, two
  <2>3. \A j \in 1..Len(both) : both[j] = two[j]
    <3> TAKE j \in 1..Len(both)
    <3>1. j = 1 \/ j = 2
      BY <2>1
    <3> QED
      BY <2>1, <2>2, <3>1
  <2>4. both = two
    BY <2>1, <2>2, <2>3, SeqEqual
  <2> QED
    BY <2>4 DEF both, two
<1>6. <<a>> \o <<b>> = <<a, b>>
  BY <1>1, <1>5, AppendIsConcat
<1>7. Front(<<a>>) = <<>>
  <2>1. Len(<<a>>) - 1 = 0
    BY <1>1
  <2>2. Front(<<a>>) = SubSeq(<<a>>, 1, 0)
    BY <2>1 DEF Front
  <2>3. SubSeq(<<a>>, 1, 0) \in Seq(S) /\ Len(SubSeq(<<a>>, 1, 0)) = 0
    BY <1>1, SubSeqProperties
  <2> QED
    BY <2>2, <2>3, EmptySeq
<1>8. Front(<<a, b>>) = <<a>>
  <2> DEFINE front == SubSeq(<<a, b>>, 1, 1)
             one == <<a>>
  <2>1. front \in Seq(S) /\ Len(front) = 1 /\ front[1] = a
    BY <1>2, SubSeqProperties
  <2>2. one \in Seq(S) /\ Len(one) = 1 /\ one[1] = a
    BY <1>1
  <2>3. Len(<<a, b>>) - 1 = 1
    BY <1>2
  <2> HIDE DEF front, one
  <2>4. front = one
    BY <2>1, <2>2, SeqEqual
  <2> QED
    BY <2>3, <2>4 DEF Front, front, one
<1> QED
  BY <1>1, <1>2, <1>3, <1>4, <1>5, <1>6, <1>7, <1>8

LEMMA Brackets ==
  /\ AtTop # <<>> /\ InArray # <<>> /\ InObject # <<>>
  /\ Last(AtTop) = "openObject" /\ Last(InArray) = "openArray" /\ Last(InObject) = "openObject"
  /\ Append(AtTop, "openArray") = InArray /\ Append(AtTop, "openObject") = InObject
  /\ Front(InArray) = AtTop /\ Front(InObject) = AtTop /\ Front(AtTop) = <<>>
<1>1. "openObject" \in Token /\ "openArray" \in Token
  BY DEF Token
<1>2. /\ InArray # <<>> /\ Last(InArray) = "openArray" /\ Append(<<"openObject">>, "openArray") = InArray
      /\ Front(InArray) = <<"openObject">>
  BY <1>1, Tuples DEF InArray
<1>3. /\ InObject # <<>> /\ Last(InObject) = "openObject" /\ Append(<<"openObject">>, "openObject") = InObject
      /\ Front(InObject) = <<"openObject">>
  BY <1>1, Tuples DEF InObject
<1>4. AtTop # <<>> /\ Last(AtTop) = "openObject" /\ Front(AtTop) = <<>>
  BY <1>1, Tuples DEF AtTop
<1> QED
  BY <1>2, <1>3, <1>4 DEF AtTop

LEMMA Reading ==
  ASSUME NEW token \in Token, NEW last, NEW inside, inside # <<>>,
         AsValue(token) \in Follows(last, Last(inside))
  PROVE  Carries(<<token>>, Stands(last, inside), Stands(AsValue(token), Inside(inside, AsValue(token))))
<1> DEFINE read1 == ReadToken(Stands(last, inside), AsValue(token))
<1>1. Carries(<<token>>, Stands(last, inside), read1)
  BY CarriesOne
<1>2. read1 = Stands(AsValue(token), Inside(inside, AsValue(token)))
  BY DEF ReadToken, Stands, Inside
<1> QED
  BY <1>1, <1>2

\* A name, its value and a comma in an object.
LEMMA NameRead ==
  ASSUME NEW last \in {"openObject", "comma"}, NEW inside \in {AtTop, InObject}
  PROVE  Carries(<<"name">>, Stands(last, inside), Stands("name", inside))
<1>1. inside # <<>> /\ Last(inside) = "openObject"
  BY Brackets
<1>2. "name" \in Token /\ AsValue("name") = "name" /\ Inside(inside, "name") = inside
  BY DEF Token, AsValue, Inside
<1>3. "name" \in Follows(last, Last(inside))
  BY <1>1 DEF Follows
<1> QED
  BY <1>1, <1>2, <1>3, Reading

LEMMA ValueRead ==
  ASSUME NEW value \in {"value", "bare"}, NEW inside \in {AtTop, InObject}
  PROVE  Carries(<<value>>, Stands("name", inside), Stands("value", inside))
<1>1. inside # <<>>
  BY Brackets
<1>2. value \in Token /\ AsValue(value) = "value" /\ Inside(inside, "value") = inside
  BY DEF Token, AsValue, Inside
<1>3. "value" \in Follows("name", Last(inside))
  BY DEF Follows
<1> QED
  BY <1>1, <1>2, <1>3, Reading

LEMMA CommaRead ==
  ASSUME NEW last \in {"value", "closeObject", "closeArray"}, NEW inside \in {AtTop, InObject, InArray}
  PROVE  Carries(Comma, Stands(last, inside), Stands("comma", inside))
<1>1. inside # <<>>
  BY Brackets
<1>2. "comma" \in Token /\ AsValue("comma") = "comma" /\ Inside(inside, "comma") = inside
  BY DEF Token, AsValue, Inside
<1>3. "comma" \in Follows(last, Last(inside))
  BY DEF Follows
<1> QED
  BY <1>1, <1>2, <1>3, Reading DEF Comma

\* The items of an array and its brackets.
LEMMA ItemRead ==
  ASSUME NEW last \in {"openArray", "comma"}
  PROVE  Carries(<<"value">>, Stands(last, InArray), Stands("value", InArray))
<1>1. "value" \in Token /\ AsValue("value") = "value" /\ Inside(InArray, "value") = InArray
  BY DEF Token, AsValue, Inside
<1>2. "value" \in Follows(last, Last(InArray))
  BY Brackets DEF Follows
<1> QED
  BY <1>1, <1>2, Reading, Brackets

LEMMA BracketRead ==
  /\ Carries(<<"openArray">>, Stands("name", AtTop), Stands("openArray", InArray))
  /\ Carries(<<"openObject">>, Stands("name", AtTop), Stands("openObject", InObject))
  /\ \A last \in {"openArray", "value"} : Carries(<<"closeArray">>, Stands(last, InArray), Stands("closeArray", AtTop))
  /\ Carries(<<"closeObject">>, Stands("value", InObject), Stands("closeObject", AtTop))
  /\ \A last \in {"value", "closeArray"} : Carries(<<"closeObject">>, Stands(last, AtTop), Stands("closeObject", <<>>))
<1> DEFINE Opening == {"openObject", "openArray"}
           Closing == {"closeObject", "closeArray"}
<1>1. \A token \in Opening \union Closing : token \in Token /\ AsValue(token) = token
  BY DEF Token, AsValue
<1>2. /\ Inside(AtTop, "openArray") = InArray /\ Inside(AtTop, "openObject") = InObject /\ Inside(InArray, "closeArray") = AtTop
      /\ Inside(InObject, "closeObject") = AtTop /\ Inside(AtTop, "closeObject") = <<>>
  BY Brackets DEF Inside
<1>3. /\ "openArray" \in Follows("name", Last(AtTop)) /\ "openObject" \in Follows("name", Last(AtTop))
      /\ \A last \in {"openArray", "value"} : "closeArray" \in Follows(last, Last(InArray))
      /\ "closeObject" \in Follows("value", Last(InObject))
      /\ \A last \in {"value", "closeArray"} : "closeObject" \in Follows(last, Last(AtTop))
  BY Brackets DEF Follows
<1>4. Carries(<<"openArray">>, Stands("name", AtTop), Stands("openArray", InArray))
  BY <1>1, <1>2, <1>3, Reading, Brackets
<1>5. Carries(<<"openObject">>, Stands("name", AtTop), Stands("openObject", InObject))
  BY <1>1, <1>2, <1>3, Reading, Brackets
<1>6. ASSUME NEW last \in {"openArray", "value"}
      PROVE  Carries(<<"closeArray">>, Stands(last, InArray), Stands("closeArray", AtTop))
  BY <1>1, <1>2, <1>3, Reading, Brackets
<1>7. Carries(<<"closeObject">>, Stands("value", InObject), Stands("closeObject", AtTop))
  BY <1>1, <1>2, <1>3, Reading, Brackets
<1>8. ASSUME NEW last \in {"value", "closeArray"}
      PROVE  Carries(<<"closeObject">>, Stands(last, AtTop), Stands("closeObject", <<>>))
  BY <1>1, <1>2, <1>3, Reading, Brackets
<1> QED
  BY <1>4, <1>5, <1>6, <1>7, <1>8

LEMMA MemberRead ==
  ASSUME NEW last \in {"openObject", "comma"}, NEW value \in {"value", "bare"}, NEW inside \in {AtTop, InObject}
  PROVE  /\ <<"name", value>> \in Seq(Token)
         /\ Carries(<<"name", value>>, Stands(last, inside), Stands("value", inside))
<1>1. "name" \in Token /\ value \in Token
  BY DEF Token
<1>2. /\ <<"name">> \in Seq(Token) /\ <<value>> \in Seq(Token) /\ <<"name", value>> \in Seq(Token)
      /\ <<"name">> \o <<value>> = <<"name", value>>
  BY <1>1, Tuples
<1>3. Carries(<<"name">> \o <<value>>, Stands(last, inside), Stands("value", inside))
  BY <1>2, NameRead, ValueRead, CarriesOn
<1> QED
  BY <1>2, <1>3

LEMMA SeparatorRead ==
  ASSUME NEW n \in Nat \ {0}, NEW j \in 1..n, NEW inside \in {InArray, InObject}
  PROVE  /\ ItemSeparator(j, n) \in Seq(Token)
         /\ Carries(ItemSeparator(j, n), Stands("value", inside),
                    Stands(IF j < n THEN "comma" ELSE "value", inside))
<1>1. CASE j < n
  <2>1. ItemSeparator(j, n) = Comma
    BY <1>1 DEF ItemSeparator
  <2>2. "comma" \in Token
    BY DEF Token
  <2>3. Comma \in Seq(Token)
    BY <2>2, Tuples DEF Comma
  <2>4. Carries(Comma, Stands("value", inside), Stands("comma", inside))
    BY CommaRead
  <2> QED
    BY <1>1, <2>1, <2>3, <2>4
<1>2. CASE ~(j < n)
  BY <1>2, CarriesNothing, EmptySeq DEF ItemSeparator
<1> QED
  BY <1>1, <1>2

\* The items of an array.
LEMMA ItemsRead ==
  ASSUME NEW n \in Nat
  PROVE  /\ Items(n) \in Seq(Token)
         /\ Carries(Items(n), Stands("openArray", InArray), Stands(IF n = 0 THEN "openArray" ELSE "value", InArray))
<1>1. CASE n = 0
  <2> DEFINE none == [j \in 1..n |-> <<"value">> \o ItemSeparator(j, n)]
  <2>1. none = <<>> /\ Len(none) = 0
    BY <1>1
  <2>2. Items(n) = none
    BY <2>1 DEF Items, FlattenSeq
  <2> HIDE DEF none
  <2> QED
    BY <1>1, <2>1, <2>2, CarriesNothing, EmptySeq
<1>2. CASE n # 0
  <2> DEFINE lists == [j \in 1..n |-> <<"value">> \o ItemSeparator(j, n)]
             lasts == [j \in 0..n |-> IF j = 0 THEN "openArray" ELSE IF j < n THEN "comma" ELSE "value"]
             states == [j \in 0..n |-> Stands(lasts[j], InArray)]
  <2>1. n \in Nat \ {0}
    BY <1>2
  <2>2. "value" \in Token
    BY DEF Token
  <2>3. <<"value">> \in Seq(Token)
    BY <2>2, Tuples
  <2>4. ASSUME NEW j \in 1..n
        PROVE  /\ <<"value">> \o ItemSeparator(j, n) \in Seq(Token)
               /\ Carries(<<"value">> \o ItemSeparator(j, n), states[j - 1], states[j])
    <3> DEFINE last == IF j = 1 THEN "openArray" ELSE "comma"
               next == IF j < n THEN "comma" ELSE "value"
    <3>1. states[j - 1] = Stands(last, InArray) /\ states[j] = Stands(next, InArray)
      <4>1. lasts[j - 1] = last /\ lasts[j] = next /\ j - 1 \in 0..n /\ j \in 0..n
        <5>1. j - 1 \in 0..n /\ j \in 0..n /\ j # 0 /\ j - 1 < n /\ (j - 1 = 0 <=> j = 1)
          OBVIOUS
        <5>2. lasts[j] = next
          BY <5>1
        <5>3. lasts[j - 1] = last
          BY <5>1
        <5> QED
          BY <5>1, <5>2, <5>3
      <4> HIDE DEF lasts, last, next
      <4> QED
        BY <4>1
    <3>2. Carries(<<"value">>, Stands(last, InArray), Stands("value", InArray))
      <4>1. last \in {"openArray", "comma"}
        OBVIOUS
      <4> HIDE DEF last
      <4> QED
        BY <4>1, ItemRead
    <3>3. /\ ItemSeparator(j, n) \in Seq(Token)
          /\ Carries(ItemSeparator(j, n), Stands("value", InArray), Stands(next, InArray))
      BY <2>1, SeparatorRead
    <3>4. <<"value">> \o ItemSeparator(j, n) \in Seq(Token)
      BY <2>3, <3>3, ConcatProperties
    <3> HIDE DEF last, next
    <3>5. Carries(<<"value">> \o ItemSeparator(j, n), Stands(last, InArray), Stands(next, InArray))
      BY <2>3, <3>2, <3>3, CarriesOn
    <3> QED
      BY <3>1, <3>4, <3>5
  <2>5. lists \in [1..n -> Seq(Token)]
    BY <2>4
  <2>6. \A j \in 1..n : Carries(lists[j], states[j - 1], states[j])
    BY <2>4
  <2>7. states[0] = Stands("openArray", InArray) /\ states[n] = Stands("value", InArray)
    <3>1. lasts[0] = "openArray" /\ lasts[n] = "value" /\ 0 \in 0..n /\ n \in 0..n
      BY <2>1
    <3> HIDE DEF lasts
    <3> QED
      BY <3>1
  <2>8. Items(n) = FlattenSeq(lists)
    BY DEF Items
  <2> HIDE DEF lists, states
  <2>9. FlattenSeq(lists) \in Seq(Token) /\ Carries(FlattenSeq(lists), states[0], states[n])
    BY <2>1, <2>5, <2>6, CarriesAll
  <2> QED
    BY <1>2, <2>7, <2>8, <2>9
<1> QED
  BY <1>1, <1>2

\* The members of an object.
LEMMA ObjectRead ==
  ASSUME NEW n \in Nat \ {0}, NEW values \in [1..n -> {"value", "bare"}]
  PROVE  /\ Object(values) \in Seq(Token)
         /\ Carries(Object(values), Stands("name", AtTop), Stands("closeObject", AtTop))
<1> DEFINE list(j) == <<"name", values[j]>> \o ItemSeparator(j, n)
           lists == [j \in 1..n |-> list(j)]
           lasts == [j \in 0..n |-> IF j = 0 THEN "openObject" ELSE IF j < n THEN "comma" ELSE "value"]
           states == [j \in 0..n |-> Stands(lasts[j], InObject)]
<1>1. ASSUME NEW j \in 1..n
      PROVE  list(j) \in Seq(Token) /\ Carries(list(j), states[j - 1], states[j])
  <2> DEFINE last == IF j = 1 THEN "openObject" ELSE "comma"
             next == IF j < n THEN "comma" ELSE "value"
             member == <<"name", values[j]>>
  <2>1. states[j - 1] = Stands(last, InObject) /\ states[j] = Stands(next, InObject)
    <3>1. lasts[j - 1] = last /\ lasts[j] = next /\ j - 1 \in 0..n /\ j \in 0..n
      <4>1. j - 1 \in 0..n /\ j \in 0..n /\ j # 0 /\ j - 1 < n /\ (j - 1 = 0 <=> j = 1)
        OBVIOUS
      <4>2. lasts[j] = next
        BY <4>1
      <4>3. lasts[j - 1] = last
        BY <4>1
      <4> QED
        BY <4>1, <4>2, <4>3
    <3> HIDE DEF lasts, last, next
    <3> QED
      BY <3>1
  <2>2. member \in Seq(Token) /\ Carries(member, Stands(last, InObject), Stands("value", InObject))
    <3>1. last \in {"openObject", "comma"} /\ values[j] \in {"value", "bare"}
      OBVIOUS
    <3> HIDE DEF last
    <3> QED
      BY <3>1, MemberRead
  <2>3. /\ ItemSeparator(j, n) \in Seq(Token)
        /\ Carries(ItemSeparator(j, n), Stands("value", InObject), Stands(next, InObject))
    BY SeparatorRead
  <2> HIDE DEF last, next, member
  <2>4. member \o ItemSeparator(j, n) \in Seq(Token)
    BY <2>2, <2>3, ConcatProperties
  <2>5. Carries(member \o ItemSeparator(j, n), Stands(last, InObject), Stands(next, InObject))
    BY <2>2, <2>3, CarriesOn
  <2>6. list(j) = member \o ItemSeparator(j, n)
    BY DEF member
  <2> HIDE DEF list, states
  <2> QED
    BY <2>1, <2>4, <2>5, <2>6
<1> HIDE DEF list
<1>2. lists \in [1..n -> Seq(Token)] /\ \A j \in 1..n : Carries(lists[j], states[j - 1], states[j])
  <2> HIDE DEF states
  <2> QED
    BY <1>1
<1>3. states[0] = Stands("openObject", InObject) /\ states[n] = Stands("value", InObject)
  <2>1. lasts[0] = "openObject" /\ lasts[n] = "value" /\ 0 \in 0..n /\ n \in 0..n
    OBVIOUS
  <2> HIDE DEF lasts
  <2> QED
    BY <2>1
<1> DEFINE flat == FlattenSeq(lists)
<1>4. flat \in Seq(Token) /\ Carries(flat, states[0], states[n])
  <2> HIDE DEF lists, states
  <2> QED
    BY <1>2, CarriesAll
<1>5. Object(values) = (<<"openObject">> \o flat) \o <<"closeObject">>
  <2>1. Len(values) = n /\ DOMAIN values = 1..n
    OBVIOUS
  <2>2. Object(values) = <<"openObject">> \o FlattenSeq([j \in 1..n |-> <<"name", values[j]>> \o ItemSeparator(j, n)]) \o <<"closeObject">>
    BY <2>1 DEF Object
  <2> QED
    BY <2>2 DEF list
<1> HIDE DEF flat
<1>6. "openObject" \in Token /\ "closeObject" \in Token
  BY DEF Token
<1>7. <<"openObject">> \in Seq(Token) /\ <<"closeObject">> \in Seq(Token)
  BY <1>6, Tuples
<1>8. <<"openObject">> \o flat \in Seq(Token) /\ (<<"openObject">> \o flat) \o <<"closeObject">> \in Seq(Token)
  BY <1>4, <1>7, ConcatProperties
<1>9. Carries(flat, Stands("openObject", InObject), Stands("value", InObject))
  BY <1>3, <1>4
<1>10. Carries(<<"openObject">> \o flat, Stands("name", AtTop), Stands("value", InObject))
  BY <1>4, <1>7, <1>9, BracketRead, CarriesOn
<1>11. Carries((<<"openObject">> \o flat) \o <<"closeObject">>, Stands("name", AtTop), Stands("closeObject", AtTop))
  BY <1>7, <1>8, <1>10, BracketRead, CarriesOn
<1> QED
  BY <1>5, <1>8, <1>11

\* What the members print, up to the comma after them.
LEMMA ValueTokens ==
  ASSUME NEW last \in {"openObject", "comma"}, NEW value \in {"value", "bare"}
  PROVE  /\ <<"name", value>> \o Comma \in Seq(Token)
         /\ Carries(<<"name", value>> \o Comma, Stands(last, AtTop), Stands("comma", AtTop))
         /\ <<"name">> \o <<value>> \o Comma = <<"name", value>> \o Comma
<1>1. "comma" \in Token /\ "name" \in Token /\ value \in Token
  BY DEF Token
<1>2. Comma \in Seq(Token) /\ <<"name">> \o <<value>> = <<"name", value>>
  BY <1>1, Tuples DEF Comma
<1>3. <<"name", value>> \in Seq(Token) /\ Carries(<<"name", value>>, Stands(last, AtTop), Stands("value", AtTop))
  BY MemberRead
<1>4. Carries(<<"name", value>> \o Comma, Stands(last, AtTop), Stands("comma", AtTop))
  <2>1. Carries(Comma, Stands("value", AtTop), Stands("comma", AtTop))
    BY CommaRead
  <2> QED
    BY <1>2, <1>3, <2>1, CarriesOn
<1>5. <<"name", value>> \o Comma \in Seq(Token)
  BY <1>2, <1>3, ConcatProperties
<1> QED
  BY <1>2, <1>4, <1>5

LEMMA ArrayTokens ==
  ASSUME NEW n \in Nat
  PROVE  /\ <<"name", "openArray">> \o Items(n) \o <<"closeArray">> \in Seq(Token)
         /\ Carries(<<"name", "openArray">> \o Items(n) \o <<"closeArray">>, Stands("comma", AtTop), Stands("closeArray", AtTop))
<1>1. "name" \in Token /\ "openArray" \in Token /\ "closeArray" \in Token
  BY DEF Token
<1>2. /\ <<"name">> \in Seq(Token) /\ <<"openArray">> \in Seq(Token) /\ <<"closeArray">> \in Seq(Token)
      /\ <<"name">> \o <<"openArray">> = <<"name", "openArray">> /\ <<"name", "openArray">> \in Seq(Token)
  BY <1>1, Tuples
<1>3. Carries(<<"name", "openArray">>, Stands("comma", AtTop), Stands("openArray", InArray))
  <2>1. Carries(<<"name">>, Stands("comma", AtTop), Stands("name", AtTop))
    BY NameRead
  <2>2. Carries(<<"name">> \o <<"openArray">>, Stands("comma", AtTop), Stands("openArray", InArray))
    BY <1>2, <2>1, BracketRead, CarriesOn
  <2> QED
    BY <1>2, <2>2
<1> DEFINE last == IF n = 0 THEN "openArray" ELSE "value"
           open == <<"name", "openArray">> \o Items(n)
<1>4. Items(n) \in Seq(Token) /\ Carries(Items(n), Stands("openArray", InArray), Stands(last, InArray))
  BY ItemsRead
<1>5. last \in {"openArray", "value"}
  OBVIOUS
<1> HIDE DEF last
<1>6. open \in Seq(Token) /\ Carries(open, Stands("comma", AtTop), Stands(last, InArray))
  BY <1>2, <1>3, <1>4, ConcatProperties, CarriesOn
<1>7. Carries(<<"closeArray">>, Stands(last, InArray), Stands("closeArray", AtTop))
  BY <1>5, BracketRead
<1> HIDE DEF open
<1>8. open \o <<"closeArray">> \in Seq(Token) /\ Carries(open \o <<"closeArray">>, Stands("comma", AtTop), Stands("closeArray", AtTop))
  BY <1>2, <1>6, <1>7, ConcatProperties, CarriesOn
<1> QED
  BY <1>8 DEF open

LEMMA ObjectTokens ==
  ASSUME NEW n \in Nat \ {0}, NEW values \in [1..n -> {"value", "bare"}]
  PROVE  /\ <<"name">> \o Object(values) \o Comma \in Seq(Token)
         /\ Carries(<<"name">> \o Object(values) \o Comma, Stands("comma", AtTop), Stands("comma", AtTop))
<1> DEFINE named == <<"name">> \o Object(values)
<1>1. "name" \in Token /\ "comma" \in Token
  BY DEF Token
<1>2. <<"name">> \in Seq(Token) /\ Comma \in Seq(Token)
  BY <1>1, Tuples DEF Comma
<1>3. Carries(<<"name">>, Stands("comma", AtTop), Stands("name", AtTop))
  BY NameRead
<1>4. Object(values) \in Seq(Token) /\ Carries(Object(values), Stands("name", AtTop), Stands("closeObject", AtTop))
  BY ObjectRead
<1>5. named \in Seq(Token) /\ Carries(named, Stands("comma", AtTop), Stands("closeObject", AtTop))
  BY <1>2, <1>3, <1>4, ConcatProperties, CarriesOn
<1>6. Carries(Comma, Stands("closeObject", AtTop), Stands("comma", AtTop))
  BY CommaRead
<1> HIDE DEF named
<1>7. named \o Comma \in Seq(Token) /\ Carries(named \o Comma, Stands("comma", AtTop), Stands("comma", AtTop))
  BY <1>2, <1>5, <1>6, ConcatProperties, CarriesOn
<1> QED
  BY <1>7 DEF named

\* What the reader may have come to: the start of the object, a further member,
\* the last of them, and the end.
AtStart == {Stands("openObject", AtTop)}
AtMember == {Stands("comma", AtTop)}
AtLast == {Stands("value", AtTop), Stands("closeArray", AtTop)}
AtEnd == {Stands("closeObject", <<>>)}

\* What it has come to after so many members.
Reached(n) ==
  IF n = 0 THEN AtStart
  ELSE IF n <= 19 THEN AtMember
  ELSE IF n = 20 THEN AtLast
  ELSE AtEnd

Separated ==
  /\ entry \in Seq(Token)
  /\ IF printed = -1 THEN entry = <<>> ELSE JsonTo(entry) \in Reached(printed)

EntryInv ==
  /\ printed \in -1..21 /\ capabilities \in BOOLEAN
  /\ ~capabilities => Separated

\* The first of the members is a text, and the last an array.
LEMMA MembersAre ==
  /\ Len(Members) = 20
  /\ Members[1] = "localInterface" /\ Members[20] = "managementAddresses"
  /\ \A k \in 1..19 : Members[k] # "managementAddresses"
BY DEF Members

\* Tokens that take the reader from where it is to where it should come.
Fit(tokens, n) ==
  /\ tokens \in Seq(Token)
  /\ \A from \in Reached(n) : \E to \in Reached(n + 1) : Carries(tokens, from, to)

LEMMA EmitsMember ==
  ASSUME EntryInv, NEW tokens, ~capabilities => Fit(tokens, printed),
         printed \in 0..20, EmitWith(tokens, capabilities)
  PROVE  EntryInv'
<1>1. /\ printed' = printed + 1 /\ printed' \in 1..21 /\ printed' \in -1..21 /\ printed' # -1
      /\ printed # -1
      /\ entry' = entry \o tokens /\ capabilities' = capabilities
  BY DEF EmitWith
<1>2. ASSUME ~capabilities
      PROVE  Separated'
  <2>1. entry \in Seq(Token) /\ JsonTo(entry) \in Reached(printed)
    BY <1>1, <1>2 DEF EntryInv, Separated
  <2>2. PICK to \in Reached(printed + 1) : Carries(tokens, JsonTo(entry), to)
    BY <1>2, <2>1 DEF Fit
  <2>3. JsonTo(entry') \in Reached(printed')
    BY <1>1, <2>1, <2>2 DEF Carries
  <2>4. entry' \in Seq(Token)
    BY <1>1, <1>2, <2>1, ConcatProperties DEF Fit
  <2> QED
    BY <1>1, <2>3, <2>4 DEF Separated
<1> QED
  BY <1>1, <1>2 DEF EntryInv

\* What is printed of a member, with the comma after it.
LEMMA FitsBetween ==
  ASSUME NEW n \in 0..18, NEW tokens \in Seq(Token),
         n = 0 => Carries(tokens, Stands("openObject", AtTop), Stands("comma", AtTop)),
         n > 0 => Carries(tokens, Stands("comma", AtTop), Stands("comma", AtTop))
  PROVE  Fit(tokens, n)
<1> DEFINE one == Stands("openObject", AtTop)
           two == Stands("comma", AtTop)
<1>1. AtStart = {one} /\ AtMember = {two}
  BY DEF AtStart, AtMember
<1>2. (n = 0 => Carries(tokens, one, two)) /\ (n > 0 => Carries(tokens, two, two))
  OBVIOUS
<1> HIDE DEF one, two
<1>3. Reached(n + 1) = {two} /\ Reached(n) = (IF n = 0 THEN {one} ELSE {two})
  BY <1>1 DEF Reached
<1> QED
  BY <1>2, <1>3 DEF Fit

LEMMA FitsLast ==
  ASSUME NEW tokens \in Seq(Token), NEW last \in {"value", "closeArray"},
         Carries(tokens, Stands("comma", AtTop), Stands(last, AtTop))
  PROVE  Fit(tokens, 19)
<1>1. Reached(19) = AtMember /\ Reached(19 + 1) = AtLast
  BY DEF Reached
<1> DEFINE one == Stands("comma", AtTop)
           two == Stands(last, AtTop)
<1>2. AtMember = {one} /\ two \in AtLast /\ Carries(tokens, one, two)
  BY DEF AtMember, AtLast
<1> HIDE DEF one, two
<1> QED
  BY <1>1, <1>2 DEF Fit

\* A member that is left out.
LEMMA FitsNothing ==
  ASSUME NEW n \in 1..18
  PROVE  Fit(<<>>, n)
<1>1. <<>> \in Seq(Token)
  BY EmptySeq
<1>2. Carries(<<>>, Stands("comma", AtTop), Stands("comma", AtTop))
  BY CarriesNothing
<1>3. n \in 0..18 /\ n # 0
  OBVIOUS
<1> QED
  BY <1>1, <1>2, <1>3, FitsBetween

LEMMA EntryStart == EntryInit => EntryInv
<1> SUFFICES ASSUME EntryInit PROVE EntryInv
  OBVIOUS
<1>1. <<>> \in Seq(Token) /\ -1 \in -1..21
  BY EmptySeq
<1>2. printed = -1 /\ entry = <<>> /\ capabilities = FALSE
  BY DEF EntryInit
<1> QED
  BY <1>1, <1>2 DEF EntryInv, Separated

LEMMA EntryStep ==
  ASSUME EntryInv, [EntryNext]_entryVars
  PROVE  EntryInv'
<1>1. CASE OpenEntry
  <2>1. /\ printed = -1 /\ printed' = 0 /\ entry' = entry \o <<"openObject">>
        /\ capabilities' = capabilities /\ capabilities \in BOOLEAN
    BY <1>1 DEF OpenEntry, Emit, EmitWith, EntryInv
  <2>2. ASSUME ~capabilities
        PROVE  Separated'
    <3>1. entry = <<>> /\ entry \in Seq(Token) /\ "openObject" \in Token
      BY <2>1, <2>2 DEF EntryInv, Separated, Token
    <3>2. entry' = Append(entry, "openObject") /\ entry' \in Seq(Token)
      BY <2>1, <3>1, AppendIsConcat, AppendProperties
    <3>3. JsonTo(entry') = ReadToken(NothingRead, "openObject")
      BY <3>1, <3>2, JsonOneMore, JsonNone DEF AsValue
    <3>4. Append(<<>>, "openObject") = AtTop
      BY DEF AtTop
    <3>5. ReadToken(NothingRead, "openObject") = Stands("openObject", AtTop)
      BY <3>4 DEF ReadToken, NothingRead, Stands
    <3>6. Reached(0) = {Stands("openObject", AtTop)}
      BY DEF Reached, AtStart
    <3> QED
      BY <2>1, <3>2, <3>3, <3>5, <3>6 DEF Separated
  <2> QED
    BY <2>1, <2>2 DEF EntryInv
<1>2. ASSUME NEW names, At(names)
      PROVE  /\ printed \in 0..19 /\ Member \in names
             /\ (printed = 0 => Member = "localInterface")
             /\ (printed < 19 <=> Member # "managementAddresses")
  <2>1. printed \in 0..19 /\ Member \in names /\ Member = Members[printed + 1]
    BY <1>2, MembersAre DEF At, Member
  <2>2. printed < 19 => printed + 1 \in 1..19
    BY <2>1
  <2>3. printed = 19 => printed + 1 = 20
    BY <2>1
  <2>4. printed = 0 => printed + 1 = 1
    BY <2>1
  <2> QED
    BY <2>1, <2>2, <2>3, <2>4, MembersAre
<1>3. CASE PrintValue
  <2> DEFINE tokens == <<"name", "value">> \o Comma
  <2>1. printed \in 0..18
    <3>1. Member \notin Arrays
      BY <1>3, <1>2 DEF PrintValue
    <3>2. printed \in 0..19 /\ Member # "managementAddresses"
      BY <1>2, <1>3, <3>1 DEF PrintValue, Arrays
    <3> QED
      BY <1>2, <1>3, <3>2 DEF PrintValue
  <2>2. /\ tokens \in Seq(Token)
        /\ \A last \in {"openObject", "comma"} : Carries(tokens, Stands(last, AtTop), Stands("comma", AtTop))
    BY ValueTokens
  <2>3. EmitWith(tokens, capabilities)
    BY <1>3 DEF PrintValue, Emit
  <2> HIDE DEF tokens
  <2>4. Fit(tokens, printed)
    BY <2>1, <2>2, FitsBetween
  <2> QED
    BY <2>1, <2>3, <2>4, EmitsMember
<1>4. CASE PrintOptional
  <2>1. Member \in {"nativeVlan", "trustBitmap", "untrustedPortCoS"}
    BY <1>2, <1>4 DEF PrintOptional, Optional
  <2>2. printed \in 1..18
    BY <1>2, <1>4, <2>1 DEF PrintOptional
  <2>3. CASE Emit(<<>>)
    <3>1. Fit(<<>>, printed)
      BY <2>2, FitsNothing
    <3> QED
      BY <2>2, <2>3, <3>1, EmitsMember DEF Emit
  <2>4. CASE Emit(<<"name">> \o Optional[Member] \o Comma)
    <3>1. PICK value \in {"value", "bare"} : Optional[Member] = <<value>>
      BY <2>1 DEF Optional
    <3> DEFINE tokens == <<"name", value>> \o Comma
    <3>2. /\ tokens \in Seq(Token) /\ Carries(tokens, Stands("comma", AtTop), Stands("comma", AtTop))
          /\ <<"name">> \o Optional[Member] \o Comma = tokens
      BY <3>1, ValueTokens
    <3> HIDE DEF tokens
    <3>3. Fit(tokens, printed)
      BY <2>2, <3>2, FitsBetween
    <3>4. EmitWith(tokens, capabilities)
      <4>1. Emit(tokens)
        BY <2>4, <3>2, Zenon
      <4> QED
        BY <4>1 DEF Emit
    <3> QED
      BY <2>2, <3>3, <3>4, EmitsMember
  <2> QED
    BY <1>4, <2>3, <2>4 DEF PrintOptional
<1>5. CASE PrintArray
  <2>1. printed \in 1..19 /\ (printed < 19 <=> Member # "managementAddresses")
    <3>1. Member \in Arrays /\ printed \in 0..19 /\ (printed = 0 => Member = "localInterface")
          /\ (printed < 19 <=> Member # "managementAddresses")
      BY <1>2, <1>5 DEF PrintArray
    <3>2. printed # 0
      BY <3>1 DEF Arrays
    <3> QED
      BY <3>1, <3>2
  <2>2. CASE printed < 19
    <3>1. AfterArray = Comma /\ printed \in 1..18 /\ Member # "managementAddresses"
      BY <2>1, <2>2 DEF AfterArray
    <3>2. CASE \E n \in 0..MaxItems : Emit(<<"name", "openArray">> \o Items(n) \o <<"closeArray">> \o AfterArray)
      <4>1. PICK n \in 0..MaxItems : Emit(<<"name", "openArray">> \o Items(n) \o <<"closeArray">> \o AfterArray)
        BY <3>2
      <4> DEFINE array == <<"name", "openArray">> \o Items(n) \o <<"closeArray">>
                 tokens == array \o Comma
      <4>2. array \in Seq(Token) /\ Carries(array, Stands("comma", AtTop), Stands("closeArray", AtTop))
        BY ArrayTokens, EntryAssumption
      <4>3. EmitWith(tokens, capabilities)
        BY <3>1, <4>1 DEF Emit
      <4>4. Comma \in Seq(Token) /\ Carries(Comma, Stands("closeArray", AtTop), Stands("comma", AtTop))
        <5>1. "comma" \in Token
          BY DEF Token
        <5> QED
          BY <5>1, Tuples, CommaRead DEF Comma
      <4> HIDE DEF array
      <4>5. tokens \in Seq(Token) /\ Carries(tokens, Stands("comma", AtTop), Stands("comma", AtTop))
        BY <4>2, <4>4, ConcatProperties, CarriesOn
      <4> HIDE DEF tokens
      <4>6. Fit(tokens, printed)
        BY <3>1, <4>5, FitsBetween
      <4> QED
        BY <3>1, <4>3, <4>6, EmitsMember
    <3>3. CASE Emit(<<>>)
      <4>1. Fit(<<>>, printed)
        BY <3>1, FitsNothing
      <4> QED
        BY <3>1, <3>3, <4>1, EmitsMember DEF Emit
    <3> QED
      BY <1>5, <3>1, <3>2, <3>3 DEF PrintArray
  <2>3. CASE printed = 19
    <3>1. AfterArray = <<>> /\ Member = "managementAddresses"
      BY <2>1, <2>3 DEF AfterArray
    <3>2. CASE \E n \in 0..MaxItems : Emit(<<"name", "openArray">> \o Items(n) \o <<"closeArray">> \o AfterArray)
      <4>1. PICK n \in 0..MaxItems : Emit(<<"name", "openArray">> \o Items(n) \o <<"closeArray">> \o AfterArray)
        BY <3>2
      <4> DEFINE array == <<"name", "openArray">> \o Items(n) \o <<"closeArray">>
      <4>2. array \in Seq(Token) /\ Carries(array, Stands("comma", AtTop), Stands("closeArray", AtTop))
        BY ArrayTokens, EntryAssumption
      <4>3. EmitWith(array \o <<>>, capabilities)
        BY <3>1, <4>1 DEF Emit
      <4> HIDE DEF array
      <4>4. array \o <<>> = array
        BY <4>2, ConcatEmptySeq
      <4>5. Fit(array, 19)
        BY <4>2, FitsLast
      <4> QED
        BY <2>3, <4>3, <4>4, <4>5, EmitsMember
    <3>3. CASE Emit(<<"name", "value">> \o AfterArray)
      <4> DEFINE null == <<"name", "value">>
      <4>1. null \in Seq(Token) /\ Carries(null, Stands("comma", AtTop), Stands("value", AtTop))
        BY MemberRead
      <4>2. EmitWith(null \o <<>>, capabilities)
        BY <3>1, <3>3 DEF Emit
      <4> HIDE DEF null
      <4>3. null \o <<>> = null
        BY <4>1, ConcatEmptySeq
      <4>4. Fit(null, 19)
        BY <4>1, FitsLast
      <4> QED
        BY <2>3, <4>2, <4>3, <4>4, EmitsMember
    <3> QED
      BY <1>5, <3>1, <3>2, <3>3 DEF PrintArray
  <2> QED
    BY <2>1, <2>2, <2>3
<1>6. CASE PrintCapabilities
  <2>1. printed \in 1..18
    BY <1>2, <1>6 DEF PrintCapabilities
  <2>2. CASE Emit(<<"name", "value">> \o Comma)
    <3> DEFINE tokens == <<"name", "value">> \o Comma
    <3>1. tokens \in Seq(Token) /\ Carries(tokens, Stands("comma", AtTop), Stands("comma", AtTop))
      BY ValueTokens
    <3>2. EmitWith(tokens, capabilities)
      BY <2>2 DEF Emit
    <3> HIDE DEF tokens
    <3>3. Fit(tokens, printed)
      BY <2>1, <3>1, FitsBetween
    <3> QED
      BY <2>1, <3>2, <3>3, EmitsMember
  <2>3. CASE capabilities' = TRUE /\ printed' = printed + 1
    <3>1. printed' \in -1..21
      BY <2>1, <2>3
    <3> QED
      BY <2>3, <3>1 DEF EntryInv
  <2> QED
    BY <1>6, <2>2, <2>3 DEF PrintCapabilities, EmitWith
<1>7. CASE PrintCluster
  <2> DEFINE values == [j \in 1..8 |-> IF j <= 6 THEN "bare" ELSE "value"]
             tokens == <<"name">> \o Object(values) \o Comma
  <2>1. printed \in 1..18
    BY <1>2, <1>7 DEF PrintCluster
  <2>2. tokens \in Seq(Token) /\ Carries(tokens, Stands("comma", AtTop), Stands("comma", AtTop))
    <3>1. values \in [1..8 -> {"value", "bare"}] /\ 8 \in Nat \ {0}
      OBVIOUS
    <3> HIDE DEF values
    <3> QED
      BY <3>1, ObjectTokens
  <2>3. EmitWith(tokens, capabilities) \/ EmitWith(<<>>, capabilities)
    BY <1>7 DEF PrintCluster, Emit
  <2> HIDE DEF tokens
  <2>4. Fit(tokens, printed) /\ Fit(<<>>, printed)
    BY <2>1, <2>2, FitsNothing, FitsBetween
  <2> QED
    BY <2>1, <2>3, <2>4, EmitsMember
<1>8. CASE PrintPoe
  <2> DEFINE values == [j \in 1..4 |-> "value"]
             tokens == <<"name">> \o Object(values) \o Comma
  <2>1. printed \in 1..18
    BY <1>2, <1>8 DEF PrintPoe
  <2>2. tokens \in Seq(Token) /\ Carries(tokens, Stands("comma", AtTop), Stands("comma", AtTop))
    <3>1. values \in [1..4 -> {"value", "bare"}] /\ 4 \in Nat \ {0}
      OBVIOUS
    <3> HIDE DEF values
    <3> QED
      BY <3>1, ObjectTokens
  <2>3. EmitWith(tokens, capabilities) \/ EmitWith(<<>>, capabilities)
    BY <1>8 DEF PrintPoe, Emit
  <2> HIDE DEF tokens
  <2>4. Fit(tokens, printed) /\ Fit(<<>>, printed)
    BY <2>1, <2>2, FitsNothing, FitsBetween
  <2> QED
    BY <2>1, <2>3, <2>4, EmitsMember
<1>9. CASE CloseEntry
  <2>1. printed = 20 /\ EmitWith(<<"closeObject">>, capabilities)
    BY <1>9, MembersAre DEF CloseEntry, Emit
  <2>2. Fit(<<"closeObject">>, 20)
    <3>1. "closeObject" \in Token
      BY DEF Token
    <3>2. <<"closeObject">> \in Seq(Token)
      BY <3>1, Tuples
    <3>3. Reached(20) = AtLast /\ Reached(20 + 1) = AtEnd
      BY DEF Reached
    <3>4. \A from \in AtLast : \E to \in AtEnd : Carries(<<"closeObject">>, from, to)
      BY BracketRead DEF AtLast, AtEnd
    <3> QED
      BY <3>2, <3>3, <3>4 DEF Fit
  <2> QED
    BY <2>1, <2>2, EmitsMember
<1>10. CASE UNCHANGED entryVars
  BY <1>10 DEF entryVars, EntryInv, Separated
<1> QED
  BY <1>1, <1>3, <1>4, <1>5, <1>6, <1>7, <1>8, <1>9, <1>10 DEF EntryNext

LEMMA EntryInvImplies == EntryInv => SeparatedRight
<1> SUFFICES ASSUME EntryInv, Done, ~capabilities PROVE IsJson(Valued(entry))
  BY DEF SeparatedRight
<1>1. printed = 21
  BY MembersAre DEF Done
<1>2. JsonTo(entry) \in Reached(21)
  BY <1>1 DEF EntryInv, Separated
<1>3. JsonTo(entry) = Stands("closeObject", <<>>)
  BY <1>2 DEF Reached, AtEnd
<1> QED
  BY <1>3 DEF IsJson, JsonTo, ReadTo, Stands

\* What is printed of an entry is JSON, however many addresses there are, but
\* for what is printed bare and for the capabilities.
THEOREM EntryIsJson == EntrySpec => []SeparatedRight
<1>1. EntryInv /\ [EntryNext]_entryVars => EntryInv'
  BY EntryStep
<1> QED
  BY <1>1, EntryStart, EntryInvImplies, PTL DEF EntrySpec

\* Tokens printed after others: there is an entry to print them after.
LEMMA EmitsTokens ==
  ASSUME EntryTypeOK, NEW tokens \in Seq(Token), NEW has \in BOOLEAN,
         printed \in 0..20, EmitWith(tokens, has)
  PROVE  EntryTypeOK'
<1>1. /\ entry' = entry \o tokens /\ printed' = printed + 1 /\ capabilities' = has
      /\ entry \in Seq(Token) /\ entry # <<>>
  BY DEF EmitWith, EntryTypeOK
<1>2. entry' \in Seq(Token) /\ Len(entry') = Len(entry) + Len(tokens)
  BY <1>1, ConcatProperties
<1>3. Len(entry) \in Nat /\ Len(tokens) \in Nat /\ Len(entry) # 0
  BY <1>1, LenProperties, EmptySeq
<1>4. entry' # <<>>
  <2>1. Len(entry') # 0
    BY <1>2, <1>3
  <2> QED
    BY <2>1, EmptySeq
<1>5. Len(Members) = 20 /\ printed' \in 1..21
  BY <1>1, MembersAre
<1>6. printed' \in -1..(Len(Members) + 1) /\ printed' # -1
  BY <1>5
<1> QED
  BY <1>1, <1>2, <1>4, <1>6 DEF EntryTypeOK

\* The capabilities are tokens, whatever becomes of their bracket.
LEMMA CapabilityTokens ==
  <<"name", "openObject">> \o FlattenSeq([j \in 1..7 |-> Capability(j)])
     \o <<"closeArray">> \o Comma \in Seq(Token)
<1> DEFINE lists == [j \in 1..7 |-> Capability(j)]
<1>1. /\ <<"name", "openObject">> \in Seq(Token) /\ <<"closeArray">> \in Seq(Token)
      /\ <<"name", "value">> \in Seq(Token) /\ Comma \in Seq(Token) /\ <<>> \in Seq(Token)
  BY Tuples, EmptySeq DEF Token, Comma
<1>2. \A j \in 1..7 : Capability(j) \in Seq(Token)
  BY <1>1, ConcatProperties DEF Capability
<1>3. lists \in [1..7 -> Seq(Token)] /\ 7 \in Nat \ {0}
  BY <1>2
<1> HIDE DEF lists
<1>4. PICK f : FlatPrefixes(f, lists, 7, Token) /\ FlattenSeq(lists) = f[7]
  BY <1>3, FlattensTo
<1>5. FlattenSeq(lists) \in Seq(Token)
  <2>1. f \in [1..7 -> Seq(Token)] /\ 7 \in 1..7
    BY <1>4 DEF FlatPrefixes
  <2> QED
    BY <1>4, <2>1
<1> DEFINE flat == FlattenSeq(lists)
           opened == <<"name", "openObject">> \o flat
           closed == opened \o <<"closeArray">>
<1> HIDE DEF flat
<1>6. flat \in Seq(Token)
  BY <1>5 DEF flat
<1>7. opened \in Seq(Token)
  BY <1>1, <1>6, ConcatProperties
<1> HIDE DEF opened
<1>8. closed \in Seq(Token)
  BY <1>1, <1>7, ConcatProperties
<1> HIDE DEF closed
<1>9. closed \o Comma \in Seq(Token)
  BY <1>1, <1>8, ConcatProperties
<1> QED
  BY <1>9 DEF closed, opened, flat, lists

LEMMA EntryTypeStep ==
  ASSUME EntryTypeOK, [EntryNext]_entryVars
  PROVE  EntryTypeOK'
<1>1. /\ Len(Members) = 20 /\ capabilities \in BOOLEAN /\ TRUE \in BOOLEAN
      /\ <<>> \in Seq(Token) /\ Comma \in Seq(Token)
  BY MembersAre, Tuples, EmptySeq DEF EntryTypeOK, Token, Comma
<1>2. ASSUME NEW tokens \in Seq(Token), Emit(tokens), printed \in 0..20
      PROVE  EntryTypeOK'
  BY <1>1, <1>2, EmitsTokens DEF Emit
<1>3. ASSUME NEW names, At(names)
      PROVE  printed \in 0..20
  BY <1>1, <1>3 DEF At
<1>4. CASE OpenEntry
  <2>1. entry = <<>> /\ printed = -1 /\ entry \in Seq(Token) /\ "openObject" \in Token
    BY <1>4 DEF OpenEntry, EntryTypeOK, Token
  <2>2. entry' = Append(entry, "openObject") /\ printed' = 0 /\ capabilities' = capabilities
    BY <1>4, <2>1, AppendIsConcat DEF OpenEntry, Emit, EmitWith
  <2>3. entry' \in Seq(Token) /\ entry' # <<>>
    BY <2>1, <2>2, AppendProperties
  <2>4. printed' \in -1..(Len(Members) + 1) /\ printed' # -1
    BY <1>1, <2>2
  <2> QED
    BY <1>1, <2>2, <2>3, <2>4 DEF EntryTypeOK
<1>5. CASE PrintValue
  BY <1>2, <1>3, <1>5, ValueTokens DEF PrintValue
<1>6. CASE PrintOptional
  <2>1. printed \in 0..20 /\ Member \in {"nativeVlan", "trustBitmap", "untrustedPortCoS"}
    BY <1>3, <1>6 DEF PrintOptional, At, Optional
  <2>2. PICK value \in {"value", "bare"} : Optional[Member] = <<value>>
    BY <2>1 DEF Optional
  <2>3. <<"name", value>> \o Comma \in Seq(Token)
    BY ValueTokens
  <2>4. <<"name">> \o Optional[Member] \o Comma = <<"name", value>> \o Comma
    BY <2>2
  <2> QED
    BY <1>1, <1>2, <1>6, <2>1, <2>3, <2>4 DEF PrintOptional
<1>7. CASE PrintArray
  <2>1. printed \in 0..20
    BY <1>3, <1>7 DEF PrintArray
  <2>2. AfterArray \in Seq(Token)
    BY <1>1 DEF AfterArray
  <2>3. <<"name", "value">> \in Seq(Token)
    BY Tuples DEF Token
  <2>4. CASE \E n \in 0..MaxItems : Emit(<<"name", "openArray">> \o Items(n) \o <<"closeArray">> \o AfterArray)
    <3>1. PICK n \in 0..MaxItems : Emit(<<"name", "openArray">> \o Items(n) \o <<"closeArray">> \o AfterArray)
      BY <2>4
    <3> DEFINE array == <<"name", "openArray">> \o Items(n) \o <<"closeArray">>
    <3>2. array \in Seq(Token)
      BY ArrayTokens, EntryAssumption
    <3> HIDE DEF array
    <3>3. array \o AfterArray \in Seq(Token)
      BY <2>2, <3>2, ConcatProperties
    <3>4. Emit(array \o AfterArray)
      BY <3>1 DEF array
    <3> QED
      BY <1>2, <2>1, <3>3, <3>4
  <2>5. <<"name", "value">> \o AfterArray \in Seq(Token)
    BY <2>2, <2>3, ConcatProperties
  <2>6. CASE Emit(IF Member = "managementAddresses"
                    THEN <<"name", "value">> \o AfterArray ELSE <<>>)
    BY <1>1, <1>2, <2>1, <2>5, <2>6
  <2> QED
    BY <1>7, <2>4, <2>6 DEF PrintArray
<1>8. CASE PrintCapabilities
  <2>1. printed \in 0..20
    BY <1>3, <1>8 DEF PrintCapabilities
  <2>2. CASE Emit(<<"name", "value">> \o Comma)
    BY <1>2, <2>1, <2>2, ValueTokens
  <2>3. CASE EmitWith(<<"name", "openObject">>
                        \o FlattenSeq([j \in 1..7 |-> Capability(j)])
                        \o <<"closeArray">> \o Comma,
                      TRUE)
    BY <1>1, <2>1, <2>3, CapabilityTokens, EmitsTokens
  <2> QED
    BY <1>8, <2>2, <2>3 DEF PrintCapabilities
<1>9. CASE PrintCluster
  <2> DEFINE values == [j \in 1..8 |-> IF j <= 6 THEN "bare" ELSE "value"]
  <2>1. printed \in 0..20
    BY <1>3, <1>9 DEF PrintCluster
  <2>2. Emit(<<>>) \/ Emit(<<"name">> \o Object(values) \o Comma)
    BY <1>9 DEF PrintCluster
  <2>3. values \in [1..8 -> {"value", "bare"}] /\ 8 \in Nat \ {0}
    OBVIOUS
  <2> HIDE DEF values
  <2>4. <<"name">> \o Object(values) \o Comma \in Seq(Token)
    BY <2>3, ObjectTokens
  <2> QED
    BY <1>1, <1>2, <2>1, <2>2, <2>4
<1>10. CASE PrintPoe
  <2> DEFINE values == [j \in 1..4 |-> "value"]
  <2>1. printed \in 0..20
    BY <1>3, <1>10 DEF PrintPoe
  <2>2. Emit(<<>>) \/ Emit(<<"name">> \o Object(values) \o Comma)
    BY <1>10 DEF PrintPoe
  <2>3. values \in [1..4 -> {"value", "bare"}] /\ 4 \in Nat \ {0}
    OBVIOUS
  <2> HIDE DEF values
  <2>4. <<"name">> \o Object(values) \o Comma \in Seq(Token)
    BY <2>3, ObjectTokens
  <2> QED
    BY <1>1, <1>2, <2>1, <2>2, <2>4
<1>11. CASE CloseEntry
  <2>1. printed \in 0..20 /\ Emit(<<"closeObject">>)
    BY <1>1, <1>11 DEF CloseEntry
  <2>2. <<"closeObject">> \in Seq(Token)
    BY Tuples DEF Token
  <2> QED
    BY <1>2, <2>1, <2>2
<1>12. CASE UNCHANGED entryVars
  BY <1>12 DEF entryVars, EntryTypeOK
<1> QED
  BY <1>4, <1>5, <1>6, <1>7, <1>8, <1>9, <1>10, <1>11, <1>12 DEF EntryNext

LEMMA EntryTypeCorrect == EntrySpec => []EntryTypeOK
<1>1. EntryInit => EntryTypeOK
  <2>1. <<>> \in Seq(Token) /\ -1 \in -1..(Len(Members) + 1)
    BY EmptySeq, MembersAre
  <2> QED
    BY <2>1 DEF EntryInit, EntryTypeOK
<1>2. EntryTypeOK /\ [EntryNext]_entryVars => EntryTypeOK'
  BY EntryTypeStep
<1> QED
  BY <1>1, <1>2, PTL DEF EntrySpec
=============================================================================
