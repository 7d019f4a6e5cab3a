--------------------------- MODULE AliasCacheProof ---------------------------
(***************************************************************************)
(* Proofs about AliasCache, for every list of names: when the sweeps end,  *)
(* each alias is the shortest suffix that is unique.                       *)
(***************************************************************************)
EXTENDS AliasCache, SequenceTheorems, WellFoundedInduction, TLAPS

\* A comparison of a with b would leave both alone.
Settled(a, b) ==
    /\ Alias(a) # Alias(b)
    /\ width[a] < Len(list[a]) => ~Matched(width, a, b, width[a])

\* This sweep has compared the pair <<n, m>>.
Compared(n, m) == n < at[1] \/ (n = at[1] /\ m < at[2])

AllSettled == \A n, m \in DOMAIN list : Comparable(m, n) => Settled(m, n)

\* A sweep that has changed nothing has found the pairs it compared settled.
SweptInv ==
    /\ ~mutated => \A n, m \in DOMAIN list : Compared(n, m) /\ Comparable(m, n) => Settled(m, n)
    /\ pc = "done" => AllSettled

\* Both names of the next pair are in the list.
PairInv == at[1] <= Len(list) => at[2] <= Len(list)

\* The inductive invariant.
IInv == TypeOK /\ PairInv /\ NamesJoined /\ NoLongerThanNeeded /\ SweptInv

\* What is known of widths on the way through one comparison.
Widths(w) ==
    /\ w \in [DOMAIN list -> Nat \ {0}]
    /\ \A i \in DOMAIN list : w[i] <= Len(list[i])
    /\ \A i \in DOMAIN list : \A j \in 1..(w[i] - 1) : ~Unique(i, j)

-----------------------------------------------------------------------------
(* Suffixes.                                                               *)

\* The names are sequences of at least one part (newImageName).
LEMMA NameType ==
  ASSUME list \in Lists, NEW i \in DOMAIN list
  PROVE  list[i] \in Seq(Parts) /\ Len(list[i]) \in Nat \ {0}
  BY AliasAssumption

\* A suffix of k parts is a sequence of k parts.
LEMMA SuffixType ==
  ASSUME NEW x \in Seq(Parts), NEW k \in 0..Len(x)
  PROVE  /\ Suffix(x, k) \in Seq(Parts)
         /\ Len(Suffix(x, k)) = k
         /\ \A i \in 1..k : Suffix(x, k)[i] = x[Len(x) - k + i]
<1> DEFINE m == Len(x) - k + 1
<1>1. m \in Int /\ Len(x) \in Int /\ \A i \in m..Len(x) : x[i] \in Parts
  OBVIOUS
<1>2. /\ SubSeq(x, m, Len(x)) \in Seq(Parts)
      /\ Len(SubSeq(x, m, Len(x))) = IF m <= Len(x) THEN Len(x) - m + 1 ELSE 0
      /\ \A i \in 1..(Len(x) - m + 1) : SubSeq(x, m, Len(x))[i] = x[m + i - 1]
  BY <1>1, SubSeqProperties
<1>3. Suffix(x, k) = SubSeq(x, m, Len(x))
  BY DEF Suffix
<1>4. (IF m <= Len(x) THEN Len(x) - m + 1 ELSE 0) = k /\ Len(x) - m + 1 = k
  OBVIOUS
<1>5. \A i \in 1..k : m + i - 1 = Len(x) - k + i
  OBVIOUS
<1> QED BY <1>2, <1>3, <1>4, <1>5

\* The longest suffix of a name is the name.
LEMMA SuffixFull ==
  ASSUME NEW x \in Seq(Parts)
  PROVE  Suffix(x, Len(x)) = x
<1>1. Len(x) - Len(x) + 1 = 1
  OBVIOUS
<1> QED BY <1>1, SubSeqFull DEF Suffix

\* Names that end in the same k parts end in the same j parts for j up to k.
LEMMA SuffixShrinks ==
  ASSUME NEW x \in Seq(Parts), NEW y \in Seq(Parts), NEW k \in Nat, NEW j \in 0..k,
         k <= Len(x), k <= Len(y), Suffix(x, k) = Suffix(y, k)
  PROVE  Suffix(x, j) = Suffix(y, j)
<1>1. \A i \in 1..k : x[Len(x) - k + i] = y[Len(y) - k + i]
  <2> TAKE i \in 1..k
  <2>0. k \in 0..Len(x) /\ k \in 0..Len(y)
    OBVIOUS
  <2>1. Suffix(x, k)[i] = x[Len(x) - k + i] /\ Suffix(y, k)[i] = y[Len(y) - k + i]
    BY <2>0, SuffixType
  <2> QED BY <2>1
<1>2. \A i \in 1..j : Suffix(x, j)[i] = Suffix(y, j)[i]
  <2> TAKE i \in 1..j
  <2>0. j \in 0..Len(x) /\ j \in 0..Len(y)
    OBVIOUS
  <2>1. Suffix(x, j)[i] = x[Len(x) - j + i] /\ Suffix(y, j)[i] = y[Len(y) - j + i]
    BY <2>0, SuffixType
  <2>2. k - j + i \in 1..k
    OBVIOUS
  <2>3. x[Len(x) - k + (k - j + i)] = y[Len(y) - k + (k - j + i)]
    BY <1>1, <2>2
  <2>4. /\ Len(x) - k + (k - j + i) = Len(x) - j + i
        /\ Len(y) - k + (k - j + i) = Len(y) - j + i
    OBVIOUS
  <2> QED BY <2>1, <2>3, <2>4
<1>3. /\ Suffix(x, j) \in Seq(Parts) /\ Len(Suffix(x, j)) = j
      /\ Suffix(y, j) \in Seq(Parts) /\ Len(Suffix(y, j)) = j
  BY SuffixType
<1> QED BY <1>2, <1>3, SeqEqual

\* A suffix of a name is unique if a shorter one is.
LEMMA UniqueGrows ==
  ASSUME TypeOK, NEW i \in DOMAIN list, NEW k \in 1..Len(list[i]), NEW j \in 1..k, Unique(i, j)
  PROVE  Unique(i, k)
<1> SUFFICES ASSUME NEW m \in DOMAIN list, list[m] # list[i], k <= Len(list[m]),
                    Suffix(list[m], k) = Suffix(list[i], k)
             PROVE  FALSE
  BY DEF Unique
<1>1. list[i] \in Seq(Parts) /\ list[m] \in Seq(Parts)
  BY NameType DEF TypeOK
<1>2. Suffix(list[m], j) = Suffix(list[i], j)
  BY <1>1, SuffixShrinks
<1>3. j <= Len(list[m])
  BY <1>1
<1> QED BY <1>2, <1>3 DEF Unique

-----------------------------------------------------------------------------
(* One comparison.                                                         *)

\* Extending a name whose alias is not unique is not extending it too far.
LEMMA ExtendWidths ==
  ASSUME TypeOK, NEW w, Widths(w), NEW i \in DOMAIN list, ~Unique(i, w[i])
  PROVE  Widths(Extend(w, i))
<1>1. CASE ~Extendable(w, i)
  BY <1>1 DEF Extend
<1>2. CASE Extendable(w, i)
  <2> DEFINE v == [w EXCEPT ![i] = @ + 1]
  <2>1. Extend(w, i) = v
    BY <1>2 DEF Extend
  <2>2. v \in [DOMAIN list -> Nat \ {0}]
    BY DEF Widths
  <2>3. \A m \in DOMAIN list : v[m] <= Len(list[m])
    <3> TAKE m \in DOMAIN list
    <3>1. Len(list[m]) \in Nat /\ w[m] \in Nat
      BY NameType DEF TypeOK, Widths
    <3>2. CASE m = i
      BY <1>2, <3>1, <3>2 DEF Widths, Extendable
    <3>3. CASE m # i
      BY <3>3 DEF Widths
    <3> QED BY <3>2, <3>3
  <2>4. \A m \in DOMAIN list : \A j \in 1..(v[m] - 1) : ~Unique(m, j)
    <3> TAKE m \in DOMAIN list
    <3> TAKE j \in 1..(v[m] - 1)
    <3>1. w[m] \in Nat \ {0}
      BY DEF Widths
    <3>2. CASE m = i
      <4>1. j \in 1..w[i]
        BY <3>1, <3>2 DEF Widths
      <4>2. j = w[i] \/ j \in 1..(w[i] - 1)
        BY <3>1, <3>2, <4>1
      <4> QED BY <3>2, <4>2 DEF Widths
    <3>3. CASE m # i
      BY <3>3 DEF Widths
    <3> QED BY <3>2, <3>3
  <2> QED BY <2>1, <2>2, <2>3, <2>4 DEF Widths
<1> QED BY <1>1, <1>2

\* Where a and b, two different names, end in the same k parts, no name of the
\* two has a unique suffix of k parts.
LEMMA SharedSuffix ==
  ASSUME NEW a \in DOMAIN list, NEW b \in DOMAIN list, list[a] # list[b],
         NEW k \in Nat, k <= Len(list[a]), k <= Len(list[b]),
         Suffix(list[a], k) = Suffix(list[b], k)
  PROVE  ~Unique(a, k) /\ ~Unique(b, k)
  BY DEF Unique

\* Suffixes of equal parts have equal width.
LEMMA SuffixWidth ==
  ASSUME TypeOK, NEW a \in DOMAIN list, NEW b \in DOMAIN list,
         NEW j \in Nat, NEW k \in Nat, j <= Len(list[a]), k <= Len(list[b]),
         Suffix(list[a], j) = Suffix(list[b], k)
  PROVE  j = k
<1>1. list[a] \in Seq(Parts) /\ list[b] \in Seq(Parts)
  BY NameType DEF TypeOK
<1>2. j \in 0..Len(list[a]) /\ k \in 0..Len(list[b])
  BY <1>1
<1> QED BY <1>1, <1>2, SuffixType

\* Names with the same alias are extended because they have to be.
LEMMA SeparateEqualWidths ==
  ASSUME IInv, NEW m \in DOMAIN list, NEW n \in DOMAIN list, Comparable(m, n)
  PROVE  Widths(SeparateEqual(m, n))
<1>1. Widths(width) /\ TypeOK
  BY DEF IInv, TypeOK, Widths, NoLongerThanNeeded
<1>2. CASE names[m] # names[n]
  BY <1>1, <1>2 DEF SeparateEqual
<1>3. CASE names[m] = names[n]
  <2>1. Suffix(list[m], width[m]) = Suffix(list[n], width[n])
    BY <1>3 DEF IInv, NamesJoined, Alias
  <2>2. /\ width[m] \in Nat /\ width[m] <= Len(list[m])
        /\ width[n] \in Nat /\ width[n] <= Len(list[n])
    BY <1>1 DEF Widths
  <2>3. width[m] = width[n]
    BY <1>1, <2>1, <2>2, SuffixWidth
  <2>4. ~Unique(m, width[m]) /\ ~Unique(n, width[n])
    BY <2>1, <2>2, <2>3, SharedSuffix DEF Comparable
  <2>5. Widths(Extend(width, m))
    BY <1>1, <2>4, ExtendWidths
  <2>6. Extend(width, m)[n] = width[n]
    BY <1>1 DEF Extend, Comparable, Widths
  <2>7. Widths(Extend(Extend(width, m), n))
    BY <1>1, <2>4, <2>5, <2>6, ExtendWidths
  <2> QED BY <1>3, <2>7 DEF SeparateEqual
<1> QED BY <1>2, <1>3

\* So are names that would have the same alias next.
LEMMA SeparateNextWidths ==
  ASSUME TypeOK, NEW w, Widths(w), NEW a \in DOMAIN list, NEW b \in DOMAIN list,
         Comparable(a, b), Extendable(w, a)
  PROVE  Widths(SeparateNext(w, a, b))
<1>1. CASE Suffix(list[a], w[a] + 1) # Suffix(list[b], w[b])
  BY <1>1 DEF SeparateNext
<1>2. CASE Suffix(list[a], w[a] + 1) = Suffix(list[b], w[b])
  <2>1. /\ w[a] \in Nat \ {0} /\ w[a] <= Len(list[a]) /\ Len(list[a]) \in Nat
        /\ w[b] \in Nat \ {0} /\ w[b] <= Len(list[b]) /\ Len(list[b]) \in Nat
    BY NameType DEF Widths, TypeOK
  <2>2. w[a] + 1 \in Nat /\ w[a] + 1 <= Len(list[a])
    BY <2>1 DEF Extendable
  <2>3. w[b] = w[a] + 1
    BY <1>2, <2>1, <2>2, SuffixWidth
  <2>4. list[a] \in Seq(Parts) /\ list[b] \in Seq(Parts) /\ list[a] # list[b]
    BY NameType DEF TypeOK, Comparable
  <2>5. Suffix(list[a], w[a]) = Suffix(list[b], w[a])
    <3>1. w[a] \in 0..w[b] /\ w[b] <= Len(list[a])
      BY <2>1, <2>2, <2>3
    <3>2. Suffix(list[a], w[b]) = Suffix(list[b], w[b])
      BY <1>2, <2>3
    <3> QED BY <2>1, <2>4, <3>1, <3>2, SuffixShrinks
  <2>6. ~Unique(a, w[a])
    BY <2>1, <2>2, <2>3, <2>4, <2>5, SharedSuffix
  <2>7. ~Unique(b, w[b])
    BY <1>2, <2>1, <2>2, <2>3, <2>4, SharedSuffix
  <2>8. Widths(Extend(w, a))
    BY <2>6, ExtendWidths
  <2>9. Extend(w, a)[b] = w[b]
    BY DEF Extend, Comparable, Widths
  <2>10. Widths(Extend(Extend(w, a), b))
    BY <2>7, <2>8, <2>9, ExtendWidths
  <2> QED BY <1>2, <2>10 DEF SeparateNext
<1> QED BY <1>1, <1>2

\* And names whose alias is a suffix of another alias.
LEMMA LeavesWidths ==
  ASSUME TypeOK, NEW w, Widths(w), NEW a \in DOMAIN list, NEW b \in DOMAIN list,
         Comparable(a, b), NEW k \in 1..Len(list[a]), Leaves(w, a, b, k)
  PROVE  Widths([w EXCEPT ![a] = k])
<1> DEFINE v == [w EXCEPT ![a] = k]
<1>1. /\ w[a] \in Nat \ {0} /\ Len(list[a]) \in Nat /\ Len(list[b]) \in Nat
      /\ w[b] \in Nat /\ w[b] <= Len(list[b])
  BY NameType DEF Widths, TypeOK
<1>2. k \in Nat \ {0} /\ k <= Len(list[a])
  BY <1>1
<1>3. v \in [DOMAIN list -> Nat \ {0}] /\ \A i \in DOMAIN list : v[i] <= Len(list[i])
  BY <1>2 DEF Widths
<1>4. \A i \in DOMAIN list : \A j \in 1..(v[i] - 1) : ~Unique(i, j)
  <2> TAKE i \in DOMAIN list
  <2> TAKE j \in 1..(v[i] - 1)
  <2>1. CASE i # a
    BY <2>1 DEF Widths
  <2>2. CASE i = a
    <3>1. v[i] = k
      BY <2>2 DEF Widths
    <3>2. CASE j \in 1..(w[a] - 1)
      BY <2>2, <3>2 DEF Widths
    <3>3. CASE j \in w[a]..(k - 1)
      <4>1. j < w[b] /\ Suffix(list[a], j) = Suffix(list[b], j)
        BY <3>3 DEF Leaves, Matched
      <4>2. j \in Nat /\ j <= Len(list[a]) /\ j <= Len(list[b])
        BY <1>1, <1>2, <3>3, <4>1
      <4> QED BY <2>2, <4>1, <4>2, SharedSuffix DEF Comparable
    <3> QED BY <1>1, <1>2, <3>1, <3>2, <3>3
  <2> QED BY <2>1, <2>2
<1> QED BY <1>3, <1>4 DEF Widths

\* A comparison leaves the names other than its own alone.
LEMMA CompareFrame ==
  ASSUME TypeOK, NEW m \in DOMAIN list, NEW n \in DOMAIN list, NEW v,
         ExtendIfSuffixMatches(SeparateEqual(m, n), v, m, n),
         NEW i \in DOMAIN list, i # m, i # n
  PROVE  SeparateEqual(m, n)[i] = width[i] /\ v[i] = width[i]
<1> DEFINE w == SeparateEqual(m, n)
<1> DEFINE u == SeparateNext(w, m, n)
<1>1. ASSUME NEW x, x \in [DOMAIN list -> Nat], NEW j \in DOMAIN list, j # i
      PROVE  Extend(x, j) \in [DOMAIN list -> Nat] /\ Extend(x, j)[i] = x[i]
  BY <1>1 DEF Extend
<1>2. width \in [DOMAIN list -> Nat]
  BY DEF TypeOK
<1>3. w \in [DOMAIN list -> Nat] /\ w[i] = width[i]
  BY <1>1, <1>2 DEF SeparateEqual
<1>4. u \in [DOMAIN list -> Nat] /\ u[i] = width[i]
  BY <1>1, <1>3 DEF SeparateNext
<1>5. v[i] = width[i]
  <2>1. CASE ~Extendable(w, m)
    BY <1>3, <2>1 DEF ExtendIfSuffixMatches
  <2>2. CASE Extendable(w, m)
    <3>1. PICK k \in 1..Len(list[m]) : v = [u EXCEPT ![m] = k]
      BY <2>2 DEF ExtendIfSuffixMatches
    <3> QED BY <1>4, <3>1
  <2> QED BY <2>1, <2>2
<1> QED BY <1>3, <1>5

\* The widths after a comparison are widths, and none is too long.
LEMMA CompareWidths ==
  ASSUME IInv, NEW m \in DOMAIN list, NEW n \in DOMAIN list, Comparable(m, n), NEW v,
         ExtendIfSuffixMatches(SeparateEqual(m, n), v, m, n)
  PROVE  Widths(SeparateEqual(m, n)) /\ Widths(v)
<1> DEFINE w == SeparateEqual(m, n)
<1>0. TypeOK
  BY DEF IInv
<1>1. Widths(w)
  BY SeparateEqualWidths
<1>2. CASE ~Extendable(w, m)
  BY <1>1, <1>2 DEF ExtendIfSuffixMatches
<1>3. CASE Extendable(w, m)
  <2> DEFINE u == SeparateNext(w, m, n)
  <2>1. Widths(u)
    BY <1>0, <1>1, <1>3, SeparateNextWidths
  <2>2. PICK k \in 1..Len(list[m]) : Leaves(u, m, n, k) /\ v = [u EXCEPT ![m] = k]
    BY <1>3 DEF ExtendIfSuffixMatches
  <2>3. Widths([u EXCEPT ![m] = k])
    BY <1>0, <2>1, <2>2, LeavesWidths
  <2> QED BY <1>1, <2>2, <2>3
<1> QED BY <1>2, <1>3

\* A comparison makes no alias shorter, neither in the first check nor after it.
LEMMA CompareGrows ==
  ASSUME IInv, NEW m \in DOMAIN list, NEW n \in DOMAIN list, Comparable(m, n), NEW v,
         ExtendIfSuffixMatches(SeparateEqual(m, n), v, m, n),
         NEW i \in DOMAIN list
  PROVE  width[i] <= SeparateEqual(m, n)[i] /\ SeparateEqual(m, n)[i] <= v[i]
<1> DEFINE w == SeparateEqual(m, n)
<1>0. TypeOK /\ Widths(width) /\ Widths(w) /\ Widths(v) /\ m # n
  BY CompareWidths DEF IInv, Widths, TypeOK, NoLongerThanNeeded, Comparable
<1>1. width[i] \in Nat /\ w[i] \in Nat /\ v[i] \in Nat /\ width[i] <= w[i]
  BY <1>0 DEF Widths, SeparateEqual, Extend
<1>2. CASE ~Extendable(w, m)
  BY <1>1, <1>2 DEF ExtendIfSuffixMatches
<1>3. CASE Extendable(w, m)
  <2> DEFINE u == SeparateNext(w, m, n)
  <2>1. PICK k \in 1..Len(list[m]) : Leaves(u, m, n, k) /\ v = [u EXCEPT ![m] = k]
    BY <1>3 DEF ExtendIfSuffixMatches
  <2>2. \A j \in DOMAIN list : u[j] \in Nat /\ w[j] <= u[j]
    BY <1>0 DEF SeparateNext, Extend, Widths
  <2>3. u[m] <= k
    <3>1. k \in u[m]..Len(list[m])
      BY <2>1 DEF Leaves
    <3>2. Len(list[m]) \in Nat
      BY <1>0, NameType DEF TypeOK
    <3> QED BY <2>2, <3>1, <3>2
  <2>4. Widths(u)
    BY <1>0, <1>3, SeparateNextWidths
  <2>5. v[i] = IF i = m THEN k ELSE u[i]
    BY <2>1, <2>4 DEF Widths
  <2>6. u[i] <= v[i]
    BY <2>2, <2>3, <2>5
  <2> QED BY <1>1, <2>2, <2>6
<1> QED BY <1>2, <1>3

\* A comparison that ends with the widths it began with has therefore changed
\* none on the way, and its names are settled.
LEMMA CompareSettles ==
  ASSUME IInv, NEW m \in DOMAIN list, NEW n \in DOMAIN list, Comparable(m, n),
         ExtendIfSuffixMatches(SeparateEqual(m, n), width, m, n)
  PROVE  SeparateEqual(m, n) = width /\ Settled(m, n)
<1> DEFINE w == SeparateEqual(m, n)
<1>0. TypeOK /\ Widths(width) /\ Widths(w) /\ m # n
  BY CompareWidths DEF IInv, Widths, TypeOK, NoLongerThanNeeded, Comparable
<1>1. \A i \in DOMAIN list : width[i] \in Nat /\ w[i] \in Nat
  BY <1>0 DEF Widths
<1>2. \A i \in DOMAIN list : width[i] <= w[i] /\ w[i] <= width[i]
  BY CompareGrows
<1>3. w = width
  BY <1>0, <1>1, <1>2 DEF Widths
<1>4. Alias(m) # Alias(n)
  <2> SUFFICES ASSUME Alias(m) = Alias(n) PROVE FALSE
    OBVIOUS
  <2>1. w = Extend(Extend(width, m), n)
    BY DEF IInv, NamesJoined, SeparateEqual
  <2>2. ~Extendable(width, m) /\ ~Extendable(width, n)
    <3>1. \A i \in {m, n} : Extendable(width, i) => w[i] = width[i] + 1
      BY <1>0, <2>1 DEF Extend, Extendable, Widths
    <3> QED BY <1>1, <1>3, <3>1
  <2>3. width[m] = Len(list[m]) /\ width[n] = Len(list[n])
    BY <1>0, <2>2, NameType DEF Extendable, Widths, TypeOK
  <2>4. Alias(m) = list[m] /\ Alias(n) = list[n]
    BY <1>0, <2>3, NameType, SuffixFull DEF Alias, TypeOK
  <2> QED BY <2>4 DEF Comparable
<1>5. ASSUME width[m] < Len(list[m]) PROVE ~Matched(width, m, n, width[m])
  <2>1. Extendable(w, m)
    BY <1>3, <1>5 DEF Extendable
  <2> DEFINE u == SeparateNext(w, m, n)
  <2>2. PICK k \in 1..Len(list[m]) : Leaves(u, m, n, k) /\ width = [u EXCEPT ![m] = k]
    BY <2>1 DEF ExtendIfSuffixMatches
  <2>3. Widths(u)
    BY <1>0, <2>1, SeparateNextWidths
  <2>4. width[m] = k /\ width[n] = u[n] /\ u[m] \in Nat /\ u[m] <= k
    <3>1. k \in u[m]..Len(list[m]) /\ Len(list[m]) \in Nat
      BY <1>0, <2>2, NameType DEF Leaves, TypeOK
    <3>2. u[m] \in Nat /\ width[m] = k /\ width[n] = u[n]
      BY <1>0, <2>2, <2>3 DEF Widths
    <3> QED BY <3>1, <3>2
  <2>5. k < Len(list[m])
    BY <1>5, <2>4
  <2> QED BY <2>2, <2>4, <2>5 DEF Leaves, Matched
<1> QED BY <1>3, <1>4, <1>5 DEF Settled

-----------------------------------------------------------------------------
(* The steps of a sweep.                                                   *)

\* Before the first sweep every alias has one part, and nothing is compared.
LEMMA InitIInv == Init => IInv
<1> SUFFICES ASSUME Init PROVE IInv
  OBVIOUS
<1>1. list \in Lists /\ Len(list) \in Nat /\ DOMAIN list = 1..Len(list)
  BY AliasAssumption DEF Init
<1>2. \A i \in DOMAIN list : list[i] \in Seq(Parts) /\ Len(list[i]) \in Nat \ {0}
  BY <1>1, NameType
<1>3. \A i \in DOMAIN list : Suffix(list[i], 1) \in Seq(Parts)
  <2> TAKE i \in DOMAIN list
  <2>1. 1 \in 0..Len(list[i])
    BY <1>2
  <2> QED BY <1>2, <2>1, SuffixType
<1>4. TypeOK
  <2>1. width \in [DOMAIN list -> Nat \ {0}] /\ \A i \in DOMAIN list : width[i] <= Len(list[i])
    BY <1>2 DEF Init
  <2>2. names \in [DOMAIN list -> Seq(Parts)]
    BY <1>3 DEF Init
  <2>3. at \in (1..(Len(list) + 1)) \X (1..(Len(list) + 1))
    BY <1>1 DEF Init
  <2> QED BY <2>1, <2>2, <2>3 DEF Init, TypeOK
<1>5. PairInv /\ NamesJoined
  BY <1>1 DEF Init, PairInv, NamesJoined, Alias
<1>6. NoLongerThanNeeded
  BY DEF Init, NoLongerThanNeeded
<1>7. SweptInv
  BY <1>1 DEF Init, SweptInv, Compared
<1> QED BY <1>4, <1>5, <1>6, <1>7 DEF IInv

\* After keeps the pair in the list, or passes its end.
LEMMA AfterType ==
  ASSUME IInv, at[1] <= Len(list)
  PROVE  /\ After(at) \in (1..(Len(list) + 1)) \X (1..(Len(list) + 1))
         /\ After(at)[1] <= Len(list) => After(at)[2] <= Len(list)
         /\ at[1] \in DOMAIN list /\ at[2] \in DOMAIN list
<1>1. /\ Len(list) \in Nat /\ DOMAIN list = 1..Len(list)
      /\ at = <<at[1], at[2]>> /\ at[1] \in 1..Len(list) /\ at[2] \in 1..Len(list)
  BY AliasAssumption DEF IInv, TypeOK, PairInv
<1> QED BY <1>1 DEF After

\* The pairs compared after a step are those before it and the one of the step.
LEMMA AfterCompared ==
  ASSUME IInv, at[1] <= Len(list), at' = After(at), UNCHANGED list,
         NEW n \in DOMAIN list, NEW m \in DOMAIN list, Compared(n, m)'
  PROVE  Compared(n, m) \/ (n = at[1] /\ m = at[2])
<1>1. /\ Len(list) \in Nat /\ DOMAIN list = 1..Len(list)
      /\ at[1] \in 1..Len(list) /\ at[2] \in 1..Len(list)
  BY AliasAssumption DEF IInv, TypeOK, PairInv
<1>2. n \in Nat /\ m \in Nat /\ m <= Len(list)
  BY <1>1
<1>3. n < After(at)[1] \/ (n = After(at)[1] /\ m < After(at)[2])
  BY DEF Compared
<1>4. CASE at[2] < Len(list)
  <2>1. After(at)[1] = at[1] /\ After(at)[2] = at[2] + 1
    BY <1>4 DEF After
  <2> QED BY <1>1, <1>2, <1>3, <2>1 DEF Compared
<1>5. CASE ~(at[2] < Len(list))
  <2>1. After(at)[1] = at[1] + 1 /\ After(at)[2] = 1
    BY <1>5 DEF After
  <2> QED BY <1>1, <1>2, <1>3, <1>5, <2>1 DEF Compared
<1> QED BY <1>4, <1>5

\* Comparing one pair keeps the invariant (MakeAliasesForNames).
LEMMA CompareStep == IInv /\ Compare => IInv'
<1> SUFFICES ASSUME IInv, Compare PROVE IInv'
  OBVIOUS
<1> DEFINE n == at[1]
           m == at[2]
           w == SeparateEqual(m, n)
<1>0. pc = "sweep" /\ n <= Len(list) /\ at' = After(at) /\ UNCHANGED <<list, pc>> /\ TypeOK
  BY DEF Compare, IInv
<1>1. n \in DOMAIN list /\ m \in DOMAIN list
  BY <1>0, AfterType
<1>2. \A i \in DOMAIN list : list[i] \in Seq(Parts) /\ Len(list[i]) \in Nat \ {0}
  BY <1>0, NameType DEF TypeOK
<1>3. PairInv' /\ at' \in (1..(Len(list) + 1)) \X (1..(Len(list) + 1))
  BY <1>0, AfterType DEF PairInv
<1>4. CASE ~Comparable(m, n)
  <2>1. UNCHANGED <<width, names, mutated>>
    BY <1>4 DEF Compare
  <2>2. TypeOK' /\ NamesJoined' /\ NoLongerThanNeeded'
    BY <1>0, <1>3, <2>1 DEF IInv, TypeOK, NamesJoined, NoLongerThanNeeded, Alias, Unique
  <2>3. \A i, j \in DOMAIN list : Comparable(i, j)' = Comparable(i, j) /\ Settled(i, j)' = Settled(i, j)
    BY <1>0, <2>1 DEF Comparable, Settled, Alias, Matched
  <2>4. SweptInv'
    BY <1>0, <1>4, <2>1, <2>3, AfterCompared DEF IInv, SweptInv
  <2> QED BY <1>3, <2>2, <2>4 DEF IInv
<1>5. CASE Comparable(m, n)
  <2>1. /\ ExtendIfSuffixMatches(w, width', m, n)
        /\ names' = Joined(w, width', m, n)
        /\ mutated' = (mutated \/ width' # width)
    BY <1>5 DEF Compare
  <2>2. Widths(w) /\ Widths(width')
    BY <1>1, <1>5, <2>1, CompareWidths
  <2>3. \A i \in DOMAIN list : names'[i] = Suffix(list[i], width'[i])
    <3> TAKE i \in DOMAIN list
    <3>1. names[i] = Suffix(list[i], width[i])
      BY DEF IInv, NamesJoined, Alias
    <3>2. CASE i \notin {m, n}
      BY <1>0, <1>1, <2>1, <3>1, <3>2, CompareFrame DEF Joined
    <3>3. CASE i \in {m, n}
      BY <2>1, <3>1, <3>3 DEF Joined
    <3> QED BY <3>2, <3>3
  <2>4. \A i \in DOMAIN list : Suffix(list[i], width'[i]) \in Seq(Parts)
    <3> TAKE i \in DOMAIN list
    <3>1. width'[i] \in 0..Len(list[i])
      BY <1>2, <2>2 DEF Widths
    <3> QED BY <1>2, <3>1, SuffixType
  <2>5. TypeOK'
    <3>1. names' \in [DOMAIN list -> Seq(Parts)]
      BY <2>1, <2>3, <2>4 DEF Joined
    <3>2. mutated' \in BOOLEAN
      BY <1>0, <2>1 DEF TypeOK
    <3> QED BY <1>0, <1>3, <2>2, <3>1, <3>2 DEF TypeOK, Widths
  <2>6. NamesJoined' /\ NoLongerThanNeeded'
    BY <1>0, <2>2, <2>3 DEF NamesJoined, NoLongerThanNeeded, Alias, Widths, Unique
  <2>7. SweptInv'
    <3>1. ASSUME ~mutated', NEW i \in DOMAIN list, NEW j \in DOMAIN list,
                 Compared(i, j)', Comparable(j, i)'
          PROVE  Settled(j, i)'
      <4>1. ~mutated /\ width' = width
        BY <2>1, <3>1
      <4>2. Settled(m, n)
        BY <1>1, <1>5, <2>1, <4>1, CompareSettles
      <4>3. Comparable(j, i)
        BY <1>0, <3>1 DEF Comparable
      <4>4. Settled(j, i)
        BY <1>0, <3>1, <4>1, <4>2, <4>3, AfterCompared DEF IInv, SweptInv
      <4> QED BY <1>0, <4>1, <4>4 DEF Settled, Alias, Matched
    <3> QED BY <1>0, <3>1 DEF SweptInv
  <2> QED BY <1>3, <2>5, <2>6, <2>7 DEF IInv
<1> QED BY <1>4, <1>5

\* The end of a sweep keeps the invariant: the last one has settled all pairs.
LEMMA EndSweepStep == IInv /\ EndSweep => IInv'
<1> SUFFICES ASSUME IInv, EndSweep PROVE IInv'
  OBVIOUS
<1>1. at[1] > Len(list) /\ pc = "sweep" /\ UNCHANGED <<list, width, names>>
  BY DEF EndSweep
<1>2. Len(list) \in Nat /\ DOMAIN list = 1..Len(list)
  BY AliasAssumption DEF IInv, TypeOK
<1>3. NamesJoined' /\ NoLongerThanNeeded'
  BY <1>1 DEF IInv, NamesJoined, NoLongerThanNeeded, Alias, Unique
<1>4. CASE mutated
  <2>1. at' = <<1, 1>> /\ mutated' = FALSE /\ pc' = "sweep"
    BY <1>1, <1>4 DEF EndSweep
  <2>2. at' \in (1..(Len(list) + 1)) \X (1..(Len(list) + 1))
    BY <1>2, <2>1
  <2>3. TypeOK'
    BY <1>1, <2>1, <2>2 DEF IInv, TypeOK
  <2>4. PairInv'
    BY <1>1, <1>2, <2>1 DEF PairInv
  <2>5. \A i, j \in DOMAIN list : ~Compared(i, j)'
    BY <1>2, <2>1 DEF Compared
  <2>6. SweptInv'
    BY <1>1, <2>1, <2>5 DEF SweptInv
  <2> QED BY <1>3, <2>3, <2>4, <2>6 DEF IInv
<1>5. CASE ~mutated
  <2>1. pc' = "done" /\ UNCHANGED <<at, mutated>>
    BY <1>5 DEF EndSweep
  <2>2. TypeOK' /\ PairInv'
    BY <1>1, <2>1 DEF IInv, TypeOK, PairInv
  <2>3. \A i, j \in DOMAIN list : Compared(i, j)
    <3>1. at[1] \in Nat
      BY <1>2 DEF IInv, TypeOK
    <3> QED BY <1>1, <1>2, <3>1 DEF Compared
  <2>4. AllSettled
    BY <1>5, <2>3 DEF IInv, SweptInv, AllSettled
  <2>5. SweptInv'
    BY <1>1, <2>1, <2>4 DEF SweptInv, AllSettled, Settled, Comparable, Alias, Matched
  <2> QED BY <1>3, <2>2, <2>5 DEF IInv
<1> QED BY <1>4, <1>5

\* The strengthening is invariant.
THEOREM Invariance == Spec => []IInv
<1>1. IInv /\ UNCHANGED vars => IInv'
  BY DEF IInv, vars, TypeOK, PairInv, NamesJoined, NoLongerThanNeeded, SweptInv, AllSettled,
         Settled, Comparable, Compared, Alias, Unique, Matched
<1>2. IInv /\ [Next]_vars => IInv'
  BY <1>1, CompareStep, EndSweepStep DEF Next
<1> QED BY <1>2, InitIInv, PTL DEF Spec

\* Every variable keeps its type: an alias never gets longer than its name.
THEOREM TypeCorrect == Spec => []TypeOK
<1>1. IInv => TypeOK
  BY DEF IInv
<1> QED BY <1>1, Invariance, PTL

\* The aliases that are compared are joined from the positions of the names.
THEOREM JoinedAliases == Spec => []NamesJoined
<1>1. IInv => NamesJoined
  BY DEF IInv
<1> QED BY <1>1, Invariance, PTL

\* No alias is ever longer than it has to be, in whatever order names come.
THEOREM NeverTooLong == Spec => []NoLongerThanNeeded
<1>1. IInv => NoLongerThanNeeded
  BY DEF IInv
<1> QED BY <1>1, Invariance, PTL

\* What comes after a pair is later.
LEMMA AfterLater ==
  ASSUME IInv, at[1] <= Len(list)
  PROVE  Later(After(at), at)
<1>1. Len(list) \in Nat /\ at[1] \in Nat /\ at[2] \in Nat
  BY AliasAssumption DEF IInv, TypeOK
<1> QED BY <1>1 DEF After, Later

\* No step goes back: a comparison makes aliases longer and reports it, or goes
\* on to a later pair, and without a report the sweeps end (MakeAliasesForNames).
THEOREM SweepsAlwaysAdvance == Spec => SweepsAdvance
<1> DEFINE Grows == width' # width /\ mutated' /\ \A i \in DOMAIN list : width[i] <= width'[i]
           GoesOn == /\ UNCHANGED <<width, names>>
                     /\ \/ mutated /\ ~mutated'
                        \/ UNCHANGED mutated /\ (Later(at', at) \/ (pc = "sweep" /\ pc' = "done"))
<1>1. ASSUME IInv, Compare PROVE Grows \/ GoesOn
  <2> DEFINE n == at[1]
             m == at[2]
             w == SeparateEqual(m, n)
  <2>0. n <= Len(list) /\ at' = After(at) /\ UNCHANGED <<list, pc>> /\ TypeOK
    BY <1>1 DEF Compare, IInv
  <2>1. n \in DOMAIN list /\ m \in DOMAIN list /\ Later(at', at)
    BY <1>1, <2>0, AfterType, AfterLater
  <2>2. CASE ~Comparable(m, n)
    BY <1>1, <2>1, <2>2 DEF Compare
  <2>3. CASE Comparable(m, n)
    <3>1. /\ ExtendIfSuffixMatches(w, width', m, n)
          /\ names' = Joined(w, width', m, n)
          /\ mutated' = (mutated \/ width' # width)
      BY <1>1, <2>3 DEF Compare
    <3>2. CASE width' # width
      <4>1. \A i \in DOMAIN list : width[i] <= w[i] /\ w[i] <= width'[i]
        BY <1>1, <2>1, <2>3, <3>1, CompareGrows
      <4>2. Widths(w) /\ Widths(width')
        BY <1>1, <2>1, <2>3, <3>1, CompareWidths
      <4>3. \A i \in DOMAIN list : width[i] <= width'[i]
        BY <2>0, <4>1, <4>2 DEF Widths, TypeOK
      <4> QED BY <3>1, <3>2, <4>3
    <3>3. CASE width' = width
      <4>1. w = width
        BY <1>1, <2>1, <2>3, <3>1, <3>3, CompareSettles
      <4>2. names' = [i \in DOMAIN list |-> names[i]]
        BY <3>1, <3>3, <4>1 DEF Joined
      <4>3. names' = names
        BY <2>0, <4>2 DEF TypeOK
      <4>4. mutated' = mutated
        BY <2>0, <3>1, <3>3 DEF TypeOK
      <4> QED BY <2>1, <3>3, <4>3, <4>4
    <3> QED BY <3>2, <3>3
  <2> QED BY <2>2, <2>3
<1>2. ASSUME EndSweep PROVE GoesOn
  BY <1>2 DEF EndSweep
<1>3. IInv /\ [Next]_vars => [Grows \/ GoesOn]_vars
  BY <1>1, <1>2 DEF Next
<1> QED BY <1>3, Invariance, PTL DEF Spec, SweepsAdvance

\* Whatever is asked of numbers, if any has it then one is the least that has.
LEMMA LeastNumber ==
  ASSUME NEW S \in SUBSET Nat, S # {}
  PROVE  \E k \in S : \A j \in S : k <= j
<1>1. PICK k \in S : \A j \in S : <<j, k>> \notin OpToRel(<, Nat)
  BY WFMin, NatLessThanWellFounded, Zenon
<1>2. \A j \in S : j \in Nat /\ k \in Nat /\ ~(j < k)
  BY <1>1, Zenon DEF OpToRel
<1> QED BY <1>2

\* The inner loop leaves the name with one number of parts, and with one only.
LEMMA LeavesOne ==
  ASSUME TypeOK, NEW w, Widths(w), NEW a \in DOMAIN list, NEW b \in DOMAIN list
  PROVE  \E k \in 1..Len(list[a]) :
           Leaves(w, a, b, k) /\ \A h \in 1..Len(list[a]) : Leaves(w, a, b, h) => h = k
<1> DEFINE L == Len(list[a])
           S == {k \in w[a]..L : k < L => ~Matched(w, a, b, k)}
<1>1. L \in Nat \ {0} /\ w[a] \in Nat \ {0} /\ w[a] <= L
  BY NameType DEF TypeOK, Widths
<1>2. S \subseteq Nat /\ L \in S
  BY <1>1
<1>3. PICK k \in S : \A j \in S : k <= j
  BY <1>2, LeastNumber
<1>4. k \in 1..L /\ k \in w[a]..L /\ (k < L => ~Matched(w, a, b, k))
  BY <1>1
<1>5. \A j \in w[a]..(k - 1) : Matched(w, a, b, j)
  <2> TAKE j \in w[a]..(k - 1)
  <2>1. j \in w[a]..L /\ j < L /\ ~(k <= j)
    BY <1>1, <1>4
  <2> QED BY <1>3, <2>1
<1>6. Leaves(w, a, b, k)
  BY <1>4, <1>5 DEF Leaves
<1>7. ASSUME NEW h \in 1..L, Leaves(w, a, b, h) PROVE h = k
  <2>1. h \in w[a]..L /\ (h < L => ~Matched(w, a, b, h)) /\ \A j \in w[a]..(h - 1) : Matched(w, a, b, j)
    BY <1>7 DEF Leaves
  <2>2. ~(h < k)
    BY <1>1, <1>4, <1>5, <2>1
  <2>3. ~(k < h)
    BY <1>1, <1>4, <2>1
  <2> QED BY <1>1, <1>4, <2>1, <2>2, <2>3
<1> QED BY <1>4, <1>6, <1>7

\* What extendIfSuffixMatches makes of two names is always defined, and there is
\* no choice in it.
OneResult(m, n) ==
    \E v : /\ ExtendIfSuffixMatches(SeparateEqual(m, n), v, m, n)
           /\ \A x : ExtendIfSuffixMatches(SeparateEqual(m, n), x, m, n) => x = v

\* Each comparison comes to an end with one result, so that a sweep never stops
\* before its last pair (MakeAliasesForNames, extendIfSuffixMatches).
THEOREM ComparisonsEnd ==
    Spec => [](\A m, n \in DOMAIN list : Comparable(m, n) => OneResult(m, n))
<1>1. ASSUME IInv, NEW m \in DOMAIN list, NEW n \in DOMAIN list, Comparable(m, n)
      PROVE  OneResult(m, n)
  <2> DEFINE w == SeparateEqual(m, n)
             u == SeparateNext(w, m, n)
  <2>0. TypeOK /\ Widths(w)
    BY <1>1, SeparateEqualWidths DEF IInv
  <2>1. CASE ~Extendable(w, m)
    BY <2>1 DEF OneResult, ExtendIfSuffixMatches
  <2>2. CASE Extendable(w, m)
    <3>1. Widths(u)
      BY <1>1, <2>0, <2>2, SeparateNextWidths
    <3>2. PICK k \in 1..Len(list[m]) :
            Leaves(u, m, n, k) /\ \A h \in 1..Len(list[m]) : Leaves(u, m, n, h) => h = k
      BY <2>0, <3>1, LeavesOne
    <3> DEFINE v == [u EXCEPT ![m] = k]
    <3>3. ExtendIfSuffixMatches(w, v, m, n)
      BY <2>2, <3>2 DEF ExtendIfSuffixMatches
    <3>4. ASSUME NEW x, ExtendIfSuffixMatches(w, x, m, n) PROVE x = v
      <4>1. PICK h \in 1..Len(list[m]) : Leaves(u, m, n, h) /\ x = [u EXCEPT ![m] = h]
        BY <2>2, <3>4 DEF ExtendIfSuffixMatches
      <4>2. h = k
        BY <3>2, <4>1
      <4> QED BY <4>1, <4>2
    <3> HIDE DEF v
    <3> QED BY <3>3, <3>4 DEF OneResult
  <2> QED BY <2>1, <2>2
<1>2. IInv => \A m, n \in DOMAIN list : Comparable(m, n) => OneResult(m, n)
  BY <1>1
<1> QED BY <1>2, Invariance, PTL

-----------------------------------------------------------------------------
(* When the sweeps have ended.                                             *)

\* Where all pairs are settled, an alias that is not the full name is unique.
LEMMA SettledUnique ==
  ASSUME IInv, AllSettled, NEW i \in DOMAIN list, width[i] # Len(list[i])
  PROVE  Unique(i, width[i])
<1> SUFFICES ASSUME NEW j \in DOMAIN list, list[j] # list[i], width[i] <= Len(list[j]),
                    Suffix(list[j], width[i]) = Suffix(list[i], width[i])
             PROVE  FALSE
  BY DEF Unique
<1>1. /\ Comparable(i, j) /\ Comparable(j, i)
      /\ Settled(i, j) /\ Settled(j, i)
  BY DEF Comparable, AllSettled
<1>2. /\ list[i] \in Seq(Parts) /\ list[j] \in Seq(Parts)
      /\ Len(list[i]) \in Nat /\ Len(list[j]) \in Nat
      /\ width[i] \in Nat \ {0} /\ width[j] \in Nat \ {0}
      /\ width[i] < Len(list[i]) /\ width[j] <= Len(list[j])
  BY NameType DEF IInv, TypeOK
<1>3. CASE width[i] < width[j]
  BY <1>1, <1>2, <1>3 DEF Settled, Matched
<1>4. CASE width[i] = width[j]
  BY <1>1, <1>4 DEF Settled, Alias
<1>5. CASE width[j] < width[i]
  <2>1. width[j] \in 0..width[i] /\ width[i] <= Len(list[i])
    BY <1>2, <1>5
  <2>2. Suffix(list[j], width[j]) = Suffix(list[i], width[j])
    BY <1>2, <2>1, SuffixShrinks
  <2>3. width[j] < Len(list[j])
    BY <1>2, <1>5
  <2> QED BY <1>1, <1>5, <2>2, <2>3 DEF Settled, Matched
<1> QED BY <1>2, <1>3, <1>4, <1>5

\* When MakeAliasesForNames returns, each alias is the shortest unique suffix of
\* its name, or the full name, whatever the list and its order.
THEOREM AliasesShortestUnique == Spec => []ShortestUnique
<1>1. IInv => ShortestUnique
  <2> SUFFICES ASSUME IInv, pc = "done", NEW i \in DOMAIN list
               PROVE  \E k \in 1..Len(list[i]) :
                        /\ names[i] = Suffix(list[i], k)
                        /\ Unique(i, k) \/ k = Len(list[i])
                        /\ \A j \in 1..(k - 1) : ~Unique(i, j)
    BY DEF ShortestUnique
  <2>1. width[i] \in 1..Len(list[i])
    BY NameType DEF IInv, TypeOK
  <2>2. names[i] = Suffix(list[i], width[i])
    BY DEF IInv, NamesJoined, Alias
  <2>3. AllSettled
    BY DEF IInv, SweptInv
  <2>4. Unique(i, width[i]) \/ width[i] = Len(list[i])
    BY <2>3, SettledUnique
  <2>5. \A j \in 1..(width[i] - 1) : ~Unique(i, j)
    BY DEF IInv, NoLongerThanNeeded
  <2> QED BY <2>1, <2>2, <2>4, <2>5
<1> QED BY <1>1, Invariance, PTL

\* Equal names have equal aliases in the end.
LEMMA EqualWidths ==
  ASSUME IInv, AllSettled, NEW i \in DOMAIN list, NEW j \in DOMAIN list, list[i] = list[j]
  PROVE  width[i] = width[j]
<1>1. /\ width[i] \in 1..Len(list[i]) /\ width[j] \in 1..Len(list[i])
      /\ width[i] \in Nat /\ width[j] \in Nat
  BY NameType DEF IInv, TypeOK
<1>2. \A k \in Nat : Unique(i, k) <=> Unique(j, k)
  BY DEF Unique
<1>3. ASSUME NEW a \in {i, j}, NEW b \in {i, j}, width[a] < width[b] PROVE FALSE
  <2>1. width[a] # Len(list[a]) /\ a \in DOMAIN list /\ width[a] \in 1..(width[b] - 1)
    BY <1>1, <1>3
  <2>2. Unique(a, width[a])
    BY <2>1, SettledUnique
  <2>3. Unique(b, width[a])
    BY <1>1, <1>2, <2>2
  <2> QED BY <2>1, <2>3 DEF IInv, NoLongerThanNeeded
<1>4. ~(width[i] < width[j]) /\ ~(width[j] < width[i])
  BY <1>3
<1> QED BY <1>1, <1>4

\* A suffix no shorter than the alias of i belongs to the names equal to i, be
\* it as an alias, as the full name or as a suffix of another name.
LEMMA OwnSuffix ==
  ASSUME IInv, AllSettled, NEW i \in DOMAIN list, NEW k \in width[i]..Len(list[i]),
         NEW j \in DOMAIN list,
         \/ Suffix(list[i], k) \in {Alias(j), list[j]}
         \/ Unique(i, width[i]) /\ \E h \in 1..Len(list[j]) : Suffix(list[i], k) = Suffix(list[j], h)
  PROVE  list[j] = list[i]
<1> SUFFICES ASSUME list[j] # list[i] PROVE FALSE
  OBVIOUS
<1>1. /\ list[i] \in Seq(Parts) /\ list[j] \in Seq(Parts)
      /\ Len(list[i]) \in Nat \ {0} /\ Len(list[j]) \in Nat \ {0}
      /\ width[i] \in Nat \ {0} /\ width[j] \in 1..Len(list[j]) /\ TypeOK
  BY NameType DEF IInv, TypeOK
<1>2. k \in 1..Len(list[i]) /\ width[i] \in 1..k
  BY <1>1
<1>3. PICK h \in 1..Len(list[j]) : Suffix(list[i], k) = Suffix(list[j], h) /\
                                   (Unique(i, width[i]) \/ h \in {width[j], Len(list[j])})
  <2>1. Alias(j) = Suffix(list[j], width[j]) /\ list[j] = Suffix(list[j], Len(list[j]))
    BY <1>1, SuffixFull DEF Alias
  <2>2. Len(list[j]) \in 1..Len(list[j])
    BY <1>1
  <2> QED BY <1>1, <2>1, <2>2
<1>4. h = k
  BY <1>1, <1>2, <1>3, SuffixWidth
<1>5. ~Unique(i, k)
  BY <1>2, <1>3, <1>4 DEF Unique
<1>6. ~Unique(i, width[i])
  BY <1>1, <1>2, <1>5, UniqueGrows
<1>7. width[i] = Len(list[i])
  BY <1>6, SettledUnique
<1>8. k = width[i] /\ Suffix(list[i], k) = list[i]
  BY <1>1, <1>2, <1>7, SuffixFull
<1>9. CASE h = width[j]
  <2>1. Alias(i) = Alias(j)
    BY <1>3, <1>8, <1>9 DEF Alias
  <2> QED BY <2>1 DEF AllSettled, Settled, Comparable
<1>10. CASE h = Len(list[j])
  BY <1>1, <1>3, <1>8, <1>10, SuffixFull
<1> QED BY <1>3, <1>6, <1>9, <1>10

\* Looking a name up by its alias, or a longer suffix, finds the images of that
\* name and no other (Match).
THEOREM AliasesFindNames == Spec => []AliasesLead
<1>1. IInv => AliasesLead
  <2> SUFFICES ASSUME IInv, pc = "done", NEW i \in DOMAIN list, NEW k \in width[i]..Len(list[i])
               PROVE  Candidates(Suffix(list[i], k)) = {j \in DOMAIN list : list[j] = list[i]}
    BY DEF AliasesLead
  <2> DEFINE term == Suffix(list[i], k)
             same == {j \in DOMAIN list : list[j] = list[i]}
  <2>1. AllSettled
    BY DEF IInv, SweptInv
  <2>2. /\ list[i] \in Seq(Parts) /\ Len(list[i]) \in Nat \ {0} /\ width[i] \in 1..Len(list[i])
    BY NameType DEF IInv, TypeOK
  <2>3. ExactCandidates(term) \subseteq same
    BY <2>1, OwnSuffix DEF ExactCandidates
  <2>4. CASE ExactCandidates(term) # {}
    <3>1. PICK j \in DOMAIN list : list[j] = list[i] /\ term \in {Alias(j), list[j]}
      BY <2>3, <2>4 DEF ExactCandidates
    <3>2. \A h \in same : term \in {Alias(h), list[h]}
      <4> TAKE h \in same
      <4>1. Alias(h) = Alias(j) /\ list[h] = list[j]
        BY <2>1, <3>1, EqualWidths DEF Alias
      <4> QED BY <3>1, <4>1
    <3> QED BY <2>3, <2>4, <3>2 DEF Candidates, ExactCandidates
  <2>5. CASE ExactCandidates(term) = {}
    <3>1. width[i] # Len(list[i])
      <4> SUFFICES ASSUME width[i] = Len(list[i]) PROVE FALSE
        OBVIOUS
      <4>1. k = Len(list[i])
        BY <2>2
      <4>2. term = list[i]
        BY <2>2, <4>1, SuffixFull
      <4> QED BY <2>5, <4>2 DEF ExactCandidates
    <3>2. Unique(i, width[i])
      BY <2>1, <3>1, SettledUnique
    <3>3. Candidates(term) = {j \in DOMAIN list : \E h \in 1..Len(list[j]) : term = Suffix(list[j], h)}
      BY <2>5 DEF Candidates
    <3>4. Candidates(term) \subseteq same
      BY <2>1, <3>2, <3>3, OwnSuffix
    <3>5. same \subseteq Candidates(term)
      <4>1. k \in 1..Len(list[i])
        BY <2>2
      <4> QED BY <3>3, <4>1
    <3> QED BY <3>4, <3>5
  <2> QED BY <2>4, <2>5
<1> QED BY <1>1, Invariance, PTL
=============================================================================
