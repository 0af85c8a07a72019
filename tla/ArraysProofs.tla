----------------------------- MODULE ArraysProofs -----------------------------
(***************************************************************************)
(* What filtering, sorting and adding up give, for every array: the lemmas *)
(* that the proofs about buffers, windows, lists and counters share.       *)
(***************************************************************************)
EXTENDS Arrays, Functions, SequenceTheorems, FunctionTheorems, FiniteSetTheorems,
        WellFoundedInduction, TLAPS

(***************************************************************************)
(* Induction over numbers, through the least one that is not reached.      *)
(***************************************************************************)

\* Every set of numbers that has one has a least one.
LEMMA LeastNumber ==
  ASSUME NEW T, T \subseteq Nat, T # {}
  PROVE  \E n \in T : \A m \in T : n <= m
<1> DEFINE Less == {p \in Nat \X Nat : p[1] < p[2]}
<1>1. IsWellFoundedOn(Less, Nat)
  BY NatLessThanWellFounded DEF OpToRel
<1>2. PICK n \in T : \A m \in T : ~ (<<m, n>> \in Less)
  BY <1>1, WFMin
<1>3. \A m \in T : ~ (m < n)
  BY <1>2
<1>4. \A m \in Nat : m \in T => n <= m
  BY <1>2, <1>3
<1> QED
  BY <1>2, <1>4

\* A set of numbers that has 0 and, with each, the next has them all.
LEMMA SetInduction ==
  ASSUME NEW T, 0 \in T, \A n \in Nat : n \in T => n + 1 \in T
  PROVE  Nat \subseteq T
<1> SUFFICES ASSUME Nat \ T # {} PROVE FALSE
  OBVIOUS
<1>1. PICK n \in Nat \ T : \A m \in Nat \ T : n <= m
  BY LeastNumber
<1>2. n - 1 \in Nat /\ n - 1 \in T
  BY <1>1
<1> QED
  BY <1>1, <1>2

-----------------------------------------------------------------------------
(* filter()                                                                 *)

\* f computes the filter of s by P up to n.
Filtering(f, s, P, n) ==
  f = [i \in 0..n |-> IF i = 0 THEN <<>>
                      ELSE IF i \in P THEN Append(f[i - 1], s[i])
                      ELSE f[i - 1]]

\* There is such an f.
LEMMA FilterExists ==
  ASSUME NEW s, NEW P, NEW n \in Nat
  PROVE  \E f : Filtering(f, s, P, n)
<1> DEFINE T == {m \in Nat : \E f : Filtering(f, s, P, m)}
<1>1. 0 \in T
  <2> DEFINE f == [i \in 0..0 |-> <<>>]
  <2>1. Filtering(f, s, P, 0)
    BY DEF Filtering
  <2> QED
    BY <2>1
<1>2. ASSUME NEW m \in Nat, m \in T PROVE m + 1 \in T
  <2>1. PICK f : Filtering(f, s, P, m)
    BY <1>2
  <2> DEFINE last == IF m + 1 \in P THEN Append(f[m], s[m + 1]) ELSE f[m]
             g == [i \in 0..(m + 1) |-> IF i = m + 1 THEN last ELSE f[i]]
  <2>2. \A i \in 0..m : f[i] = IF i = 0 THEN <<>>
                               ELSE IF i \in P THEN Append(f[i - 1], s[i])
                               ELSE f[i - 1]
    BY <2>1 DEF Filtering
  <2>3. \A i \in 0..(m + 1) : i # 0 => i - 1 \in 0..m /\ g[i - 1] = f[i - 1]
    OBVIOUS
  <2>4. \A i \in 0..(m + 1) :
          g[i] = IF i = 0 THEN <<>>
                 ELSE IF i \in P THEN Append(g[i - 1], s[i])
                 ELSE g[i - 1]
    <3> SUFFICES ASSUME NEW i \in 0..(m + 1)
                 PROVE  g[i] = IF i = 0 THEN <<>>
                               ELSE IF i \in P THEN Append(g[i - 1], s[i])
                               ELSE g[i - 1]
      OBVIOUS
    <3>1. CASE i = m + 1
      <4>1. g[i] = last /\ i # 0 /\ i - 1 = m
        BY <3>1
      <4> QED
        BY <2>3, <3>1, <4>1
    <3>2. CASE i # m + 1
      <4>1. i \in 0..m /\ g[i] = f[i]
        BY <3>2
      <4> HIDE DEF g
      <4> QED
        BY <2>2, <2>3, <4>1
    <3> QED
      BY <3>1, <3>2
  <2>5. g = [i \in 0..(m + 1) |-> g[i]]
    OBVIOUS
  <2> HIDE DEF g
  <2>6. Filtering(g, s, P, m + 1)
    BY <2>4, <2>5 DEF Filtering
  <2> QED
    BY <2>6
<1> QED
  BY <1>1, <1>2, SetInduction

\* t consists of the elements of s at the positions P up to n, in their order;
\* h tells where each comes from.
Picks(h, t, s, P, n) ==
  /\ h \in [1..Len(t) -> P \cap (1..n)]
  /\ \A i \in 1..Len(t) : t[i] = s[h[i]]
  /\ \A i, j \in 1..Len(t) : i < j => h[i] < h[j]
  /\ \A p \in P \cap (1..n) : \E i \in 1..Len(t) : h[i] = p

\* What one position adds to a selection.
LEMMA PickOne ==
  ASSUME NEW S, NEW s \in Seq(S), NEW P, NEW n \in Nat, n + 1 \in 1..Len(s),
         NEW t \in Seq(S), NEW h, Picks(h, t, s, P, n), Len(t) <= n
  PROVE  LET u == IF n + 1 \in P THEN Append(t, s[n + 1]) ELSE t IN
         /\ u \in Seq(S) /\ Len(u) <= n + 1
         /\ \E g : Picks(g, u, s, P, n + 1)
<1>1. CASE n + 1 \notin P
  <2>1. P \cap (1..(n + 1)) = P \cap (1..n)
    BY <1>1
  <2>2. Picks(h, t, s, P, n + 1)
    BY <2>1 DEF Picks
  <2> QED
    BY <1>1, <2>2
<1>2. CASE n + 1 \in P
  <2> DEFINE u == Append(t, s[n + 1])
             k == Len(t) + 1
             g == [i \in 1..k |-> IF i = k THEN n + 1 ELSE h[i]]
  <2>1. s[n + 1] \in S
    OBVIOUS
  <2>2. /\ u \in Seq(S) /\ Len(u) = k /\ u[k] = s[n + 1]
        /\ \A i \in 1..Len(t) : u[i] = t[i]
    BY <2>1, AppendProperties
  <2>3. Len(t) \in Nat /\ k \in Nat
    OBVIOUS
  <2>4. /\ g[k] = n + 1
        /\ \A i \in 1..Len(t) : i \in 1..k /\ g[i] = h[i] /\ h[i] \in P \cap (1..n)
        /\ \A i \in 1..k : i = k \/ i \in 1..Len(t)
    <3>1. \A i \in 1..Len(t) : i \in 1..k /\ i # k
      BY <2>3
    <3>2. \A i \in 1..k : i = k \/ i \in 1..Len(t)
      BY <2>3
    <3>3. \A i \in 1..Len(t) : h[i] \in P \cap (1..n)
      BY DEF Picks
    <3>4. k \in 1..k
      BY <2>3
    <3> HIDE DEF k
    <3> QED
      BY <3>1, <3>2, <3>3, <3>4
  <2>5. g \in [1..k -> P \cap (1..(n + 1))]
    <3>1. n + 1 \in 1..(n + 1) /\ \A m \in 1..n : m \in 1..(n + 1)
      OBVIOUS
    <3> HIDE DEF k, g
    <3>2. \A i \in 1..k : g[i] \in P \cap (1..(n + 1))
      BY <1>2, <2>4, <3>1
    <3> USE DEF g
    <3> QED
      BY <3>2
  <2> HIDE DEF g, k, u
  <2>6. \A i \in 1..k : u[i] = s[g[i]]
    BY <2>2, <2>4 DEF Picks
  <2>7. \A i, j \in 1..k : i < j => g[i] < g[j]
    <3> SUFFICES ASSUME NEW i \in 1..k, NEW j \in 1..k, i < j PROVE g[i] < g[j]
      OBVIOUS
    <3>1. i # k
      BY <2>3
    <3> QED
      BY <2>4, <3>1 DEF Picks
  <2>8. \A p \in P \cap (1..(n + 1)) : \E i \in 1..k : g[i] = p
    <3> SUFFICES ASSUME NEW p \in P \cap (1..(n + 1)) PROVE \E i \in 1..k : g[i] = p
      OBVIOUS
    <3>1. CASE p = n + 1
      BY <2>3, <2>4, <3>1 DEF k
    <3>2. CASE p # n + 1
      <4>1. p \in P \cap (1..n)
        BY <3>2
      <4> QED
        BY <2>4, <4>1 DEF Picks
    <3> QED
      BY <3>1, <3>2
  <2>9. Picks(g, u, s, P, n + 1)
    BY <2>2, <2>5, <2>6, <2>7, <2>8 DEF Picks
  <2> QED
    BY <1>2, <2>2, <2>3, <2>9 DEF k, u
<1> QED
  BY <1>1, <1>2

\* Filtering gives the elements at the chosen positions, in their order.
LEMMA KeptIsSelection ==
  ASSUME NEW S, NEW s \in Seq(S), NEW P \in SUBSET (1..Len(s))
  PROVE  /\ Kept(s, P) \in Seq(S)
         /\ Len(Kept(s, P)) <= Len(s)
         /\ \E h : Picks(h, Kept(s, P), s, P, Len(s))
<1>1. PICK f : Kept(s, P) = f[Len(s)] /\ Filtering(f, s, P, Len(s))
  <2>1. Len(s) \in Nat
    OBVIOUS
  <2>2. \E f : Filtering(f, s, P, Len(s))
    BY <2>1, FilterExists
  <2> DEFINE f == CHOOSE f : Filtering(f, s, P, Len(s))
  <2>3. Filtering(f, s, P, Len(s))
    BY <2>2
  <2>4. Kept(s, P) = f[Len(s)]
    BY DEF Kept, Filtering
  <2> QED
    BY <2>3, <2>4
<1> DEFINE Good(n) == /\ f[n] \in Seq(S) /\ Len(f[n]) <= n
                      /\ \E h : Picks(h, f[n], s, P, n)
           T == {n \in Nat : n <= Len(s) => Good(n)}
<1>2. \A i \in 0..Len(s) : f[i] = IF i = 0 THEN <<>>
                                  ELSE IF i \in P THEN Append(f[i - 1], s[i])
                                  ELSE f[i - 1]
  BY <1>1 DEF Filtering
<1>3. 0 \in T
  <2>1. f[0] = <<>>
    BY <1>2
  <2>2. f[0] \in Seq(S) /\ Len(f[0]) = 0
    BY <2>1
  <2> DEFINE h == [i \in 1..0 |-> i]
  <2>3. Picks(h, f[0], s, P, 0)
    BY <2>2 DEF Picks
  <2> QED
    BY <2>2, <2>3
<1>4. ASSUME NEW n \in Nat, n \in T PROVE n + 1 \in T
  <2> SUFFICES ASSUME n + 1 <= Len(s) PROVE Good(n + 1)
    OBVIOUS
  <2>1. Good(n) /\ n + 1 \in 1..Len(s) /\ n + 1 # 0 /\ (n + 1) - 1 = n
    BY <1>4
  <2>2. f[n + 1] = IF n + 1 \in P THEN Append(f[n], s[n + 1]) ELSE f[n]
    BY <1>2, <2>1
  <2>3. PICK h : Picks(h, f[n], s, P, n)
    BY <2>1
  <2> QED
    BY <2>1, <2>2, <2>3, PickOne
<1>5. Len(s) \in Nat /\ Len(s) \in T
  <2> HIDE DEF T
  <2> QED
    BY <1>3, <1>4, SetInduction
<1> QED
  BY <1>1, <1>5

-----------------------------------------------------------------------------
(* sort()                                                                   *)

\* An array in order stays as it is: the sort is stable.
LEMMA SortedStays ==
  ASSUME NEW S, NEW s \in Seq(S), NEW before,
         \A i, j \in 1..Len(s) : i <= j => <<j, i>> \notin before
  PROVE  SortedBy(s, before) = s
<1> DEFINE n == Len(s)
           rank == [i \in DOMAIN s |-> Cardinality({j \in DOMAIN s : NoLater(j, i, before)})]
<1>1. n \in Nat /\ DOMAIN s = 1..n /\ s = [r \in 1..n |-> s[r]]
  OBVIOUS
<1>2. ASSUME NEW i \in 1..n PROVE rank[i] = i
  <2>1. ASSUME NEW j \in 1..n PROVE NoLater(j, i, before) <=> j <= i
    <3>1. CASE j <= i
      BY <3>1 DEF NoLater
    <3>2. CASE ~(j <= i)
      <4>1. i <= j
        BY <3>2
      <4> QED
        BY <3>2, <4>1 DEF NoLater
    <3> QED
      BY <3>1, <3>2
  <2>2. {j \in DOMAIN s : NoLater(j, i, before)} = {j \in 1..n : j <= i}
    BY <1>1, <2>1
  <2>3. {j \in 1..n : j <= i} = 1..i
    BY <1>1
  <2>4. Cardinality(1..i) = i
    BY FS_Interval
  <2> QED
    BY <1>1, <2>2, <2>3, <2>4
<1>3. ASSUME NEW r \in 1..n PROVE (CHOOSE i \in 1..n : rank[i] = r) = r
  <2> HIDE DEF rank
  <2> QED
    BY <1>2
<1>4. SortedBy(s, before) = [r \in 1..n |-> s[CHOOSE i \in 1..n : rank[i] = r]]
  BY <1>1 DEF SortedBy
<1> HIDE DEF rank
<1>5. [r \in 1..n |-> s[CHOOSE i \in 1..n : rank[i] = r]] = [r \in 1..n |-> s[r]]
  <2> DEFINE at(r) == CHOOSE i \in 1..n : rank[i] = r
  <2>1. \A r \in 1..n : at(r) = r
    BY <1>3
  <2> HIDE DEF at
  <2>2. [r \in 1..n |-> s[at(r)]] = [r \in 1..n |-> s[r]]
    BY <2>1
  <2> QED
    BY <2>2 DEF at
<1> QED
  BY <1>1, <1>4, <1>5

\* p says which position of v each position of v sorted comes from.
Sorts(p, v) ==
  /\ p \in Bijection(1..Len(v), 1..Len(v))
  /\ SortedBy(v, Smaller(v)) = [r \in 1..Len(v) |-> v[p[r]]]
  /\ \A r, q \in 1..Len(v) : r <= q => v[p[r]] <= v[p[q]]

\* Numbers come out in ascending order, each as often as it went in.
LEMMA SortedAscends ==
  ASSUME NEW v \in Seq(Int)
  PROVE  \E p : Sorts(p, v)
<1> DEFINE n == Len(v)
           N == 1..n
           B == Smaller(v)
           Down(i) == {j \in DOMAIN v : NoLater(j, i, B)}
           rank == [i \in DOMAIN v |-> Cardinality(Down(i))]
           p == [r \in N |-> CHOOSE i \in N : rank[i] = r]
<1>1. n \in Nat /\ DOMAIN v = N /\ \A i \in N : v[i] \in Int /\ i \in Int
  OBVIOUS
<1>2. IsFiniteSet(N) /\ Cardinality(N) = n
  <2>1. \A m \in Nat : IsFiniteSet(1..m) /\ Cardinality(1..m) = m
    BY FS_Interval
  <2> QED
    BY <1>1, <2>1
<1>3. \A i, j \in N : NoLater(j, i, B) <=> v[j] < v[i] \/ (v[j] = v[i] /\ j <= i)
  <2> SUFFICES ASSUME NEW i \in N, NEW j \in N
               PROVE  NoLater(j, i, B) <=> v[j] < v[i] \/ (v[j] = v[i] /\ j <= i)
    OBVIOUS
  <2>1. (<<j, i>> \in B <=> v[j] < v[i]) /\ (<<i, j>> \in B <=> v[i] < v[j])
    BY <1>1 DEF Smaller
  <2>2. v[i] \in Int /\ v[j] \in Int
    BY <1>1
  <2> HIDE DEF B
  <2> QED
    BY <2>1, <2>2 DEF NoLater
<1> HIDE DEF B
<1>4. ASSUME NEW i \in N
      PROVE  /\ Down(i) \subseteq N /\ i \in Down(i)
             /\ IsFiniteSet(Down(i)) /\ rank[i] \in N
  <2>1. Down(i) \subseteq N /\ i \in Down(i)
    BY <1>1, <1>3
  <2>2. IsFiniteSet(Down(i)) /\ Cardinality(Down(i)) <= n /\ Cardinality(Down(i)) \in Nat
    BY <1>2, <2>1, FS_Subset, FS_CardinalityType
  <2>3. Cardinality(Down(i)) # 0
    BY <2>1, <2>2, FS_EmptySet
  <2>4. rank[i] = Cardinality(Down(i))
    BY <1>1
  <2> HIDE DEF Down, rank
  <2> QED
    BY <1>1, <2>1, <2>2, <2>3, <2>4
<1>5. ASSUME NEW i \in N, NEW j \in N, i # j, NoLater(j, i, B) PROVE rank[j] < rank[i]
  <2>1. Down(j) \subseteq Down(i) /\ i \notin Down(j)
    <3>1. ASSUME NEW k \in N, NoLater(k, j, B) PROVE NoLater(k, i, B)
      <4>1. v[i] \in Int /\ v[j] \in Int /\ v[k] \in Int
        BY <1>1
      <4>2. v[k] < v[j] \/ (v[k] = v[j] /\ k <= j)
        BY <1>3, <3>1
      <4>3. v[j] < v[i] \/ (v[j] = v[i] /\ j <= i)
        BY <1>3, <1>5
      <4>4. v[k] < v[i] \/ (v[k] = v[i] /\ k <= i)
        BY <4>1, <4>2, <4>3
      <4> QED
        BY <1>3, <4>4
    <3>2. ~NoLater(i, j, B)
      <4>1. v[i] \in Int /\ v[j] \in Int
        BY <1>1
      <4>2. v[j] < v[i] \/ (v[j] = v[i] /\ j <= i)
        BY <1>3, <1>5
      <4>3. ~(v[i] < v[j] \/ (v[i] = v[j] /\ i <= j))
        BY <1>5, <4>1, <4>2
      <4> QED
        BY <1>3, <4>3
    <3> QED
      BY <1>1, <3>1, <3>2
  <2>2. i \in Down(i) /\ IsFiniteSet(Down(i))
    BY <1>4
  <2>3. /\ Cardinality(Down(j)) <= Cardinality(Down(i))
        /\ Cardinality(Down(j)) # Cardinality(Down(i))
    BY <2>1, <2>2, FS_Subset
  <2>4. rank[i] = Cardinality(Down(i)) /\ rank[j] = Cardinality(Down(j))
    BY <1>1
  <2>5. rank[i] \in Nat /\ rank[j] \in Nat
    <3>1. rank[i] \in N /\ rank[j] \in N
      BY <1>4
    <3> HIDE DEF rank
    <3> QED
      BY <1>1, <3>1
  <2> HIDE DEF Down, rank
  <2> QED
    BY <2>3, <2>4, <2>5
<1>6. \A i, j \in N : NoLater(i, j, B) \/ NoLater(j, i, B)
  BY DEF NoLater
<1>7. \A r \in N : \E i \in N : rank[i] = r
  <2>1. rank \in [N -> N]
    BY <1>1, <1>4
  <2>2. rank \in Injection(N, N)
    <3>1. \A i, j \in N : i # j => rank[i] # rank[j]
      <4> SUFFICES ASSUME NEW i \in N, NEW j \in N, i # j PROVE rank[i] # rank[j]
        OBVIOUS
      <4> HIDE DEF rank
      <4>1. rank[i] \in N /\ rank[j] \in N
        BY <2>1
      <4>2. rank[i] \in Nat /\ rank[j] \in Nat
        BY <1>1, <4>1
      <4> QED
        BY <1>5, <1>6, <4>2
    <3> HIDE DEF rank
    <3> QED
      BY <2>1, <3>1 DEF Injection, IsInjective
  <2> HIDE DEF rank
  <2>3. rank \in Surjection(N, N)
    BY <1>2, <2>2, FS_Injection
  <2> QED
    BY <2>3 DEF Surjection
<1>8. \A r \in N : p[r] \in N /\ rank[p[r]] = r
  <2> HIDE DEF rank
  <2> QED
    BY <1>7
<1>9. p \in Bijection(N, N)
  <2> HIDE DEF rank
  <2>1. p \in [N -> N]
    BY <1>8
  <2>2. \A r, q \in N : p[r] = p[q] => r = q
    BY <1>8
  <2>3. p \in Injection(N, N)
    BY <2>1, <2>2 DEF Injection, IsInjective
  <2>4. p \in Surjection(N, N)
    BY <1>2, <2>3, FS_Injection
  <2> QED
    BY <2>3, <2>4 DEF Bijection
<1>10. \A r, q \in N : r <= q => v[p[r]] <= v[p[q]]
  <2> SUFFICES ASSUME NEW r \in N, NEW q \in N, r <= q PROVE v[p[r]] <= v[p[q]]
    OBVIOUS
  <2> HIDE DEF p, rank
  <2>1. p[r] \in N /\ p[q] \in N /\ rank[p[r]] = r /\ rank[p[q]] = q
    BY <1>8
  <2>2. v[p[r]] \in Int /\ v[p[q]] \in Int
    BY <1>1, <2>1
  <2>3. CASE r = q
    BY <2>2, <2>3
  <2>4. CASE r # q
    <3>1. NoLater(p[r], p[q], B)
      BY <1>1, <1>5, <1>6, <2>1, <2>4
    <3> QED
      BY <1>3, <2>1, <2>2, <3>1
  <2> QED
    BY <2>3, <2>4
<1>11. SortedBy(v, Smaller(v)) = [r \in N |-> v[p[r]]]
  <2>1. SortedBy(v, Smaller(v)) = [r \in N |-> v[CHOOSE i \in N : rank[i] = r]]
    BY <1>1 DEF SortedBy, B
  <2> HIDE DEF rank
  <2> QED
    BY <2>1
<1> HIDE DEF p
<1> QED
  BY <1>9, <1>10, <1>11 DEF Sorts

-----------------------------------------------------------------------------
(* The middle of what is sorted                                             *)

Below(v, x) == {j \in DOMAIN v : v[j] < x}

Above(v, x) == {j \in DOMAIN v : v[j] > x}

\* A bijection brings as many positions to a set as it takes there.
LEMMA ImageSize ==
  ASSUME NEW n \in Nat, NEW p \in Bijection(1..n, 1..n),
         NEW I, I \subseteq 1..n, NEW D, D \subseteq 1..n
  PROVE  /\ Cardinality(D) \in Nat /\ Cardinality(I) \in Nat
         /\ (\A j \in D : \E q \in I : p[q] = j) => Cardinality(D) <= Cardinality(I)
         /\ (\A q \in I : p[q] \in D) => Cardinality(I) <= Cardinality(D)
<1>1. IsFiniteSet(1..n)
  BY FS_Interval
<1>2. IsFiniteSet(D) /\ IsFiniteSet(I)
  BY <1>1, FS_Subset
<1>3. \A q, s \in 1..n : p[q] = p[s] => q = s
  BY DEF Bijection, Injection, IsInjective
<1>4. ASSUME \A j \in D : \E q \in I : p[q] = j
      PROVE  Cardinality(D) <= Cardinality(I)
  <2> DEFINE g == [j \in D |-> CHOOSE q \in I : p[q] = j]
  <2>1. g \in [D -> I] /\ \A j \in D : p[g[j]] = j
    BY <1>4
  <2> HIDE DEF g
  <2>2. g \in Injection(D, I)
    BY <2>1 DEF Injection, IsInjective
  <2> QED
    BY <1>2, <2>2, FS_Injection
<1>5. ASSUME \A q \in I : p[q] \in D
      PROVE  Cardinality(I) <= Cardinality(D)
  <2> DEFINE g == [q \in I |-> p[q]]
  <2>1. g \in [I -> D] /\ \A q \in I : g[q] = p[q]
    BY <1>5
  <2> HIDE DEF g
  <2>2. g \in Injection(I, D)
    BY <1>3, <2>1 DEF Injection, IsInjective
  <2> QED
    BY <1>2, <2>2, FS_Injection
<1> QED
  BY <1>2, <1>4, <1>5, FS_CardinalityType

\* The value that comes r-th has fewer than r values below it and no more above
\* it than come after; a greater one has r or more below it, a smaller one as
\* many or more above it as come from r on.
LEMMA RanksCount ==
  ASSUME NEW v \in Seq(Int), NEW p, Sorts(p, v), NEW r \in 1..Len(v)
  PROVE  /\ v[p[r]] \in Int
         /\ Cardinality(Below(v, v[p[r]])) <= r - 1
         /\ Cardinality(Above(v, v[p[r]])) <= Len(v) - r
         /\ \A y \in Int : v[p[r]] < y => Cardinality(Below(v, y)) >= r
         /\ \A y \in Int : y < v[p[r]] => Cardinality(Above(v, y)) >= Len(v) - r + 1
         /\ \A y \in Int : Cardinality(Below(v, y)) \in Nat /\ Cardinality(Above(v, y)) \in Nat
<1> DEFINE n == Len(v)
<1>1. /\ n \in Nat /\ DOMAIN v = 1..n /\ r \in Int /\ r >= 1 /\ r <= n
      /\ \A i \in 1..n : v[i] \in Int /\ i \in Int
  OBVIOUS
<1>2. /\ p \in Bijection(1..n, 1..n)
      /\ \A q \in 1..n : p[q] \in 1..n
      /\ \A j \in 1..n : \E q \in 1..n : p[q] = j
  BY DEF Sorts, Bijection, Injection, Surjection
<1>3. \A q, s \in 1..n : q <= s => v[p[q]] <= v[p[s]]
  BY DEF Sorts
<1>4. \A q \in 1..n : v[p[q]] \in Int
  BY <1>1, <1>2
<1>5. \A a, b \in Int : Cardinality(a..b) = IF a > b THEN 0 ELSE b - a + 1
  BY FS_Interval
<1>6. \A y : Below(v, y) \subseteq 1..n /\ Above(v, y) \subseteq 1..n
  BY <1>1 DEF Below, Above
<1>7. Cardinality(Below(v, v[p[r]])) <= r - 1
  <2>1. \A j \in Below(v, v[p[r]]) : \E q \in 1..(r - 1) : p[q] = j
    <3> SUFFICES ASSUME NEW j \in Below(v, v[p[r]])
                 PROVE  \E q \in 1..(r - 1) : p[q] = j
      OBVIOUS
    <3>1. j \in 1..n /\ v[j] < v[p[r]]
      BY <1>1 DEF Below
    <3>2. PICK q \in 1..n : p[q] = j
      BY <1>2, <3>1
    <3>3. ~(r <= q)
      BY <1>3, <1>4, <3>1, <3>2
    <3>4. q \in 1..(r - 1)
      BY <1>1, <3>3
    <3> QED
      BY <3>2, <3>4
  <2>2. 1..(r - 1) \subseteq 1..n
    BY <1>1
  <2>3. Cardinality(1..(r - 1)) = r - 1
    <3>1. r - 1 \in Int /\ 1 \in Int
      BY <1>1
    <3>2. Cardinality(1..(r - 1)) = IF 1 > r - 1 THEN 0 ELSE r - 1 - 1 + 1
      BY <1>5, <3>1
    <3> QED
      BY <1>1, <3>2
  <2>4. Cardinality(Below(v, v[p[r]])) <= Cardinality(1..(r - 1))
    BY <1>1, <1>2, <1>6, <2>1, <2>2, ImageSize
  <2> QED
    BY <2>3, <2>4
<1>8. Cardinality(Above(v, v[p[r]])) <= n - r
  <2>1. \A j \in Above(v, v[p[r]]) : \E q \in (r + 1)..n : p[q] = j
    <3> SUFFICES ASSUME NEW j \in Above(v, v[p[r]])
                 PROVE  \E q \in (r + 1)..n : p[q] = j
      OBVIOUS
    <3>1. j \in 1..n /\ v[j] > v[p[r]]
      BY <1>1 DEF Above
    <3>2. PICK q \in 1..n : p[q] = j
      BY <1>2, <3>1
    <3>3. ~(q <= r)
      BY <1>3, <1>4, <3>1, <3>2
    <3>4. q \in (r + 1)..n
      BY <1>1, <3>3
    <3> QED
      BY <3>2, <3>4
  <2>2. (r + 1)..n \subseteq 1..n
    BY <1>1
  <2>3. Cardinality((r + 1)..n) = n - r
    <3>1. r + 1 \in Int /\ n \in Int
      BY <1>1
    <3>2. Cardinality((r + 1)..n) = IF r + 1 > n THEN 0 ELSE n - (r + 1) + 1
      BY <1>5, <3>1
    <3> QED
      BY <1>1, <3>2
  <2>4. Cardinality(Above(v, v[p[r]])) <= Cardinality((r + 1)..n)
    BY <1>1, <1>2, <1>6, <2>1, <2>2, ImageSize
  <2> QED
    BY <2>3, <2>4
<1>9. ASSUME NEW y \in Int, v[p[r]] < y PROVE Cardinality(Below(v, y)) >= r
  <2>1. \A q \in 1..r : p[q] \in Below(v, y)
    <3> SUFFICES ASSUME NEW q \in 1..r PROVE p[q] \in Below(v, y)
      OBVIOUS
    <3>1. q \in 1..n /\ q <= r
      BY <1>1
    <3>2. v[p[q]] < y
      BY <1>3, <1>4, <1>9, <3>1
    <3> QED
      BY <1>1, <1>2, <3>1, <3>2 DEF Below
  <2>2. 1..r \subseteq 1..n /\ Cardinality(1..r) = r
    BY <1>1, <1>5
  <2>3. Cardinality(1..r) <= Cardinality(Below(v, y)) /\ Cardinality(Below(v, y)) \in Nat
    BY <1>1, <1>2, <1>6, <2>1, <2>2, ImageSize
  <2> QED
    BY <1>1, <2>2, <2>3
<1>10. ASSUME NEW y \in Int, y < v[p[r]] PROVE Cardinality(Above(v, y)) >= n - r + 1
  <2>1. \A q \in r..n : p[q] \in Above(v, y)
    <3> SUFFICES ASSUME NEW q \in r..n PROVE p[q] \in Above(v, y)
      OBVIOUS
    <3>1. q \in 1..n /\ r <= q
      BY <1>1
    <3>2. v[p[q]] > y
      BY <1>3, <1>4, <1>10, <3>1
    <3> QED
      BY <1>1, <1>2, <3>1, <3>2 DEF Above
  <2>2. r..n \subseteq 1..n /\ Cardinality(r..n) = n - r + 1
    BY <1>1, <1>5
  <2>3. Cardinality(r..n) <= Cardinality(Above(v, y)) /\ Cardinality(Above(v, y)) \in Nat
    BY <1>1, <1>2, <1>6, <2>1, <2>2, ImageSize
  <2> QED
    BY <1>1, <2>2, <2>3
<1>11. \A y \in Int : Cardinality(Below(v, y)) \in Nat /\ Cardinality(Above(v, y)) \in Nat
  BY <1>1, <1>2, <1>6, ImageSize
<1> QED
  BY <1>4, <1>7, <1>8, <1>9, <1>10, <1>11

\* What a filter makes of one more element.
LEMMA KeptAppend ==
  ASSUME NEW S, NEW s \in Seq(S), NEW x \in S, NEW P \in SUBSET (1..Len(s))
  PROVE  /\ Kept(Append(s, x), P) = Kept(s, P)
         /\ Kept(Append(s, x), P \cup {Len(s) + 1}) = Append(Kept(s, P), x)
<1> DEFINE n == Len(s)
           t == Append(s, x)
<1>1. n \in Nat /\ Len(t) = n + 1 /\ t[n + 1] = x /\ \A i \in 1..n : t[i] = s[i]
  BY AppendProperties
<1>2. \A u, Q : Len(u) \in Nat => \E f : Kept(u, Q) = f[Len(u)] /\ Filtering(f, u, Q, Len(u))
  <2> SUFFICES ASSUME NEW u, NEW Q, Len(u) \in Nat
               PROVE  \E f : Kept(u, Q) = f[Len(u)] /\ Filtering(f, u, Q, Len(u))
    OBVIOUS
  <2> DEFINE f == CHOOSE f : Filtering(f, u, Q, Len(u))
  <2>1. Filtering(f, u, Q, Len(u))
    BY FilterExists
  <2>2. Kept(u, Q) = f[Len(u)]
    BY DEF Kept, Filtering
  <2> QED
    BY <2>1, <2>2
<1>3. PICK f : Kept(s, P) = f[n] /\ Filtering(f, s, P, n)
  BY <1>1, <1>2
<1> HIDE DEF t
<1>4. ASSUME NEW Q, \A i \in 1..n : i \in Q <=> i \in P
      PROVE  Kept(t, Q) = IF n + 1 \in Q THEN Append(Kept(s, P), x) ELSE Kept(s, P)
  <2>1. PICK g : Kept(t, Q) = g[n + 1] /\ Filtering(g, t, Q, n + 1)
    BY <1>1, <1>2
  <2>2. \A i \in 0..n : f[i] = IF i = 0 THEN <<>>
                               ELSE IF i \in P THEN Append(f[i - 1], s[i]) ELSE f[i - 1]
    BY <1>3 DEF Filtering
  <2>3. \A i \in 0..(n + 1) : g[i] = IF i = 0 THEN <<>>
                                     ELSE IF i \in Q THEN Append(g[i - 1], t[i]) ELSE g[i - 1]
    BY <2>1 DEF Filtering
  <2> DEFINE Same == {m \in Nat : m <= n => f[m] = g[m]}
  <2>4. 0 \in Same
    BY <1>1, <2>2, <2>3
  <2>5. ASSUME NEW m \in Nat, m \in Same PROVE m + 1 \in Same
    <3> SUFFICES ASSUME m + 1 <= n PROVE f[m + 1] = g[m + 1]
      OBVIOUS
    <3>1. m + 1 \in 1..n /\ m + 1 \in 0..n /\ m + 1 \in 0..(n + 1) /\ m + 1 # 0 /\ (m + 1) - 1 = m
      BY <1>1
    <3>2. f[m] = g[m] /\ t[m + 1] = s[m + 1] /\ (m + 1 \in Q <=> m + 1 \in P)
      BY <1>1, <1>4, <2>5, <3>1
    <3>3. f[m + 1] = IF m + 1 \in P THEN Append(f[m], s[m + 1]) ELSE f[m]
      BY <2>2, <3>1
    <3>4. g[m + 1] = IF m + 1 \in Q THEN Append(g[m], t[m + 1]) ELSE g[m]
      BY <2>3, <3>1
    <3> QED
      BY <3>2, <3>3, <3>4
  <2> HIDE DEF Same
  <2>6. n \in Same
    BY <1>1, <2>4, <2>5, SetInduction
  <2>7. f[n] = g[n]
    BY <1>1, <2>6 DEF Same
  <2>8. n + 1 \in 0..(n + 1) /\ n + 1 # 0 /\ (n + 1) - 1 = n
    BY <1>1
  <2>9. g[n + 1] = IF n + 1 \in Q THEN Append(g[n], t[n + 1]) ELSE g[n]
    BY <2>3, <2>8
  <2> QED
    BY <1>1, <1>3, <2>1, <2>7, <2>9
<1>5. n + 1 \notin P /\ \A i \in 1..n : i # n + 1
  BY <1>1
<1>6. Kept(t, P) = Kept(s, P)
  BY <1>4, <1>5
<1>7. Kept(t, P \cup {n + 1}) = Append(Kept(s, P), x)
  BY <1>4, <1>5
<1> QED
  BY <1>6, <1>7 DEF t

-----------------------------------------------------------------------------
(* Folds and sums                                                           *)

\* An element of a set, always the same.
Pick(S) == CHOOSE x \in S : TRUE

\* g folds step over every subset of S, taking the elements as pick says.
Folding(g, S, X, base, pick, step) ==
  /\ g \in [SUBSET S -> X]
  /\ g[{}] = base
  /\ \A T \in SUBSET S : T # {} => g[T] = step[pick[T]][g[T \ {pick[T]}]]

\* There is such a g, whatever is folded.
LEMMA FoldExists ==
  ASSUME NEW S, IsFiniteSet(S), NEW X, NEW base \in X,
         NEW pick, \A T \in SUBSET S : T # {} => pick[T] \in T,
         NEW step \in [S -> [X -> X]]
  PROVE  \E g : Folding(g, S, X, base, pick, step)
<1> DEFINE Small(n) == {T \in SUBSET S : Cardinality(T) <= n}
           Done(g, n) == /\ g \in [Small(n) -> X]
                         /\ g[{}] = base
                         /\ \A T \in Small(n) :
                              T # {} => g[T] = step[pick[T]][g[T \ {pick[T]}]]
           Reached == {n \in Nat : \E g : Done(g, n)}
<1>1. \A T \in SUBSET S : /\ IsFiniteSet(T) /\ Cardinality(T) \in Nat
                          /\ Cardinality(T) <= Cardinality(S)
                          /\ T # {} <=> Cardinality(T) # 0
  BY FS_Subset, FS_CardinalityType, FS_EmptySet
<1>2. {} \in SUBSET S /\ Cardinality({}) = 0
  BY FS_EmptySet
<1>3. \A T \in SUBSET S : T # {} =>
        /\ T \ {pick[T]} \in SUBSET S
        /\ Cardinality(T \ {pick[T]}) = Cardinality(T) - 1
  BY <1>1, FS_RemoveElement
<1>4. 0 \in Reached
  <2> DEFINE g == [T \in Small(0) |-> base]
  <2>1. \A T \in Small(0) : T = {}
    BY <1>1
  <2>2. {} \in Small(0)
    BY <1>2
  <2>3. Done(g, 0)
    BY <2>1, <2>2
  <2> QED
    BY <2>3
<1>5. ASSUME NEW n \in Nat, n \in Reached PROVE n + 1 \in Reached
  <2>1. PICK f : Done(f, n)
    BY <1>5
  <2> DEFINE next(T) == step[pick[T]][f[T \ {pick[T]}]]
             g == [T \in Small(n + 1) |-> IF T \in Small(n) THEN f[T] ELSE next(T)]
  <2>2. \A T \in Small(n) : T \in Small(n + 1) /\ g[T] = f[T] /\ f[T] \in X
    BY <1>1, <2>1
  <2>3. {} \in Small(n)
    BY <1>2
  <2>4. \A T \in Small(n + 1) : T # {} =>
          pick[T] \in S /\ T \ {pick[T]} \in Small(n)
    BY <1>1, <1>3
  <2>5. \A T \in Small(n + 1) : T \notin Small(n) => g[T] = next(T) /\ T # {}
    BY <2>3
  <2>6. \A T \in Small(n + 1) : T # {} => g[T] = step[pick[T]][g[T \ {pick[T]}]]
    <3> SUFFICES ASSUME NEW T \in Small(n + 1), T # {}
                 PROVE  g[T] = step[pick[T]][g[T \ {pick[T]}]]
      OBVIOUS
    <3>1. g[T \ {pick[T]}] = f[T \ {pick[T]}]
      BY <2>2, <2>4
    <3>2. CASE T \in Small(n)
      <4>1. g[T] = f[T] /\ f[T] = next(T)
        BY <2>1, <2>2, <3>2
      <4> QED
        BY <3>1, <4>1
    <3>3. CASE T \notin Small(n)
      <4>1. g[T] = next(T)
        BY <2>5, <3>3
      <4> QED
        BY <3>1, <4>1
    <3> QED
      BY <3>2, <3>3
  <2>7. g \in [Small(n + 1) -> X]
    <3>1. \A T \in Small(n + 1) : T # {} => next(T) \in X
      <4> SUFFICES ASSUME NEW T \in Small(n + 1), T # {} PROVE next(T) \in X
        OBVIOUS
      <4>1. pick[T] \in S /\ f[T \ {pick[T]}] \in X
        BY <2>2, <2>4
      <4>2. step[pick[T]] \in [X -> X]
        BY <4>1
      <4> QED
        BY <4>1, <4>2
    <3>2. \A T \in Small(n + 1) : (IF T \in Small(n) THEN f[T] ELSE next(T)) \in X
      BY <2>2, <2>5, <3>1
    <3> HIDE DEF next, Small
    <3> QED
      BY <3>2
  <2>8. g[{}] = base
    BY <2>1, <2>2, <2>3
  <2> HIDE DEF g, next, Small
  <2>9. Done(g, n + 1)
    BY <2>6, <2>7, <2>8
  <2>10. n + 1 \in Nat
    OBVIOUS
  <2> HIDE DEF Done
  <2> QED
    BY <2>9, <2>10
<1>6. Cardinality(S) \in Reached
  <2>1. Cardinality(S) \in Nat
    BY FS_CardinalityType
  <2> HIDE DEF Reached
  <2> QED
    BY <1>4, <1>5, <2>1, SetInduction
<1>7. Small(Cardinality(S)) = SUBSET S
  BY <1>1
<1>8. PICK g : Done(g, Cardinality(S))
  BY <1>6
<1>9. Folding(g, S, X, base, pick, step)
  BY <1>7, <1>8 DEF Folding
<1> QED
  BY <1>9

\* h has the sum of f over every set of positions.
Summing(h, f) ==
  /\ h \in [SUBSET DOMAIN f -> Nat]
  /\ h[{}] = 0
  /\ \A T \in SUBSET DOMAIN f : T # {} => h[T] = f[Pick(T)] + h[T \ {Pick(T)}]

\* The sum of numbers is what such an h says.
LEMMA SumExists ==
  ASSUME NEW D, IsFiniteSet(D), NEW f \in [D -> Nat]
  PROVE  \E h : Summing(h, f) /\ SumFunction(f) = h[D]
<1> DEFINE pick == [T \in SUBSET D |-> Pick(T)]
           step == [x \in D |-> [y \in Nat |-> f[x] + y]]
           Iterates(h) == h = [T \in SUBSET D |-> IF T = {} THEN 0
                                                  ELSE f[Pick(T)] + h[T \ {Pick(T)}]]
<1>1. \A T \in SUBSET D : T # {} => Pick(T) \in T /\ Pick(T) \in D /\ T \ {Pick(T)} \in SUBSET D
  BY DEF Pick
<1>2. \A T \in SUBSET D : T # {} => pick[T] \in T
  BY <1>1
<1>3. step \in [D -> [Nat -> Nat]]
  OBVIOUS
<1>4. PICK g : Folding(g, D, Nat, 0, pick, step)
  <2> HIDE DEF pick, step
  <2> QED
    BY <1>2, <1>3, FoldExists
<1>5. \A T \in SUBSET D : g[T] = IF T = {} THEN 0 ELSE f[Pick(T)] + g[T \ {Pick(T)}]
  <2> SUFFICES ASSUME NEW T \in SUBSET D, T # {}
               PROVE  g[T] = f[Pick(T)] + g[T \ {Pick(T)}]
    BY <1>4 DEF Folding
  <2>1. g[T] = step[Pick(T)][g[T \ {Pick(T)}]] /\ g[T \ {Pick(T)}] \in Nat
    BY <1>1, <1>4 DEF Folding
  <2> QED
    BY <1>1, <2>1
<1>6. Iterates(g)
  <2>1. g = [T \in SUBSET D |-> g[T]]
    BY <1>4 DEF Folding
  <2> QED
    BY <1>5, <2>1
<1> DEFINE h == CHOOSE h : Iterates(h)
<1>7. Iterates(h)
  BY <1>6
<1>8. SumFunction(f) = h[D]
  <2>1. DOMAIN f = D
    OBVIOUS
  <2> QED
    BY <2>1 DEF SumFunction, SumFunctionOnSet, FoldFunctionOnSet, MapThenFoldSet, Pick
<1> HIDE DEF h
<1>9. /\ h[{}] = 0
      /\ \A T \in SUBSET D : T # {} => h[T] = f[Pick(T)] + h[T \ {Pick(T)}]
  BY <1>7
<1>10. \A T \in SUBSET D : h[T] \in Nat
  <2> DEFINE Reached == {n \in Nat : \A T \in SUBSET D : Cardinality(T) = n => h[T] \in Nat}
  <2>1. \A T \in SUBSET D : IsFiniteSet(T) /\ Cardinality(T) \in Nat /\ (Cardinality(T) = 0 <=> T = {})
    BY FS_Subset, FS_CardinalityType, FS_EmptySet
  <2>2. 0 \in Reached
    BY <1>9, <2>1
  <2>3. ASSUME NEW n \in Nat, n \in Reached PROVE n + 1 \in Reached
    <3> SUFFICES ASSUME NEW T \in SUBSET D, Cardinality(T) = n + 1 PROVE h[T] \in Nat
      OBVIOUS
    <3>1. T # {}
      BY <2>1
    <3>2. Cardinality(T \ {Pick(T)}) = n
      <4>1. Cardinality(T \ {Pick(T)}) = Cardinality(T) - 1
        BY <1>1, <2>1, <3>1, FS_RemoveElement
      <4> QED
        BY <4>1
    <3>3. h[T \ {Pick(T)}] \in Nat /\ f[Pick(T)] \in Nat
      BY <1>1, <2>3, <3>1, <3>2
    <3>4. h[T] = f[Pick(T)] + h[T \ {Pick(T)}]
      BY <1>9, <3>1
    <3> QED
      BY <3>3, <3>4
  <2> HIDE DEF Reached
  <2>4. Nat \subseteq Reached
    BY <2>2, <2>3, SetInduction
  <2> USE DEF Reached
  <2> QED
    BY <2>1, <2>4
<1>11. Summing(h, f)
  <2>1. h = [T \in SUBSET D |-> h[T]]
    BY <1>7
  <2>2. DOMAIN f = D
    OBVIOUS
  <2> QED
    BY <1>9, <1>10, <2>1, <2>2 DEF Summing
<1> QED
  BY <1>8, <1>11

\* A sum is told by what it is of nothing and how it grows.
LEMMA SumIs ==
  ASSUME NEW D, IsFiniteSet(D), NEW f \in [D -> Nat], NEW w, w[{}] = 0,
         \A T \in SUBSET D : T # {} => w[T] = f[Pick(T)] + w[T \ {Pick(T)}]
  PROVE  SumFunction(f) \in Nat /\ SumFunction(f) = w[D]
<1>1. PICK h : Summing(h, f) /\ SumFunction(f) = h[D]
  BY SumExists
<1>2. \A T \in SUBSET D : T # {} => Pick(T) \in T /\ T \ {Pick(T)} \in SUBSET D
  BY DEF Pick
<1>3. DOMAIN f = D
  OBVIOUS
<1> DEFINE Reached == {n \in Nat : \A T \in SUBSET D : Cardinality(T) = n => h[T] = w[T]}
<1>4. \A T \in SUBSET D : IsFiniteSet(T) /\ Cardinality(T) \in Nat /\ (Cardinality(T) = 0 <=> T = {})
  BY FS_Subset, FS_CardinalityType, FS_EmptySet
<1>5. 0 \in Reached
  BY <1>1, <1>4 DEF Summing
<1>6. ASSUME NEW n \in Nat, n \in Reached PROVE n + 1 \in Reached
  <2> SUFFICES ASSUME NEW T \in SUBSET D, Cardinality(T) = n + 1 PROVE h[T] = w[T]
    OBVIOUS
  <2>1. T # {}
    BY <1>4
  <2>2. Cardinality(T \ {Pick(T)}) = n
    BY <1>2, <1>4, <2>1, FS_RemoveElement
  <2>3. h[T \ {Pick(T)}] = w[T \ {Pick(T)}]
    BY <1>2, <1>6, <2>1, <2>2
  <2> QED
    BY <1>1, <1>3, <2>1, <2>3 DEF Summing
<1> HIDE DEF Reached
<1>7. Nat \subseteq Reached
  BY <1>5, <1>6, SetInduction
<1> USE DEF Reached
<1>8. h[D] = w[D]
  BY <1>4, <1>7
<1>9. h[D] \in Nat
  BY <1>1, <1>3 DEF Summing
<1> QED
  BY <1>1, <1>8, <1>9

\* Sums add up.
LEMMA SumAdds ==
  ASSUME NEW D, IsFiniteSet(D), NEW f \in [D -> Nat], NEW g \in [D -> Nat]
  PROVE  SumFunction([x \in D |-> f[x] + g[x]]) = SumFunction(f) + SumFunction(g)
<1> DEFINE k == [x \in D |-> f[x] + g[x]]
<1>1. PICK hf : Summing(hf, f) /\ SumFunction(f) = hf[D]
  BY SumExists
<1>2. PICK hg : Summing(hg, g) /\ SumFunction(g) = hg[D]
  BY SumExists
<1> DEFINE w == [T \in SUBSET D |-> hf[T] + hg[T]]
<1>3. w[{}] = 0
  BY <1>1, <1>2 DEF Summing
<1>4. \A T \in SUBSET D : T # {} => w[T] = k[Pick(T)] + w[T \ {Pick(T)}]
  <2> SUFFICES ASSUME NEW T \in SUBSET D, T # {}
               PROVE  w[T] = k[Pick(T)] + w[T \ {Pick(T)}]
    OBVIOUS
  <2>1. Pick(T) \in D /\ T \ {Pick(T)} \in SUBSET D
    BY DEF Pick
  <2>2. /\ hf[T] = f[Pick(T)] + hf[T \ {Pick(T)}] /\ hf[T \ {Pick(T)}] \in Nat
        /\ hg[T] = g[Pick(T)] + hg[T \ {Pick(T)}] /\ hg[T \ {Pick(T)}] \in Nat
    BY <1>1, <1>2, <2>1 DEF Summing
  <2>3. f[Pick(T)] \in Nat /\ g[Pick(T)] \in Nat
    BY <2>1
  <2>4. w[T] = hf[T] + hg[T] /\ w[T \ {Pick(T)}] = hf[T \ {Pick(T)}] + hg[T \ {Pick(T)}]
    BY <2>1
  <2>5. k[Pick(T)] = f[Pick(T)] + g[Pick(T)]
    BY <2>1
  <2> HIDE DEF w, k
  <2> QED
    BY <2>2, <2>3, <2>4, <2>5
<1>5. k \in [D -> Nat]
  OBVIOUS
<1>6. w[D] = hf[D] + hg[D]
  OBVIOUS
<1> HIDE DEF w, k
<1>7. SumFunction(k) = w[D]
  BY <1>3, <1>4, <1>5, SumIs
<1> QED
  BY <1>1, <1>2, <1>6, <1>7 DEF k

\* What is counted apart adds up to what is counted together.
LEMMA CountsAddUp ==
  ASSUME NEW D, IsFiniteSet(D), NEW I, IsFiniteSet(I), NEW at
  PROVE  /\ [x \in D |-> Cardinality({i \in I : at[i] \in {x}})] \in [D -> Nat]
         /\ SumFunction([x \in D |-> Cardinality({i \in I : at[i] \in {x}})])
              = Cardinality({i \in I : at[i] \in D})
<1> DEFINE of(T) == {i \in I : at[i] \in T}
           f == [x \in D |-> Cardinality(of({x}))]
           w == [T \in SUBSET D |-> Cardinality(of(T))]
<1>1. \A T : IsFiniteSet(of(T)) /\ Cardinality(of(T)) \in Nat
  BY FS_Subset, FS_CardinalityType
<1>2. w[{}] = 0
  <2>1. of({}) = {}
    OBVIOUS
  <2>2. w[{}] = Cardinality(of({}))
    OBVIOUS
  <2> QED
    BY <2>1, <2>2, FS_EmptySet
<1>3. \A T \in SUBSET D : T # {} => w[T] = f[Pick(T)] + w[T \ {Pick(T)}]
  <2> SUFFICES ASSUME NEW T \in SUBSET D, T # {}
               PROVE  w[T] = f[Pick(T)] + w[T \ {Pick(T)}]
    OBVIOUS
  <2>1. Pick(T) \in T /\ Pick(T) \in D /\ T \ {Pick(T)} \in SUBSET D
    BY DEF Pick
  <2>2. of(T) = of({Pick(T)}) \cup of(T \ {Pick(T)}) /\ of({Pick(T)}) \cap of(T \ {Pick(T)}) = {}
    BY <2>1
  <2>3. Cardinality(of({Pick(T)}) \cap of(T \ {Pick(T)})) = 0
    BY <2>2, FS_EmptySet
  <2> HIDE DEF of
  <2>4. Cardinality(of(T)) = Cardinality(of({Pick(T)})) + Cardinality(of(T \ {Pick(T)}))
    <3> DEFINE A == of({Pick(T)})
               B == of(T \ {Pick(T)})
    <3>1. IsFiniteSet(A) /\ IsFiniteSet(B) /\ Cardinality(A) \in Nat /\ Cardinality(B) \in Nat
      BY <1>1
    <3>2. of(T) = A \cup B /\ Cardinality(A \cap B) = 0
      BY <2>2, <2>3
    <3> HIDE DEF A, B
    <3>3. Cardinality(A \cup B) = Cardinality(A) + Cardinality(B) - Cardinality(A \cap B)
      BY <3>1, FS_Union
    <3>4. Cardinality(of(T)) = Cardinality(A) + Cardinality(B)
      BY <3>1, <3>2, <3>3
    <3> QED
      BY <3>4 DEF A, B
  <2> QED
    BY <2>1, <2>4
<1>4. f \in [D -> Nat]
  <2> HIDE DEF of
  <2> QED
    BY <1>1
<1>5. w[D] = Cardinality(of(D))
  OBVIOUS
<1>6. SumFunction(f) = w[D]
  <2> HIDE DEF w, f
  <2> QED
    BY <1>2, <1>3, <1>4, SumIs
<1> QED
  BY <1>4, <1>5, <1>6

\* An array of numbers has a sum.
LEMMA SumOfArray ==
  ASSUME NEW v \in Seq(Nat)
  PROVE  SumFunction(v) \in Nat
<1>1. DOMAIN v = 1..Len(v) /\ Len(v) \in Nat
  OBVIOUS
<1>2. IsFiniteSet(1..Len(v))
  BY <1>1, FS_Interval
<1>3. v \in [1..Len(v) -> Nat]
  OBVIOUS
<1>4. \E h : Summing(h, v) /\ SumFunction(v) = h[1..Len(v)]
  BY <1>2, <1>3, SumExists
<1> QED
  BY <1>1, <1>4 DEF Summing

=============================================================================
