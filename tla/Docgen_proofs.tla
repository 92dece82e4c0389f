----------------------------- MODULE Docgen_proofs -----------------------------
(***************************************************************************)
(* Proofs about Docgen and Pages, for any number of workers, any site and  *)
(* any classification table.                                               *)
(***************************************************************************)
EXTENDS Docgen, FoldTheorems

(***************************************************************************)
(* Places in order.                                                        *)
(***************************************************************************)

(* A place after all others is the last of them.                             *)
LEMMA NthOfMore ==
  ASSUME NEW n \in Nat, NEW S \in SUBSET (1..n)
  PROVE  /\ Cardinality(S) \in Nat
         /\ Cardinality(S \cup {n + 1}) = Cardinality(S) + 1
         /\ \A k \in 1..Cardinality(S) : Nth(S \cup {n + 1}, k) = Nth(S, k)
         /\ Nth(S \cup {n + 1}, Cardinality(S) + 1) = n + 1
<1> DEFINE c == Cardinality(S)
           T == S \cup {n + 1}
           Below(U, i) == {j \in U : j < i}
           First(U, k) == {i \in U : Cardinality(Below(U, i)) < k}
<1>1. IsFiniteSet(S) /\ c \in Nat
  <2>1. IsFiniteSet(1..n)
    BY FS_Interval
  <2> QED
    BY <2>1, FS_Subset, FS_CardinalityType
<1>2. n + 1 \notin S /\ \A i \in S : i \in Nat /\ i < n + 1
  OBVIOUS
<1>3. Cardinality(T) = c + 1
  BY <1>1, <1>2, FS_AddElement
<1>4. /\ \A i \in S : Below(T, i) = Below(S, i)
      /\ Below(T, n + 1) = S
  <2>1. ASSUME NEW i \in S PROVE Below(T, i) = Below(S, i)
    <3>1. ~(n + 1 < i)
      BY <1>2
    <3> QED
      BY <3>1
  <2>2. ~(n + 1 < n + 1)
    OBVIOUS
  <2>3. Below(T, n + 1) = S
    BY <1>2, <2>2
  <2> QED
    BY <2>1, <2>3
<1>5. \A i \in S : Cardinality(Below(S, i)) \in Nat /\ Cardinality(Below(S, i)) <= c
  <2> SUFFICES ASSUME NEW i \in S
               PROVE  Cardinality(Below(S, i)) \in Nat /\ Cardinality(Below(S, i)) <= c
    OBVIOUS
  <2>1. Below(S, i) \subseteq S
    OBVIOUS
  <2> HIDE DEF Below
  <2> QED
    BY <1>1, <2>1, FS_Subset, FS_CardinalityType
<1> HIDE DEF c, Below
<1>6. ASSUME NEW k \in 1..c PROVE First(T, k) = First(S, k)
  <2>1. Cardinality(Below(T, n + 1)) = c
    BY <1>4 DEF c
  <2>2. ~(c < k)
    BY <1>1, <1>6
  <2>3. n + 1 \notin First(T, k)
    BY <2>1, <2>2
  <2>4. \A i \in S : i \in First(T, k) <=> i \in First(S, k)
    BY <1>4
  <2>5. First(T, k) \subseteq S \cup {n + 1} /\ First(S, k) \subseteq S
    OBVIOUS
  <2> HIDE DEF First
  <2> QED
    BY <2>3, <2>4, <2>5
<1>7. Max(First(T, c + 1)) = n + 1
  <2>1. n + 1 \in First(T, c + 1)
    <3>1. Cardinality(Below(T, n + 1)) = c
      BY <1>4 DEF c
    <3> QED
      BY <1>1, <3>1
  <2>2. First(T, c + 1) \subseteq Int /\ \A x \in First(T, c + 1) : x <= n + 1
    <3>1. \A x \in T : x \in Int /\ x <= n + 1
      BY <1>2
    <3>2. First(T, c + 1) \subseteq T
      OBVIOUS
    <3> HIDE DEF First, T
    <3> QED
      BY <3>1, <3>2
  <2> HIDE DEF First
  <2> QED
    BY <2>1, <2>2, MaxIs
<1> HIDE DEF First, T
<1>8. \A U, k : Nth(U, k) = Max(First(U, k))
  BY DEF Nth, First, Below
<1>9. \A k \in 1..c : Nth(T, k) = Nth(S, k)
  BY <1>6, <1>8
<1>10. Nth(T, c + 1) = n + 1
  BY <1>7, <1>8
<1> QED
  BY <1>1, <1>3, <1>9, <1>10 DEF c, T

(* The k-th of some places, for k up to their number, is each of them once.  *)
Enumerated(S) ==
  /\ Cardinality(S) \in Nat
  /\ \A k \in 1..Cardinality(S) : Nth(S, k) \in S
  /\ \A i \in S : \E k \in 1..Cardinality(S) : Nth(S, k) = i
  /\ \A j, k \in 1..Cardinality(S) : j < k => Nth(S, j) < Nth(S, k)

LEMMA NthEnumerates ==
  ASSUME NEW N \in Nat, NEW S \in SUBSET (1..N)
  PROVE  Enumerated(S)
<1> DEFINE Upto(n) == {i \in S : i <= n}
           I == {n \in 0..N : Enumerated(Upto(n))}
<1>0. \A i \in S : i \in Nat /\ 1 <= i /\ i <= N
  OBVIOUS
<1>1. 0 \in I
  <2>1. 0 \in 0..N /\ Upto(0) = {}
    <3>1. \A i \in S : ~(i <= 0)
      BY <1>0
    <3>2. Upto(0) = {}
      BY <3>1, Zenon
    <3>3. 0 \in 0..N
      OBVIOUS
    <3> HIDE DEF Upto
    <3> QED
      BY <3>2, <3>3
  <2>2. Cardinality({}) = 0
    BY FS_EmptySet
  <2>3. Enumerated({})
    BY <2>2 DEF Enumerated
  <2> HIDE DEF Upto
  <2> QED
    BY <2>1, <2>3
<1>2. ASSUME NEW n \in 1..N, n - 1 \in I PROVE n \in I
  <2> DEFINE m == n - 1
             U == Upto(m)
             c == Cardinality(U)
  <2>1. m \in Nat /\ m + 1 = n /\ U \in SUBSET (1..m) /\ n \in 0..N
    <3>1. m \in Nat /\ m + 1 = n /\ n \in 0..N
      OBVIOUS
    <3>2. \A i \in S : i <= m => i \in 1..m
      BY <1>0, <3>1
    <3> QED
      BY <3>1, <3>2
  <2>9. \A i \in S : i <= n <=> i <= m \/ i = n
    BY <1>0, <2>1
  <2>2. Enumerated(U)
    BY <1>2
  <2>3. CASE n \in S
    <3>1. Upto(n) = U \cup {m + 1}
      <4>1. \A i : i \in Upto(n) <=> i \in U \/ i = n
        BY <2>3, <2>9
      <4> HIDE DEF m, U
      <4> QED
        BY <2>1, <4>1
    <3> HIDE DEF m, U
    <3>2. /\ c \in Nat /\ Cardinality(U \cup {m + 1}) = c + 1
          /\ \A k \in 1..c : Nth(U \cup {m + 1}, k) = Nth(U, k)
          /\ Nth(U \cup {m + 1}, c + 1) = m + 1
      BY <2>1, NthOfMore
    <3>3. /\ \A k \in 1..c : Nth(U, k) \in U
          /\ \A i \in U : \E k \in 1..c : Nth(U, k) = i
          /\ \A j, k \in 1..c : j < k => Nth(U, j) < Nth(U, k)
      BY <2>2 DEF Enumerated
    <3> DEFINE T == U \cup {m + 1}
    <3> HIDE DEF c, T
    <3>4. \A k \in 1..(c + 1) : k \in 1..c \/ k = c + 1
      BY <3>2 DEF T
    <3>5. \A k \in 1..(c + 1) : Nth(T, k) \in T
      BY <3>2, <3>3, <3>4 DEF T
    <3>6. \A i \in T : \E k \in 1..(c + 1) : Nth(T, k) = i
      <4>1. ASSUME NEW i \in U PROVE \E k \in 1..(c + 1) : Nth(T, k) = i
        <5>1. PICK k \in 1..c : Nth(U, k) = i
          BY <3>3
        <5>2. k \in 1..(c + 1) /\ Nth(T, k) = i
          BY <3>2, <5>1 DEF T
        <5> QED
          BY <5>2
      <4>2. c + 1 \in 1..(c + 1) /\ Nth(T, c + 1) = m + 1
        BY <3>2 DEF T
      <4> QED
        BY <4>1, <4>2 DEF T
    <3>7. \A j, k \in 1..(c + 1) : j < k => Nth(T, j) < Nth(T, k)
      <4> SUFFICES ASSUME NEW j \in 1..(c + 1), NEW k \in 1..(c + 1), j < k
                   PROVE  Nth(T, j) < Nth(T, k)
        OBVIOUS
      <4>1. j \in 1..c /\ Nth(T, j) = Nth(U, j)
        BY <3>2 DEF T
      <4>2. CASE k \in 1..c
        BY <3>2, <3>3, <4>1, <4>2 DEF T
      <4>3. CASE k = c + 1
        <5>1. Nth(T, k) = m + 1 /\ Nth(U, j) \in 1..m
          BY <2>1, <3>2, <3>3, <4>1, <4>3 DEF T
        <5> QED
          BY <2>1, <4>1, <5>1
      <4> QED
        BY <3>4, <4>2, <4>3
    <3>8. Cardinality(T) = c + 1 /\ c + 1 \in Nat
      BY <3>2 DEF T
    <3>9. Enumerated(T)
      BY <3>5, <3>6, <3>7, <3>8 DEF Enumerated
    <3> QED
      BY <2>1, <3>1, <3>9 DEF T
  <2>4. CASE n \notin S
    <3>1. Upto(n) = U
      BY <2>4, <2>9
    <3> QED
      BY <2>1, <2>2, <3>1
  <2> QED
    BY <2>3, <2>4
<1> HIDE DEF I
<1>3. N \in I
  <2>1. \A n \in 0..N : n \in I
    BY <1>1, <1>2, LoopInduction
  <2> QED
    BY <2>1
<1>4. Upto(N) = S
  BY <1>0
<1> HIDE DEF Upto
<1> QED
  BY <1>3, <1>4 DEF I

(* What is said of places in order, one by one.                              *)
ListOf(S, said) == [k \in 1..Cardinality(S) |-> said[Nth(S, k)]]

LEMMA ListOfMore ==
  ASSUME NEW n \in Nat, NEW S \in SUBSET (1..n), NEW said
  PROVE  ListOf(S \cup {n + 1}, said) = Append(ListOf(S, said), said[n + 1])
<1> DEFINE c == Cardinality(S)
           E == {said[Nth(S, k)] : k \in 1..c} \cup {said[n + 1]}
           old == ListOf(S, said)
           T == S \cup {n + 1}
<1>1. /\ c \in Nat /\ Cardinality(T) = c + 1
      /\ \A k \in 1..c : Nth(T, k) = Nth(S, k)
      /\ Nth(T, c + 1) = n + 1
  BY NthOfMore
<1> HIDE DEF T
<1>2. old \in [1..c -> E] /\ said[n + 1] \in E
  BY DEF ListOf
<1>3. ListOf(T, said) = [k \in 1..(c + 1) |-> said[Nth(T, k)]]
  BY <1>1 DEF ListOf
<1>4. \A k \in 1..c : old[k] = said[Nth(T, k)]
  BY <1>1 DEF ListOf
<1> HIDE DEF c, E, old
<1>5. old \in Seq(E) /\ Len(old) = c
  BY <1>1, <1>2
<1>6. Append(old, said[n + 1]) = [k \in 1..(c + 1) |-> IF k = c + 1 THEN said[n + 1] ELSE old[k]]
  BY <1>1, <1>2, <1>5
<1>7. \A k \in 1..(c + 1) : k # c + 1 => k \in 1..c
  BY <1>1
<1> QED
  BY <1>1, <1>3, <1>4, <1>6, <1>7 DEF old, T

LEMMA ListOfNone == ASSUME NEW said PROVE ListOf({}, said) = << >>
<1>1. Cardinality({}) = 0 /\ 1..0 = {}
  BY FS_EmptySet
<1> QED
  BY <1>1 DEF ListOf

(***************************************************************************)
(* The index.                                                              *)
(***************************************************************************)

(* What is fetched of a page is a page.                                      *)
LEMMA FetchedIsPage ==
  ASSUME NEW page, IsPage(page)
  PROVE  Fetched(page) \in Seq(Range(page))
<1> DEFINE n == Min({Len(page), MaxPage})
<1>1. Len(page) \in Nat /\ MaxPage \in Nat /\ page \in Seq(Range(page))
  BY DocgenAssumption DEF IsPage
<1>2. n \in {Len(page), MaxPage} /\ n <= Len(page)
  <2>1. \E x \in {Len(page), MaxPage} : \A y \in {Len(page), MaxPage} : x <= y
    BY <1>1
  <2>2. n \in {Len(page), MaxPage} /\ \A y \in {Len(page), MaxPage} : n <= y
    BY <2>1 DEF Min
  <2> QED
    BY <2>2
<1> HIDE DEF n
<1>3. SubSeq(page, 1, n) \in Seq(Range(page))
  BY <1>1, <1>2
<1> QED
  BY <1>3 DEF Fetched, n

LEMMA RangeInSet ==
  ASSUME NEW S, NEW s \in Seq(S)
  PROVE  Range(s) \subseteq S
BY DEF Range

LEMMA AppendTyped ==
  ASSUME NEW S, NEW s \in Seq(S), NEW x \in S
  PROVE  Append(s, x) \in Seq(S)
OBVIOUS

(* What parseIndex appends.                                                  *)
IndexRecords(page) ==
  [name : {page[i].text : i \in DOMAIN page}, slug : Slugs(page),
   category : {""} \union {page[i].text : i \in DOMAIN page}]

IndexStates(page) ==
  [category : {""} \union {page[i].text : i \in DOMAIN page}, entries : Seq(IndexRecords(page))]

LEMMA IndexWalkTyped ==
  ASSUME NEW page, NEW i \in DOMAIN page, NEW at \in IndexStates(page)
  PROVE  IndexWalk(at, page[i]) \in IndexStates(page)
<1> DEFINE n == page[i]
           C == {""} \union {page[j].text : j \in DOMAIN page}
           e == [name |-> n.text, slug |-> n.slug, category |-> at.category]
<1>1. n.text \in C /\ at.category \in C /\ at.entries \in Seq(IndexRecords(page))
  BY DEF IndexStates
<1>2. n.tag = "a" /\ n.slug # "" => e \in IndexRecords(page)
  <2>1. n \in Range(page)
    BY DEF Range
  <2> QED
    BY <1>1, <2>1 DEF IndexRecords, Slugs
<1> HIDE DEF n, e
<1>3. [at EXCEPT !.category = n.text] \in IndexStates(page)
  BY <1>1 DEF IndexStates
<1>4. n.tag = "a" /\ n.slug # "" => [at EXCEPT !.entries = Append(@, e)] \in IndexStates(page)
  <2> SUFFICES ASSUME n.tag = "a" /\ n.slug # ""
               PROVE  [at EXCEPT !.entries = Append(@, e)] \in IndexStates(page)
    OBVIOUS
  <2>1. Append(at.entries, e) \in Seq(IndexRecords(page))
    BY <1>1, <1>2, AppendTyped
  <2> QED
    BY <2>1 DEF IndexStates
<1> QED
  BY <1>3, <1>4 DEF IndexWalk, n, e

(* parseIndex goes through the elements one by one.                          *)
LEMMA ParseIndexWalks ==
  ASSUME NEW E, NEW page \in Seq(E)
  PROVE  \E F : /\ F[0] = [category |-> "", entries |-> << >>]
                /\ \A n \in 1..Len(page) : F[n] = IndexWalk(F[n - 1], page[n])
                /\ ParseIndex(page) = F[Len(page)].entries
<1> DEFINE N == Len(page)
           base == [category |-> "", entries |-> << >>]
           A == IndexStates(page)
           step == [x \in (1..N) \X A |-> IndexWalk(x[2], page[x[1]])]
           Rhs(g) == [s \in SUBSET DOMAIN page |->
                        IF s = {} THEN base ELSE IndexWalk(g[s \ {Max(s)}], page[Max(s)])]
           G == CHOOSE g : g = Rhs(g)
<1>1. N \in Nat /\ DOMAIN page = 1..N
  OBVIOUS
<1>2. base \in A
  BY DEF IndexStates
<1>3. ASSUME NEW i \in 1..N, NEW at \in A PROVE IndexWalk(at, page[i]) \in A
  BY <1>1, IndexWalkTyped
<1>4. PICK g \in [SUBSET (1..N) -> A] : IsFold(g, N, base, step)
  <2>1. N \in Nat
    BY <1>1
  <2>2. step \in [(1..N) \X A -> A]
    BY <1>3
  <2> HIDE DEF step, A, base, N
  <2> QED
    BY <1>2, <2>1, <2>2, FoldExists
<1>5. g = Rhs(g)
  <2>1. ASSUME NEW s \in SUBSET (1..N), s # {}
        PROVE  step[<<Max(s), g[s \ {Max(s)}]>>] = IndexWalk(g[s \ {Max(s)}], page[Max(s)])
    <3>0. N \in Nat /\ s \subseteq 0..N
      BY <1>1, <2>1
    <3>1. Max(s) \in 1..N
      BY <2>1, <3>0, MaxOfPlaces
    <3>2. g[s \ {Max(s)}] \in A
      BY <2>1
    <3> HIDE DEF A
    <3> QED
      BY <3>1, <3>2
  <2>2. \A s \in SUBSET (1..N) :
          g[s] = IF s = {} THEN base ELSE IndexWalk(g[s \ {Max(s)}], page[Max(s)])
    <3> HIDE DEF A, base, step, N
    <3> QED
      BY <1>4, <2>1 DEF IsFold
  <2> HIDE DEF A, base, step, N
  <2> QED
    BY <1>1, <2>2
<1>6. G = Rhs(G)
  <2> HIDE DEF Rhs
  <2> QED
    BY <1>5
<1>7. ParseIndex(page) = G[DOMAIN page].entries
  BY DEF ParseIndex, FoldLeft, MapThenFoldSet
<1> HIDE DEF G, A, base, N
<1>8. /\ G[{}] = base
      /\ \A s \in SUBSET (1..N) : s # {} => G[s] = IndexWalk(G[s \ {Max(s)}], page[Max(s)])
  <2>1. G = [s \in SUBSET (1..N) |->
               IF s = {} THEN base ELSE IndexWalk(G[s \ {Max(s)}], page[Max(s)])]
    BY <1>1, <1>6
  <2> QED
    BY <2>1
<1> DEFINE F == [n \in 0..N |-> G[1..n]]
<1>9. F[0] = base
  BY <1>1, <1>8, LastOfPrefix
<1>10. ASSUME NEW n \in 1..N PROVE F[n] = IndexWalk(F[n - 1], page[n])
  <2>1. n \in Nat /\ n > 0 /\ 1..n \in SUBSET (1..N) /\ n - 1 \in 0..N /\ n \in 0..N
    BY <1>1
  <2>2. G[1..n] = IndexWalk(G[1..(n - 1)], page[n])
    BY <1>8, <2>1, LastOfPrefix
  <2> QED
    BY <2>1, <2>2
<1>11. ParseIndex(page) = F[N].entries
  BY <1>1, <1>7
<1> QED
  BY <1>9, <1>10, <1>11 DEF N, base

LEMMA IndexTyped ==
  ASSUME NEW E, NEW page \in Seq(E)
  PROVE  ParseIndex(page) \in Seq(IndexRecords(page))
<1> DEFINE N == Len(page)
           A == IndexStates(page)
<1>1. PICK F : /\ F[0] = [category |-> "", entries |-> << >>]
               /\ \A n \in 1..N : F[n] = IndexWalk(F[n - 1], page[n])
               /\ ParseIndex(page) = F[N].entries
  BY ParseIndexWalks
<1>2. N \in Nat /\ DOMAIN page = 1..N
  OBVIOUS
<1> HIDE DEF N
<1> DEFINE S == {n \in 0..N : F[n] \in A}
<1>0. 0 \in S
  <2>1. [category |-> "", entries |-> << >>] \in A
    BY DEF IndexStates
  <2>2. F[0] \in A
    BY <1>1, <2>1
  <2>3. 0 \in 0..N
    BY <1>2
  <2> HIDE DEF A
  <2> QED
    BY <2>2, <2>3
<1>3. ASSUME NEW n \in 1..N, n - 1 \in S PROVE n \in S
  <2>1. F[n - 1] \in A /\ F[n] = IndexWalk(F[n - 1], page[n]) /\ n \in DOMAIN page
    BY <1>1, <1>2, <1>3
  <2>2. IndexWalk(F[n - 1], page[n]) \in A
    BY <2>1, IndexWalkTyped
  <2> HIDE DEF A
  <2> QED
    BY <1>2, <2>1, <2>2
<1> HIDE DEF S
<1>4. N \in S
  <2>1. \A n \in 0..N : n \in S
    BY <1>0, <1>2, <1>3, LoopInduction
  <2> QED
    BY <1>2, <2>1
<1> QED
  BY <1>1, <1>4 DEF S, IndexStates

(* dedupe goes through the entries one by one.                               *)
LEMMA DedupeKeeps ==
  ASSUME NEW E, NEW es \in Seq(E)
  PROVE  \E F : /\ F[0] = << >>
                /\ \A n \in 1..Len(es) : F[n] = Keep(F[n - 1], es[n])
                /\ Dedupe(es) = F[Len(es)]
<1> DEFINE N == Len(es)
           A == Seq(E)
           step == [x \in (1..N) \X A |-> Keep(x[2], es[x[1]])]
           Rhs(g) == [s \in SUBSET DOMAIN es |->
                        IF s = {} THEN << >> ELSE Keep(g[s \ {Max(s)}], es[Max(s)])]
           G == CHOOSE g : g = Rhs(g)
<1>1. N \in Nat /\ DOMAIN es = 1..N
  OBVIOUS
<1>2. << >> \in A
  OBVIOUS
<1>3. ASSUME NEW i \in 1..N, NEW out \in A PROVE Keep(out, es[i]) \in A
  BY DEF Keep
<1>4. PICK g \in [SUBSET (1..N) -> A] : IsFold(g, N, << >>, step)
  <2>1. N \in Nat
    BY <1>1
  <2>2. step \in [(1..N) \X A -> A]
    BY <1>3
  <2> HIDE DEF step, A, N
  <2> QED
    BY <1>2, <2>1, <2>2, FoldExists
<1>5. g = Rhs(g)
  <2>1. ASSUME NEW s \in SUBSET (1..N), s # {}
        PROVE  step[<<Max(s), g[s \ {Max(s)}]>>] = Keep(g[s \ {Max(s)}], es[Max(s)])
    <3>0. N \in Nat /\ s \subseteq 0..N
      BY <1>1, <2>1
    <3>1. Max(s) \in 1..N
      BY <2>1, <3>0, MaxOfPlaces
    <3>2. g[s \ {Max(s)}] \in A
      BY <2>1
    <3> HIDE DEF A
    <3> QED
      BY <3>1, <3>2
  <2>2. \A s \in SUBSET (1..N) :
          g[s] = IF s = {} THEN << >> ELSE Keep(g[s \ {Max(s)}], es[Max(s)])
    <3> HIDE DEF A, step, N
    <3> QED
      BY <1>4, <2>1 DEF IsFold
  <2> HIDE DEF A, step, N
  <2> QED
    BY <1>1, <2>2
<1>6. G = Rhs(G)
  <2> HIDE DEF Rhs
  <2> QED
    BY <1>5
<1>7. Dedupe(es) = G[DOMAIN es]
  BY DEF Dedupe, FoldLeft, MapThenFoldSet
<1> HIDE DEF G, A, N
<1>8. /\ G[{}] = << >>
      /\ \A s \in SUBSET (1..N) : s # {} => G[s] = Keep(G[s \ {Max(s)}], es[Max(s)])
  <2>1. G = [s \in SUBSET (1..N) |->
               IF s = {} THEN << >> ELSE Keep(G[s \ {Max(s)}], es[Max(s)])]
    BY <1>1, <1>6
  <2> QED
    BY <2>1
<1> DEFINE F == [n \in 0..N |-> G[1..n]]
<1>9. F[0] = << >>
  BY <1>1, <1>8, LastOfPrefix
<1>10. ASSUME NEW n \in 1..N PROVE F[n] = Keep(F[n - 1], es[n])
  <2>1. n \in Nat /\ n > 0 /\ 1..n \in SUBSET (1..N) /\ n - 1 \in 0..N /\ n \in 0..N
    BY <1>1
  <2>2. G[1..n] = Keep(G[1..(n - 1)], es[n])
    BY <1>8, <2>1, LastOfPrefix
  <2> QED
    BY <2>1, <2>2
<1>11. Dedupe(es) = F[N]
  BY <1>1, <1>7
<1> QED
  BY <1>9, <1>10, <1>11 DEF N

(* What is left of the entries are entries, no two of a name.                *)
LEMMA DedupeDistinct ==
  ASSUME NEW E, NEW es \in Seq(E)
  PROVE  /\ Dedupe(es) \in Seq(E)
         /\ \A i, j \in 1..Len(Dedupe(es)) :
              ToLower(Dedupe(es)[i].name) = ToLower(Dedupe(es)[j].name) => i = j
<1> DEFINE N == Len(es)
           Distinct(out) == \A i, j \in 1..Len(out) :
                              ToLower(out[i].name) = ToLower(out[j].name) => i = j
<1>1. PICK F : /\ F[0] = << >>
               /\ \A n \in 1..N : F[n] = Keep(F[n - 1], es[n])
               /\ Dedupe(es) = F[N]
  BY DedupeKeeps
<1>2. N \in Nat /\ \A n \in 1..N : es[n] \in E
  OBVIOUS
<1> HIDE DEF N
<1> DEFINE S == {n \in 0..N : F[n] \in Seq(E) /\ Distinct(F[n])}
<1>0. 0 \in S
  <2>1. << >> \in Seq(E) /\ Distinct(<< >>)
    OBVIOUS
  <2>2. F[0] \in Seq(E) /\ Distinct(F[0])
    <3>1. F[0] = << >>
      BY <1>1
    <3> HIDE DEF Distinct
    <3> QED
      BY <2>1, <3>1
  <2>3. 0 \in 0..N
    BY <1>2
  <2> HIDE DEF Distinct
  <2> QED
    BY <2>2, <2>3
<1>3. ASSUME NEW n \in 1..N, n - 1 \in S PROVE n \in S
  <2> DEFINE out == F[n - 1]
             e == es[n]
  <2>1. out \in Seq(E) /\ Distinct(out) /\ F[n] = Keep(out, e) /\ e \in E
    BY <1>1, <1>2, <1>3
  <2>n. n \in 0..N
    BY <1>2
  <2> HIDE DEF out, e
  <2>2. CASE \E o \in Range(out) : ToLower(o.name) = ToLower(e.name)
    <3>1. F[n] = out
      BY <2>1, <2>2 DEF Keep
    <3> QED
      BY <2>1, <2>n, <3>1
  <2>3. CASE ~ \E o \in Range(out) : ToLower(o.name) = ToLower(e.name)
    <3>1. F[n] = Append(out, e)
      BY <2>1, <2>3 DEF Keep
    <3>2. \A i \in 1..Len(out) : ToLower(out[i].name) # ToLower(e.name)
      BY <2>1, <2>3 DEF Range
    <3>3. Append(out, e) \in Seq(E) /\ Distinct(Append(out, e))
      BY <2>1, <3>2
    <3> QED
      BY <2>n, <3>1, <3>3
  <2> QED
    BY <2>2, <2>3
<1> HIDE DEF S, Distinct
<1>4. N \in S
  <2>1. \A n \in 0..N : n \in S
    BY <1>0, <1>2, <1>3, LoopInduction
  <2> QED
    BY <1>2, <2>1
<1> QED
  BY <1>1, <1>4 DEF S, Distinct

(* The entries main works from.                                              *)
LEMMA IndexEntriesDiffer ==
  ASSUME site \in Sites
  PROVE  /\ Len(IndexEntries) \in Nat /\ DOMAIN IndexEntries = 1..Len(IndexEntries)
         /\ \A i, j \in 1..Len(IndexEntries) :
              ToLower(IndexEntries[i].name) = ToLower(IndexEntries[j].name) => i = j
         /\ \A i \in 1..Len(IndexEntries) : IndexEntries[i].slug \in DOMAIN Site.page
<1> DEFINE page == Fetched(Site.index)
           E == Range(Site.index)
<1>1. page \in Seq(E)
  BY DocgenAssumption, FetchedIsPage DEF Site
<1>0. Slugs(page) \subseteq DOMAIN Site.page
  <2>1. Range(page) \subseteq E
    BY <1>1, RangeInSet
  <2>2. Slugs(Site.index) \subseteq DOMAIN Site.page
    BY DocgenAssumption DEF Site
  <2> HIDE DEF page
  <2> QED
    BY <2>1, <2>2 DEF Slugs
<1> HIDE DEF page, E
<1>2. ParseIndex(page) \in Seq(IndexRecords(page))
  BY <1>1, IndexTyped
<1>3. /\ Dedupe(ParseIndex(page)) \in Seq(IndexRecords(page))
      /\ \A i, j \in 1..Len(Dedupe(ParseIndex(page))) :
           ToLower(Dedupe(ParseIndex(page))[i].name) = ToLower(Dedupe(ParseIndex(page))[j].name)
             => i = j
  BY <1>2, DedupeDistinct
<1>4. IndexEntries = Dedupe(ParseIndex(page))
  BY DEF IndexEntries, page
<1>5. \A i \in 1..Len(IndexEntries) : IndexEntries[i].slug \in Slugs(page)
  <2>1. \A i \in 1..Len(IndexEntries) : IndexEntries[i] \in IndexRecords(page)
    BY <1>3, <1>4
  <2> QED
    BY <2>1 DEF IndexRecords
<1>6. DOMAIN IndexEntries = 1..Len(IndexEntries)
  BY <1>3, <1>4
<1> QED
  BY <1>0, <1>3, <1>4, <1>5, <1>6

(* The heading above the next element is this one or the one above this one. *)
LEMMA HeadingsGrow ==
  ASSUME NEW page, NEW n \in Nat \ {0}
  PROVE  /\ page[n].tag = "h3" => /\ SectionAt(page, n + 1) = SectionOf(page[n])
                                  /\ CategoryAt(page, n + 1) = page[n].text
         /\ page[n].tag # "h3" => /\ SectionAt(page, n + 1) = SectionAt(page, n)
                                  /\ CategoryAt(page, n + 1) = CategoryAt(page, n)
<1> DEFINE above == HeadingsAbove(page, n + 1)
<1>1. \A j : j \in 1..((n + 1) - 1) <=> j \in 1..(n - 1) \/ j = n
  OBVIOUS
<1>2. ASSUME page[n].tag = "h3" PROVE above # {} /\ Max(above) = n
  <2>1. n \in above /\ above \subseteq Int /\ \A x \in above : x <= n
    BY <1>1, <1>2 DEF HeadingsAbove
  <2> HIDE DEF above
  <2> QED
    BY <2>1, MaxIs
<1>3. page[n].tag # "h3" => above = HeadingsAbove(page, n)
  BY <1>1 DEF HeadingsAbove
<1> HIDE DEF above
<1> QED
  BY <1>2, <1>3 DEF SectionAt, CategoryAt, above

LEMMA NoHeadingAboveFirst ==
  ASSUME NEW page PROVE SectionAt(page, 1) = "" /\ CategoryAt(page, 1) = ""
<1>1. HeadingsAbove(page, 1) = {}
  BY DEF HeadingsAbove
<1> QED
  BY <1>1 DEF SectionAt, CategoryAt

(* What parseIndex has at each element: the links so far, in order.          *)
LinksTo(page, n) ==
  {i \in 1..n : /\ page[i].tag = "a" /\ page[i].slug # "" /\ page[i].text # ""
                /\ CategoryAt(page, i) # ""}

EntryAt(page, i) ==
  [name |-> page[i].text, slug |-> page[i].slug, category |-> CategoryAt(page, i)]

Entries(page) == [i \in DOMAIN page |-> EntryAt(page, i)]

IndexAt(page, n) ==
  [category |-> CategoryAt(page, n + 1), entries |-> ListOf(LinksTo(page, n), Entries(page))]

LEMMA IndexWalks ==
  ASSUME NEW E, NEW page \in Seq(E), NEW n \in 1..Len(page)
  PROVE  IndexWalk(IndexAt(page, n - 1), page[n]) = IndexAt(page, n)
<1> DEFINE m == n - 1
           before == LinksTo(page, m)
           now == LinksTo(page, n)
           list == ListOf(before, Entries(page))
           category == CategoryAt(page, n)
           isLink == /\ page[n].tag = "a" /\ page[n].slug # "" /\ page[n].text # ""
                     /\ category # ""
<1>1. /\ m \in Nat /\ m + 1 = n /\ n \in Nat \ {0} /\ n \in DOMAIN page
      /\ \A i : i \in 1..n <=> i \in 1..m \/ i = n
  OBVIOUS
<1>2. before \in SUBSET (1..m)
  BY DEF LinksTo
<1>3. /\ isLink => now = before \cup {m + 1}
      /\ ~isLink => now = before
  <2>1. \A i : i \in now <=> i \in before \/ (i = n /\ isLink)
    BY <1>1 DEF LinksTo
  <2> HIDE DEF now, before, isLink, m
  <2> QED
    BY <1>1, <2>1
<1>4. Entries(page)[n] = [name |-> page[n].text, slug |-> page[n].slug, category |-> category]
  BY <1>1 DEF Entries, EntryAt
<1> HIDE DEF m, before, now, list
<1>5. isLink => ListOf(now, Entries(page)) = Append(list, Entries(page)[n])
  <2> HIDE DEF isLink
  <2>1. ListOf(before \cup {m + 1}, Entries(page)) = Append(list, Entries(page)[m + 1])
    BY <1>1, <1>2, ListOfMore DEF list
  <2> QED
    BY <1>1, <1>3, <2>1
<1>6. ~isLink => ListOf(now, Entries(page)) = list
  BY <1>3 DEF list
<1>7. /\ page[n].tag = "h3" => CategoryAt(page, n + 1) = page[n].text
      /\ page[n].tag # "h3" => CategoryAt(page, n + 1) = category
  BY <1>1, HeadingsGrow
<1>8. /\ IndexAt(page, m) = [category |-> category, entries |-> list]
      /\ IndexAt(page, n) = [category |-> CategoryAt(page, n + 1),
                             entries |-> ListOf(now, Entries(page))]
  BY <1>1 DEF IndexAt, list, before, now
<1>9. IndexWalk([category |-> category, entries |-> list], page[n]) = IndexAt(page, n)
  <2> DEFINE e == page[n]
             next == CategoryAt(page, n + 1)
             longer == ListOf(now, Entries(page))
  <2>1. CASE e.tag = "h3"
    <3>1. next = e.text /\ longer = list
      BY <1>6, <1>7, <2>1
    <3> HIDE DEF e, next, longer, category
    <3>2. IndexWalk([category |-> category, entries |-> list], e)
            = [category |-> e.text, entries |-> list]
      BY <2>1 DEF IndexWalk
    <3>3. IndexWalk([category |-> category, entries |-> list], e)
            = [category |-> next, entries |-> longer]
      BY <3>1, <3>2
    <3> QED
      BY <1>8, <3>3 DEF e, next, longer
  <2>2. CASE isLink
    <3>1. next = category /\ e.tag = "a" /\ e.slug # "" /\ e.text # "" /\ category # ""
      BY <1>7, <2>2
    <3>2. longer = Append(list, [name |-> e.text, slug |-> e.slug, category |-> category])
      BY <1>4, <1>5, <2>2
    <3> HIDE DEF e, next, longer, category, isLink
    <3>3. IndexWalk([category |-> category, entries |-> list], e)
            = [category |-> next, entries |-> longer]
      BY <3>1, <3>2 DEF IndexWalk
    <3> QED
      BY <1>8, <3>3 DEF e, next, longer
  <2>3. CASE e.tag # "h3" /\ ~isLink
    <3>1. next = category /\ longer = list
      BY <1>6, <1>7, <2>3
    <3>2. ~(e.tag = "a" /\ e.slug # "" /\ e.text # "" /\ category # "") /\ e.tag # "h3"
      BY <2>3
    <3> HIDE DEF e, next, longer, category, isLink
    <3>3. IndexWalk([category |-> category, entries |-> list], e)
            = [category |-> next, entries |-> longer]
      BY <3>1, <3>2 DEF IndexWalk
    <3> QED
      BY <1>8, <3>3 DEF e, next, longer
  <2> QED
    BY <2>1, <2>2, <2>3
<1> QED
  BY <1>8, <1>9 DEF m

(* parseIndex returns the links that stand for an action, in order.          *)
LEMMA IndexIsLinks ==
  ASSUME NEW E, NEW page \in Seq(E)
  PROVE  ParseIndex(page) = ListOf(LinksIn(page), Entries(page))
<1> DEFINE N == Len(page)
<1>1. PICK F : /\ F[0] = [category |-> "", entries |-> << >>]
               /\ \A n \in 1..N : F[n] = IndexWalk(F[n - 1], page[n])
               /\ ParseIndex(page) = F[N].entries
  BY ParseIndexWalks
<1>2. N \in Nat /\ DOMAIN page = 1..N
  OBVIOUS
<1>3. IndexAt(page, 0) = [category |-> "", entries |-> << >>]
  <2>1. LinksTo(page, 0) = {} /\ 0 + 1 = 1
    BY DEF LinksTo
  <2> QED
    BY <2>1, NoHeadingAboveFirst, ListOfNone DEF IndexAt
<1>4. \A n \in 1..N : IndexWalk(IndexAt(page, n - 1), page[n]) = IndexAt(page, n)
  BY IndexWalks
<1> HIDE DEF N
<1> DEFINE S == {n \in 0..N : F[n] = IndexAt(page, n)}
<1>5. 0 \in S
  <2>1. F[0] = IndexAt(page, 0)
    BY <1>1, <1>3, Zenon
  <2>2. 0 \in 0..N
    BY <1>2
  <2> QED
    BY <2>1, <2>2
<1>6. ASSUME NEW n \in 1..N, n - 1 \in S PROVE n \in S
  <2>1. F[n - 1] = IndexAt(page, n - 1) /\ n \in 0..N
    BY <1>2, <1>6
  <2>2. F[n] = IndexAt(page, n)
    BY <1>1, <1>4, <2>1
  <2> QED
    BY <2>1, <2>2
<1> HIDE DEF S
<1>7. \A n \in 0..N : n \in S
  BY <1>2, <1>5, <1>6, LoopInduction
<1>8. F[N] = IndexAt(page, N)
  BY <1>2, <1>7 DEF S
<1>9. LinksTo(page, N) = LinksIn(page)
  BY <1>2, Zenon DEF LinksTo, LinksIn
<1>10. IndexAt(page, N).entries = ListOf(LinksTo(page, N), Entries(page))
  BY DEF IndexAt
<1> QED
  BY <1>1, <1>8, <1>9, <1>10

(* dedupe keeps of every name the first entry that has it.                   *)
Firsts(es, n) ==
  {k \in 1..n : \A j \in 1..(k - 1) : ToLower(es[j].name) # ToLower(es[k].name)}

LEMMA DedupeKeepsFirsts ==
  ASSUME NEW E, NEW es \in Seq(E)
  PROVE  Range(Dedupe(es)) = {es[k] : k \in Firsts(es, Len(es))}
<1> DEFINE N == Len(es)
           Same(a, b) == ToLower(a.name) = ToLower(b.name)
           Kept(out, n) ==
             /\ out \in Seq(E)
             /\ \A j \in 1..n : \E o \in Range(out) : Same(o, es[j])
             /\ Range(out) = {es[k] : k \in Firsts(es, n)}
<1>1. PICK F : /\ F[0] = << >>
               /\ \A n \in 1..N : F[n] = Keep(F[n - 1], es[n])
               /\ Dedupe(es) = F[N]
  BY DedupeKeeps
<1>2. N \in Nat /\ \A n \in 1..N : es[n] \in E
  OBVIOUS
<1>3. Kept(<< >>, 0)
  <2>1. << >> \in Seq(E) /\ Range(<< >>) = {}
    BY DEF Range
  <2>2. 1..0 = {} /\ Firsts(es, 0) = {}
    BY DEF Firsts
  <2> QED
    BY <2>1, <2>2
<1>4. ASSUME NEW n \in 1..N, NEW out, Kept(out, n - 1) PROVE Kept(Keep(out, es[n]), n)
  <2> DEFINE m == n - 1
             e == es[n]
             given == {es[k] : k \in Firsts(es, m)}
  <2>1. m \in Nat /\ e \in E /\ \A j : j \in 1..n <=> j \in 1..m \/ j = n
    BY <1>2
  <2>2. /\ out \in Seq(E)
        /\ \A j \in 1..m : \E o \in Range(out) : Same(o, es[j])
        /\ Range(out) = given
    BY <1>4
  <2>3. \A k : k \in Firsts(es, n) <=>
                  k \in Firsts(es, m) \/ (k = n /\ \A j \in 1..m : ~Same(es[j], e))
    BY <2>1 DEF Firsts
  <2> HIDE DEF Kept
  <2>4. CASE \E o \in Range(out) : Same(o, e)
    <3>1. Keep(out, e) = out
      BY <2>4 DEF Keep
    <3>2. \E j \in 1..m : Same(es[j], e)
      <4>1. PICK o \in Range(out) : Same(o, e)
        BY <2>4
      <4>2. PICK k \in Firsts(es, m) : o = es[k]
        BY <2>2, <4>1
      <4>3. k \in 1..m
        BY <4>2 DEF Firsts
      <4> QED
        BY <4>1, <4>2, <4>3
    <3>3. Firsts(es, n) = Firsts(es, m)
      BY <2>3, <3>2
    <3>4. \A j \in 1..n : \E o \in Range(out) : Same(o, es[j])
      BY <2>1, <2>2, <2>4
    <3>5. Range(out) = {es[k] : k \in Firsts(es, n)}
      BY <2>2, <3>3
    <3> QED
      BY <2>2, <3>1, <3>4, <3>5 DEF Kept
  <2>5. CASE ~ \E o \in Range(out) : Same(o, e)
    <3>1. Keep(out, e) = Append(out, e)
      BY <2>5 DEF Keep
    <3>2. \A j \in 1..m : ~Same(es[j], e)
      <4> SUFFICES ASSUME NEW j \in 1..m, Same(es[j], e) PROVE FALSE
        OBVIOUS
      <4>1. PICK o \in Range(out) : Same(o, es[j])
        BY <2>2
      <4> QED
        BY <2>5, <4>1
    <3>3. Firsts(es, n) = Firsts(es, m) \cup {n}
      BY <2>3, <3>2
    <3>4. Append(out, e) \in Seq(E) /\ Range(Append(out, e)) = Range(out) \cup {e}
      <4> HIDE DEF e
      <4>1. /\ Append(out, e) \in Seq(E) /\ Len(Append(out, e)) = Len(out) + 1 /\ Len(out) \in Nat
            /\ \A i \in 1..Len(out) : Append(out, e)[i] = out[i]
            /\ Append(out, e)[Len(out) + 1] = e
            /\ DOMAIN out = 1..Len(out) /\ DOMAIN Append(out, e) = 1..(Len(out) + 1)
        BY <2>1, <2>2
      <4>2. \A i : i \in 1..(Len(out) + 1) <=> i \in 1..Len(out) \/ i = Len(out) + 1
        BY <4>1
      <4> QED
        BY <4>1, <4>2 DEF Range
    <3>5. Range(Append(out, e)) = {es[k] : k \in Firsts(es, n)}
      <4> HIDE DEF e
      <4>1. {es[k] : k \in Firsts(es, n)} = given \cup {e}
        BY <3>3 DEF e
      <4> QED
        BY <2>2, <3>4, <4>1
    <3>6. \A j \in 1..n : \E o \in Range(Append(out, e)) : Same(o, es[j])
      <4>1. ASSUME NEW j \in 1..m PROVE \E o \in Range(Append(out, e)) : Same(o, es[j])
        <5>1. PICK o \in Range(out) : Same(o, es[j])
          BY <2>2
        <5> QED
          BY <3>4, <5>1
      <4>2. e \in Range(Append(out, e)) /\ Same(e, es[n])
        BY <3>4
      <4> QED
        BY <2>1, <4>1, <4>2
    <3> QED
      BY <3>1, <3>4, <3>5, <3>6 DEF Kept
  <2> QED
    BY <2>4, <2>5
<1> HIDE DEF N, Kept
<1> DEFINE S == {n \in 0..N : Kept(F[n], n)}
<1>5. 0 \in S
  <2>1. Kept(F[0], 0)
    BY <1>1, <1>3, Zenon
  <2>2. 0 \in 0..N
    BY <1>2
  <2> QED
    BY <2>1, <2>2
<1>6. ASSUME NEW n \in 1..N, n - 1 \in S PROVE n \in S
  <2>1. Kept(F[n - 1], n - 1) /\ F[n] = Keep(F[n - 1], es[n]) /\ n \in 0..N
    BY <1>1, <1>2, <1>6
  <2> QED
    BY <1>4, <2>1
<1> HIDE DEF S
<1>7. \A n \in 0..N : n \in S
  BY <1>2, <1>5, <1>6, LoopInduction
<1>8. Kept(F[N], N)
  BY <1>2, <1>7 DEF S
<1> QED
  BY <1>1, <1>8 DEF Kept, N

(* What is left of the index are the links that stand for an action.         *)
LEMMA DedupedLinks ==
  ASSUME NEW E, NEW page \in Seq(E)
  PROVE  Range(Dedupe(ParseIndex(page))) = {EntryAt(page, i) : i \in ActionLinks(page)}
<1> DEFINE L == LinksIn(page)
           c == Cardinality(L)
           es == ListOf(L, Entries(page))
           N == Len(page)
<1>1. N \in Nat /\ DOMAIN page = 1..N
  OBVIOUS
<1>2. L \in SUBSET (1..N)
  BY <1>1 DEF LinksIn
<1>3. /\ c \in Nat
      /\ \A k \in 1..c : Nth(L, k) \in L
      /\ \A i \in L : \E k \in 1..c : Nth(L, k) = i
      /\ \A j, k \in 1..c : j < k => Nth(L, j) < Nth(L, k)
  <2> HIDE DEF L, N
  <2>1. Enumerated(L)
    BY <1>1, <1>2, NthEnumerates
  <2> QED
    BY <2>1 DEF Enumerated
<1>4. \A k \in 1..c : es[k] = EntryAt(page, Nth(L, k))
  <2> HIDE DEF L, N
  <2>1. \A k \in 1..c : Nth(L, k) \in DOMAIN page
    BY <1>1, <1>2, <1>3
  <2> QED
    BY <2>1 DEF ListOf, Entries
<1>5. \A i \in L : i \in Nat /\ EntryAt(page, i).name = page[i].text
  <2> HIDE DEF L
  <2> QED
    BY <1>1, <1>2 DEF EntryAt
<1>6. ActionLinks(page) =
        {i \in L : \A j \in L : j < i => ToLower(page[j].text) # ToLower(page[i].text)}
  BY DEF ActionLinks
<1> HIDE DEF L, c, N
<1> DEFINE M == {EntryAt(page, i) : i \in L}
<1>7. es \in Seq(M) /\ Len(es) = c
  <2>1. es = [k \in 1..c |-> EntryAt(page, Nth(L, k))]
    BY <1>4 DEF ListOf, c
  <2>2. \A k \in 1..c : EntryAt(page, Nth(L, k)) \in M
    BY <1>3
  <2> HIDE DEF M, es
  <2> QED
    BY <1>3, <2>1, <2>2
<1> HIDE DEF M, es
<1>8. Range(Dedupe(es)) = {es[k] : k \in Firsts(es, c)}
  BY <1>7, DedupeKeepsFirsts
<1>9. ASSUME NEW k \in 1..c
      PROVE  k \in Firsts(es, c) <=> Nth(L, k) \in ActionLinks(page)
  <2> DEFINE i == Nth(L, k)
  <2>1. i \in L /\ es[k] = EntryAt(page, i)
    BY <1>3, <1>4
  <2>2. ASSUME k \in Firsts(es, c), NEW j \in L, j < i
        PROVE  ToLower(page[j].text) # ToLower(page[i].text)
    <3>1. PICK m \in 1..c : Nth(L, m) = j
      BY <1>3
    <3>2. m < k
      <4>1. m \in Nat /\ k \in Nat /\ i \in Nat /\ j \in Nat
        BY <1>3, <1>5, <2>1
      <4>2. m # k
        BY <2>2, <3>1, <4>1
      <4>3. ~(k < m)
        BY <1>3, <2>2, <3>1, <4>1
      <4> QED
        BY <4>1, <4>2, <4>3
    <3>3. m \in 1..(k - 1)
      BY <3>2
    <3>4. ToLower(es[m].name) # ToLower(es[k].name)
      BY <2>2, <3>3 DEF Firsts
    <3>5. es[m] = EntryAt(page, j)
      BY <1>4, <3>1
    <3> QED
      BY <1>5, <2>1, <3>4, <3>5
  <2>3. ASSUME i \in ActionLinks(page), NEW m \in 1..(k - 1)
        PROVE  ToLower(es[m].name) # ToLower(es[k].name)
    <3>1. m \in 1..c /\ m < k
      BY <1>3
    <3>2. Nth(L, m) \in L /\ Nth(L, m) < i /\ es[m] = EntryAt(page, Nth(L, m))
      BY <1>3, <1>4, <3>1
    <3>3. ToLower(page[Nth(L, m)].text) # ToLower(page[i].text)
      BY <1>6, <2>3, <3>2
    <3> QED
      BY <1>5, <2>1, <3>2, <3>3
  <2>4. k \in Firsts(es, c) => i \in ActionLinks(page)
    <3> HIDE DEF i
    <3> QED
      BY <1>6, <2>1, <2>2
  <2>5. i \in ActionLinks(page) => k \in Firsts(es, c)
    BY <2>3 DEF Firsts
  <2> QED
    BY <2>4, <2>5
<1>10. {es[k] : k \in Firsts(es, c)} = {EntryAt(page, i) : i \in ActionLinks(page)}
  <2>1. ASSUME NEW k \in Firsts(es, c)
        PROVE  \E i \in ActionLinks(page) : es[k] = EntryAt(page, i)
    <3>1. k \in 1..c
      BY DEF Firsts
    <3> QED
      BY <1>4, <1>9, <3>1
  <2>2. ASSUME NEW i \in ActionLinks(page)
        PROVE  \E k \in Firsts(es, c) : es[k] = EntryAt(page, i)
    <3>1. i \in L
      BY <1>6
    <3>2. PICK k \in 1..c : Nth(L, k) = i
      BY <1>3, <3>1
    <3> QED
      BY <1>4, <1>9, <3>2
  <2> QED
    BY <2>1, <2>2
<1>11. ParseIndex(page) = es
  BY IndexIsLinks DEF es, L
<1> QED
  BY <1>8, <1>10, <1>11

(***************************************************************************)
(* The page of an action.                                                  *)
(***************************************************************************)

(* What the server can rely on in a parameter.                               *)
SafeParam(p) ==
  ToLower(p.name) # "action" /\ p.description # "prose" /\ ~(p.required /\ p.deprecated)

LEMMA ParamIsSafe ==
  ASSUME NEW action, NEW cells, IsParam(cells), NEW withRequired
  PROVE  SafeParam(Param(action, cells, withRequired))
<1> DEFINE req == IF withRequired /\ Len(cells) > 3 THEN cells[4] ELSE {}
           p == Param(action, cells, withRequired)
<1>1. /\ p.name = cells[1]
      /\ p.description = IF Len(cells) > 2 THEN Describe(action, cells[1], cells[3]) ELSE ""
      /\ p.deprecated = ("deprecated" \in req)
      /\ p.required = ("required" \in req /\ "deprecated" \notin req)
  BY DEF Param
<1> HIDE DEF p, req
<1>2. ToLower(p.name) # "action"
  BY <1>1 DEF IsParam
<1>3. Describe(action, cells[1], cells[3]) # "prose"
  BY DEF Describe
<1> QED
  BY <1>1, <1>2, <1>3 DEF SafeParam, p

(* What parseAction appends, and what it has of a page at each element.      *)
ParamRows(page) == {i \in DOMAIN page : IsParam(page[i].cells)}

RowParams(action, page) ==
  {Param(action, page[i].cells, TRUE) : i \in ParamRows(page)}
    \union {Param(action, page[i].cells, FALSE) : i \in ParamRows(page)}

PageStates(action, page) ==
  [titled : BOOLEAN, section : {""} \union {SectionOf(page[i]) : i \in DOMAIN page},
   table : {"", "request", "response"}, summary : {""} \union {page[i].text : i \in DOMAIN page},
   params : Seq(RowParams(action, page)), response : Seq(RowParams(action, page))]

PageStart ==
  [titled |-> FALSE, section |-> "", table |-> "", summary |-> "", params |-> << >>,
   response |-> << >>]

LEMMA PageWalkTyped ==
  ASSUME NEW action, NEW page, NEW i \in DOMAIN page, NEW at \in PageStates(action, page)
  PROVE  PageWalk(action, at, page[i]) \in PageStates(action, page)
<1> DEFINE n == page[i]
           A == PageStates(action, page)
           R == RowParams(action, page)
           wanted == Param(action, n.cells, TRUE)
           returned == Param(action, n.cells, FALSE)
<1>1. /\ n.text \in {page[j].text : j \in DOMAIN page}
      /\ SectionOf(n) \in {SectionOf(page[j]) : j \in DOMAIN page}
      /\ IsParam(n.cells) => wanted \in R /\ returned \in R
  <2>1. i \in DOMAIN page
    OBVIOUS
  <2>2. IsParam(n.cells) => i \in ParamRows(page)
    BY DEF ParamRows
  <2>3. IsParam(n.cells) => wanted \in R /\ returned \in R
    BY <2>2, Zenon DEF RowParams
  <2>4. n.text \in {page[j].text : j \in DOMAIN page}
    BY <2>1, Zenon
  <2>5. SectionOf(n) \in {SectionOf(page[j]) : j \in DOMAIN page}
    BY <2>1, Zenon
  <2> HIDE DEF R, n
  <2> QED
    BY <2>3, <2>4, <2>5
<1>2. at.params \in Seq(R) /\ at.response \in Seq(R)
  BY DEF PageStates
<1> HIDE DEF n, R, wanted, returned
<1>3. IsParam(n.cells) => Append(at.params, wanted) \in Seq(R)
                          /\ Append(at.response, returned) \in Seq(R)
  BY <1>1, <1>2, AppendTyped
<1>4. << >> \in Seq(R)
  OBVIOUS
<1>5. [at EXCEPT !.titled = TRUE] \in A /\ [at EXCEPT !.section = SectionOf(n)] \in A
      /\ [at EXCEPT !.summary = n.text] \in A
  BY <1>1 DEF PageStates
<1>6. /\ [at EXCEPT !.table = "request", !.params = << >>] \in A
      /\ [at EXCEPT !.table = "response", !.response = << >>] \in A
      /\ [at EXCEPT !.table = ""] \in A
  BY <1>4 DEF PageStates, R
<1>7. IsParam(n.cells) => /\ [at EXCEPT !.params = Append(@, wanted)] \in A
                          /\ [at EXCEPT !.response = Append(@, returned)] \in A
  BY <1>3 DEF PageStates, R
<1> HIDE DEF A
<1> QED
  BY <1>5, <1>6, <1>7 DEF PageWalk, n, wanted, returned, A

(* What is left of a page when all is read.                                  *)
PageEnds(action, page, end) ==
  ParseAction(action, page) =
    [summary |-> end.summary, params |-> end.params, response |-> end.response]

(* parseAction goes through the elements one by one.                         *)
LEMMA ParseActionWalks ==
  ASSUME NEW action, NEW E, NEW page \in Seq(E)
  PROVE  \E F : /\ F[0] = PageStart
                /\ \A n \in 1..Len(page) : F[n] = PageWalk(action, F[n - 1], page[n])
                /\ PageEnds(action, page, F[Len(page)])
<1> DEFINE N == Len(page)
           A == PageStates(action, page)
           step == [x \in (1..N) \X A |-> PageWalk(action, x[2], page[x[1]])]
           Rhs(g) == [s \in SUBSET DOMAIN page |->
                        IF s = {} THEN PageStart ELSE PageWalk(action, g[s \ {Max(s)}], page[Max(s)])]
           G == CHOOSE g : g = Rhs(g)
<1>1. N \in Nat /\ DOMAIN page = 1..N
  OBVIOUS
<1>2. PageStart \in A
  BY DEF PageStart, PageStates
<1>3. ASSUME NEW i \in 1..N, NEW out \in A PROVE PageWalk(action, out, page[i]) \in A
  BY <1>1, PageWalkTyped
<1>4. PICK g \in [SUBSET (1..N) -> A] : IsFold(g, N, PageStart, step)
  <2>1. N \in Nat
    BY <1>1
  <2>2. step \in [(1..N) \X A -> A]
    BY <1>3
  <2> HIDE DEF step, A, N
  <2> QED
    BY <1>2, <2>1, <2>2, FoldExists
<1>5. g = Rhs(g)
  <2>1. ASSUME NEW s \in SUBSET (1..N), s # {}
        PROVE  step[<<Max(s), g[s \ {Max(s)}]>>] = PageWalk(action, g[s \ {Max(s)}], page[Max(s)])
    <3>0. N \in Nat /\ s \subseteq 0..N
      BY <1>1, <2>1
    <3>1. Max(s) \in 1..N
      BY <2>1, <3>0, MaxOfPlaces
    <3>2. g[s \ {Max(s)}] \in A
      BY <2>1
    <3> HIDE DEF A
    <3> QED
      BY <3>1, <3>2
  <2>2. \A s \in SUBSET (1..N) :
          g[s] = IF s = {} THEN PageStart ELSE PageWalk(action, g[s \ {Max(s)}], page[Max(s)])
    <3> HIDE DEF A, step, N
    <3> QED
      BY <1>4, <2>1 DEF IsFold
  <2> HIDE DEF A, step, N
  <2> QED
    BY <1>1, <2>2
<1>6. G = Rhs(G)
  <2> HIDE DEF Rhs
  <2> QED
    BY <1>5
<1>7. PageEnds(action, page, G[DOMAIN page])
  BY DEF PageEnds, ParseAction, PageStart, FoldLeft, MapThenFoldSet
<1> HIDE DEF G, A, N
<1>8. /\ G[{}] = PageStart
      /\ \A s \in SUBSET (1..N) : s # {} => G[s] = PageWalk(action, G[s \ {Max(s)}], page[Max(s)])
  <2>1. G = [s \in SUBSET (1..N) |->
               IF s = {} THEN PageStart ELSE PageWalk(action, G[s \ {Max(s)}], page[Max(s)])]
    BY <1>1, <1>6
  <2> QED
    BY <2>1
<1> DEFINE F == [n \in 0..N |-> G[1..n]]
<1>9. F[0] = PageStart
  BY <1>1, <1>8, LastOfPrefix
<1>10. ASSUME NEW n \in 1..N PROVE F[n] = PageWalk(action, F[n - 1], page[n])
  <2>1. n \in Nat /\ n > 0 /\ 1..n \in SUBSET (1..N) /\ n - 1 \in 0..N /\ n \in 0..N
    BY <1>1
  <2>2. G[1..n] = PageWalk(action, G[1..(n - 1)], page[n])
    BY <1>8, <2>1, LastOfPrefix
  <2> QED
    BY <2>1, <2>2
<1>11. PageEnds(action, page, F[N])
  BY <1>1, <1>7
<1> QED
  BY <1>9, <1>10, <1>11 DEF N

(* A record's parameters are rows of the page, and safe.                     *)
LEMMA ParsedIsSafe ==
  ASSUME NEW action, NEW E, NEW page \in Seq(E)
  PROVE  \A p \in Range(ParseAction(action, page).params)
                 \union Range(ParseAction(action, page).response) : SafeParam(p)
<1> DEFINE N == Len(page)
           A == PageStates(action, page)
           R == RowParams(action, page)
<1>1. PICK F : /\ F[0] = PageStart
               /\ \A n \in 1..N : F[n] = PageWalk(action, F[n - 1], page[n])
               /\ PageEnds(action, page, F[N])
  BY ParseActionWalks
<1>2. N \in Nat /\ DOMAIN page = 1..N
  OBVIOUS
<1> HIDE DEF N
<1> DEFINE S == {n \in 0..N : F[n] \in A}
<1>3. 0 \in S
  <2>1. PageStart \in A
    BY DEF PageStart, PageStates
  <2> HIDE DEF A
  <2> QED
    BY <1>1, <1>2, <2>1
<1>4. ASSUME NEW n \in 1..N, n - 1 \in S PROVE n \in S
  <2>1. F[n - 1] \in A /\ F[n] = PageWalk(action, F[n - 1], page[n]) /\ n \in DOMAIN page
    BY <1>1, <1>2, <1>4
  <2>2. F[n] \in A
    BY <2>1, PageWalkTyped
  <2> HIDE DEF A
  <2> QED
    BY <1>2, <2>2
<1> HIDE DEF S
<1>5. N \in S
  <2>1. \A n \in 0..N : n \in S
    BY <1>2, <1>3, <1>4, LoopInduction
  <2> QED
    BY <1>2, <2>1
<1>6. F[N].params \in Seq(R) /\ F[N].response \in Seq(R)
  BY <1>5 DEF S, PageStates
<1>7. \A p \in R : SafeParam(p)
  BY ParamIsSafe DEF RowParams, ParamRows
<1>8. /\ ParseAction(action, page).params = F[N].params
      /\ ParseAction(action, page).response = F[N].response
  BY <1>1 DEF PageEnds
<1> HIDE DEF R
<1>9. Range(F[N].params) \subseteq R /\ Range(F[N].response) \subseteq R
  BY <1>6, RangeInSet
<1> QED
  BY <1>7, <1>8, <1>9

Wanted == "request-parameters"
Returned == "response-parameters"

(* The element n is in a table of the section, or it or one before it opens  *)
(* another.                                                                  *)
LEMMA TablesGrow ==
  ASSUME NEW page, NEW n \in Nat \ {0}, NEW section
  PROVE  /\ page[n].tag = "table" => (InTable(page, n, section) <=> SectionAt(page, n) = section)
         /\ page[n].tag # "table" => (InTable(page, n, section) <=> InTable(page, n - 1, section))
<1> DEFINE Opens(t, i) == /\ page[t].tag = "table" /\ SectionAt(page, t) = section
                          /\ \A j \in (t + 1)..i : page[j].tag # "table"
<1>1. \A i : InTable(page, i, section) <=> \E t \in 1..i : Opens(t, i)
  BY DEF InTable
<1>2. \A t : t \in 1..n <=> t \in 1..(n - 1) \/ t = n
  OBVIOUS
<1>3. ASSUME page[n].tag = "table"
      PROVE  InTable(page, n, section) <=> SectionAt(page, n) = section
  <2>1. \A t \in 1..(n - 1) : ~Opens(t, n)
    <3>1. \A t \in 1..(n - 1) : n \in (t + 1)..n
      OBVIOUS
    <3> QED
      BY <1>3, <3>1
  <2>2. Opens(n, n) <=> SectionAt(page, n) = section
    <3>1. (n + 1)..n = {}
      OBVIOUS
    <3> QED
      BY <1>3, <3>1
  <2> HIDE DEF Opens
  <2> QED
    BY <1>1, <1>2, <2>1, <2>2
<1>4. ASSUME page[n].tag # "table"
      PROVE  InTable(page, n, section) <=> InTable(page, n - 1, section)
  <2>1. ASSUME NEW t \in 1..(n - 1) PROVE Opens(t, n) <=> Opens(t, n - 1)
    <3>1. \A j : j \in (t + 1)..n <=> j \in (t + 1)..(n - 1) \/ j = n
      OBVIOUS
    <3> QED
      BY <1>4, <3>1
  <2>2. ~Opens(n, n)
    BY <1>4
  <2> HIDE DEF Opens
  <2> QED
    BY <1>1, <1>2, <2>1, <2>2
<1> QED
  BY <1>3, <1>4

LEMMA NoTableAboveFirst == ASSUME NEW page, NEW section PROVE ~InTable(page, 0, section)
BY DEF InTable

(* No element is in two tables.                                              *)
LEMMA OneTable ==
  ASSUME NEW page, NEW i \in Nat, NEW r, NEW s, InTable(page, i, r), InTable(page, i, s)
  PROVE  r = s
<1>1. PICK t \in 1..i : /\ page[t].tag = "table" /\ SectionAt(page, t) = r
                        /\ \A j \in (t + 1)..i : page[j].tag # "table"
  BY DEF InTable
<1>2. PICK u \in 1..i : /\ page[u].tag = "table" /\ SectionAt(page, u) = s
                        /\ \A j \in (u + 1)..i : page[j].tag # "table"
  BY DEF InTable
<1>3. t \notin (u + 1)..i /\ u \notin (t + 1)..i
  BY <1>1, <1>2
<1>4. t = u
  BY <1>3
<1> QED
  BY <1>1, <1>2, <1>4

(* The rows so far of the last table so far in a section.                    *)
RowsTo(page, n, section) ==
  {i \in 1..n :
     /\ page[i].tag = "tr" /\ IsParam(page[i].cells) /\ InTable(page, i, section)
     /\ \A t \in 1..n : page[t].tag = "table" /\ SectionAt(page, t) = section => t < i}

LEMMA RowsGrow ==
  ASSUME NEW page, NEW n \in Nat \ {0}, NEW section
  PROVE  /\ page[n].tag = "table" /\ SectionAt(page, n) = section =>
              RowsTo(page, n, section) = {}
         /\ ~(page[n].tag = "table" /\ SectionAt(page, n) = section) =>
              IF page[n].tag = "tr" /\ IsParam(page[n].cells) /\ InTable(page, n, section)
              THEN RowsTo(page, n, section) = RowsTo(page, n - 1, section) \cup {n}
              ELSE RowsTo(page, n, section) = RowsTo(page, n - 1, section)
<1> DEFINE IsRow(i) == page[i].tag = "tr" /\ IsParam(page[i].cells) /\ InTable(page, i, section)
           Opens(t) == page[t].tag = "table" /\ SectionAt(page, t) = section
           now == RowsTo(page, n, section)
           before == RowsTo(page, n - 1, section)
<1>1. \A t : t \in 1..n <=> t \in 1..(n - 1) \/ t = n
  OBVIOUS
<1>2. /\ \A i : i \in now <=> i \in 1..n /\ IsRow(i) /\ \A t \in 1..n : Opens(t) => t < i
      /\ \A i : i \in before <=> /\ i \in 1..(n - 1) /\ IsRow(i)
                                 /\ \A t \in 1..(n - 1) : Opens(t) => t < i
  BY DEF RowsTo
<1>3. \A t \in 1..(n - 1) : t < n /\ ~(n < t)
  OBVIOUS
<1> HIDE DEF now, before
<1>4. ASSUME Opens(n) PROVE now = {}
  <2>1. ~IsRow(n)
    BY <1>4
  <2>2. n \in 1..n
    OBVIOUS
  <2> HIDE DEF IsRow, Opens
  <2> QED
    BY <1>1, <1>2, <1>3, <1>4, <2>1, <2>2
<1>5. ASSUME ~Opens(n) PROVE \A i : i \in now <=> i \in before \/ (i = n /\ IsRow(n))
  <2> HIDE DEF IsRow, Opens
  <2> QED
    BY <1>1, <1>2, <1>3, <1>5
<1>6. ~Opens(n) => IF IsRow(n) THEN now = before \cup {n} ELSE now = before
  <2> HIDE DEF IsRow, Opens
  <2> QED
    BY <1>5
<1> QED
  BY <1>4, <1>6 DEF now, before

(* The paragraphs so far that may be the summary.                            *)
Paragraphs(page, n) ==
  {i \in 1..n : /\ page[i].tag = "p" /\ page[i].text # "" /\ SectionAt(page, i) = ""
                /\ \E j \in 1..(i - 1) : page[j].tag = "h1"}

SummaryTo(page, n) ==
  IF Paragraphs(page, n) = {} THEN "" ELSE page[Min(Paragraphs(page, n))].text

LEMMA SummaryGrows ==
  ASSUME NEW page, NEW n \in Nat \ {0}
  PROVE  IF /\ page[n].tag = "p" /\ SectionAt(page, n) = "" /\ SummaryTo(page, n - 1) = ""
            /\ \E j \in 1..(n - 1) : page[j].tag = "h1"
         THEN SummaryTo(page, n) = page[n].text
         ELSE SummaryTo(page, n) = SummaryTo(page, n - 1)
<1> DEFINE now == Paragraphs(page, n)
           before == Paragraphs(page, n - 1)
           titled == \E j \in 1..(n - 1) : page[j].tag = "h1"
           says == page[n].tag = "p" /\ page[n].text # "" /\ SectionAt(page, n) = "" /\ titled
<1>1. \A t : t \in 1..n <=> t \in 1..(n - 1) \/ t = n
  OBVIOUS
<1>2. \A i : i \in now <=> i \in before \/ (i = n /\ says)
  BY <1>1 DEF Paragraphs
<1>3. /\ before \subseteq 1..(n - 1) /\ \A i \in before : page[i].text # ""
      /\ \A i \in 1..(n - 1) : i \in 0..n /\ i <= n
  <2>1. before \subseteq 1..(n - 1) /\ \A i \in before : page[i].text # ""
    BY DEF Paragraphs
  <2>2. \A i \in 1..(n - 1) : i \in 0..n /\ i <= n
    OBVIOUS
  <2> HIDE DEF before
  <2> QED
    BY <2>1, <2>2
<1>4. before # {} => Min(before) \in before /\ \A x \in before : Min(before) <= x
  <2>1. before \subseteq 0..n
    BY <1>3
  <2> HIDE DEF before
  <2> QED
    BY <2>1, MinOfPlaces
<1> HIDE DEF now, before, says
<1>5. before # {} => SummaryTo(page, n - 1) # ""
  BY <1>3, <1>4 DEF SummaryTo, before
<1>6. ASSUME before # {} PROVE SummaryTo(page, n) = SummaryTo(page, n - 1)
  <2> DEFINE m == Min(before)
  <2>1. m \in now /\ now \subseteq Int /\ \A x \in now : m <= x
    <3>1. m \in before /\ m \in 1..(n - 1) /\ m <= n /\ \A x \in before : m <= x
      BY <1>3, <1>4, <1>6
    <3>2. \A x \in now : x \in before \/ x = n
      BY <1>2
    <3>3. m \in now /\ \A x \in before : x \in Int
      <4>1. m \in now
        BY <1>2, <3>1
      <4>2. \A x \in before : x \in 1..(n - 1)
        BY <1>3
      <4>3. \A x \in 1..(n - 1) : x \in Int
        OBVIOUS
      <4> QED
        BY <4>1, <4>2, <4>3
    <3> HIDE DEF m
    <3>4. n \in Int
      OBVIOUS
    <3>5. \A x \in now : x \in Int /\ m <= x
      BY <3>1, <3>2, <3>3, <3>4
    <3> QED
      BY <3>3, <3>5
  <2>2. Min(now) = m /\ now # {}
    <3> HIDE DEF m
    <3> QED
      BY <2>1, MinIs
  <2> QED
    BY <1>6, <2>2 DEF SummaryTo, now, before
<1>7. ASSUME before = {}, says PROVE SummaryTo(page, n) = page[n].text
  <2>1. now = {n}
    BY <1>2, <1>7
  <2>2. Min({n}) = n
    <3> DEFINE s == {n}
    <3>1. n \in s /\ s \subseteq Int /\ \A x \in s : n <= x
      OBVIOUS
    <3> HIDE DEF s
    <3>2. Min(s) = n
      BY <3>1, MinIs
    <3> QED
      BY <3>2 DEF s
  <2> QED
    BY <2>1, <2>2 DEF SummaryTo, now
<1>8. ASSUME ~says PROVE SummaryTo(page, n) = SummaryTo(page, n - 1)
  <2>1. now = before
    BY <1>2, <1>8
  <2> QED
    BY <2>1 DEF SummaryTo, now, before
<1>9. before = {} => SummaryTo(page, n - 1) = ""
  BY DEF SummaryTo, before
<1>10. says <=> page[n].tag = "p" /\ page[n].text # "" /\ SectionAt(page, n) = "" /\ titled
  BY DEF says
<1> HIDE DEF titled
<1>11. IF page[n].tag = "p" /\ SectionAt(page, n) = "" /\ SummaryTo(page, n - 1) = "" /\ titled
       THEN SummaryTo(page, n) = page[n].text
       ELSE SummaryTo(page, n) = SummaryTo(page, n - 1)
  BY <1>5, <1>6, <1>7, <1>8, <1>9, <1>10
<1> QED
  BY <1>11 DEF titled

(* What parseAction has of a page, and what an element does to it.           *)
PageState(titled, section, table, summary, params, response) ==
  [titled |-> titled, section |-> section, table |-> table, summary |-> summary,
   params |-> params, response |-> response]

Walked(action, at, n, t, s, tb, su, p, r) ==
  /\ n.tag = "h1" => PageWalk(action, at, n) = PageState(TRUE, s, tb, su, p, r)
  /\ n.tag = "h3" => PageWalk(action, at, n) = PageState(t, SectionOf(n), tb, su, p, r)
  /\ n.tag = "p" /\ t /\ s = "" /\ su = "" =>
       PageWalk(action, at, n) = PageState(t, s, tb, n.text, p, r)
  /\ n.tag = "p" /\ ~(t /\ s = "" /\ su = "") => PageWalk(action, at, n) = at
  /\ n.tag = "table" /\ s = Wanted =>
       PageWalk(action, at, n) = PageState(t, s, "request", su, << >>, r)
  /\ n.tag = "table" /\ s = Returned =>
       PageWalk(action, at, n) = PageState(t, s, "response", su, p, << >>)
  /\ n.tag = "table" /\ s # Wanted /\ s # Returned =>
       PageWalk(action, at, n) = PageState(t, s, "", su, p, r)
  /\ n.tag = "tr" /\ IsParam(n.cells) /\ tb = "request" =>
       PageWalk(action, at, n)
         = PageState(t, s, tb, su, Append(p, Param(action, n.cells, TRUE)), r)
  /\ n.tag = "tr" /\ IsParam(n.cells) /\ tb = "response" =>
       PageWalk(action, at, n)
         = PageState(t, s, tb, su, p, Append(r, Param(action, n.cells, FALSE)))
  /\ n.tag = "tr" /\ (~IsParam(n.cells) \/ tb = "") => PageWalk(action, at, n) = at
  /\ n.tag \notin {"h1", "h3", "p", "table", "tr"} => PageWalk(action, at, n) = at

LEMMA WalkState ==
  ASSUME NEW action, NEW n, NEW t \in BOOLEAN, NEW s, NEW tb, NEW su, NEW p, NEW r,
         NEW at, at = PageState(t, s, tb, su, p, r)
  PROVE  Walked(action, at, n, t, s, tb, su, p, r)
<1>1. /\ at.titled = t /\ at.section = s /\ at.table = tb /\ at.summary = su
      /\ at.params = p /\ at.response = r
  BY DEF PageState
<1>2. n.tag = "h1" => PageWalk(action, at, n) = PageState(TRUE, s, tb, su, p, r)
  BY DEF PageWalk, PageState
<1>3. n.tag = "h3" => PageWalk(action, at, n) = PageState(t, SectionOf(n), tb, su, p, r)
  BY DEF PageWalk, PageState
<1>4. n.tag = "p" /\ t /\ s = "" /\ su = "" =>
        PageWalk(action, at, n) = PageState(t, s, tb, n.text, p, r)
  BY DEF PageWalk, PageState
<1>5. n.tag = "p" /\ ~(t /\ s = "" /\ su = "") => PageWalk(action, at, n) = at
  BY <1>1 DEF PageWalk
<1>6. n.tag = "table" /\ s = Wanted =>
        PageWalk(action, at, n) = PageState(t, s, "request", su, << >>, r)
  BY DEF PageWalk, PageState, Wanted
<1>7. n.tag = "table" /\ s = Returned =>
        PageWalk(action, at, n) = PageState(t, s, "response", su, p, << >>)
  BY DEF PageWalk, PageState, Returned
<1>8. n.tag = "table" /\ s # Wanted /\ s # Returned =>
        PageWalk(action, at, n) = PageState(t, s, "", su, p, r)
  BY DEF PageWalk, PageState, Wanted, Returned
<1>9. n.tag = "tr" /\ IsParam(n.cells) /\ tb = "request" =>
        PageWalk(action, at, n)
          = PageState(t, s, tb, su, Append(p, Param(action, n.cells, TRUE)), r)
  BY DEF PageWalk, PageState
<1>10. n.tag = "tr" /\ IsParam(n.cells) /\ tb = "response" =>
        PageWalk(action, at, n)
          = PageState(t, s, tb, su, p, Append(r, Param(action, n.cells, FALSE)))
  BY DEF PageWalk, PageState
<1>11. n.tag = "tr" /\ (~IsParam(n.cells) \/ tb = "") => PageWalk(action, at, n) = at
  BY <1>1 DEF PageWalk
<1>12. n.tag \notin {"h1", "h3", "p", "table", "tr"} => PageWalk(action, at, n) = at
  BY DEF PageWalk
<1> QED
  BY <1>2, <1>3, <1>4, <1>5, <1>6, <1>7, <1>8, <1>9, <1>10, <1>11, <1>12 DEF Walked

(* What it has at each element, told from the places of the elements.        *)
Titled(page, n) == \E j \in 1..n : page[j].tag = "h1"

TableAt(page, n) ==
  IF InTable(page, n, Wanted) THEN "request"
  ELSE IF InTable(page, n, Returned) THEN "response" ELSE ""

ParamsOf(action, page, withRequired) ==
  [i \in DOMAIN page |-> Param(action, page[i].cells, withRequired)]

ParamsTo(action, page, n, section, withRequired) ==
  ListOf(RowsTo(page, n, section), ParamsOf(action, page, withRequired))

PageAt(action, page, n) ==
  PageState(Titled(page, n), SectionAt(page, n + 1), TableAt(page, n), SummaryTo(page, n),
            ParamsTo(action, page, n, Wanted, TRUE), ParamsTo(action, page, n, Returned, FALSE))

LEMMA ParamsGrow ==
  ASSUME NEW action, NEW E, NEW page \in Seq(E), NEW n \in 1..Len(page), NEW section,
         NEW withRequired
  PROVE  /\ page[n].tag = "table" /\ SectionAt(page, n) = section =>
              ParamsTo(action, page, n, section, withRequired) = << >>
         /\ page[n].tag = "tr" /\ IsParam(page[n].cells) /\ InTable(page, n, section) =>
              ParamsTo(action, page, n, section, withRequired)
                = Append(ParamsTo(action, page, n - 1, section, withRequired),
                         Param(action, page[n].cells, withRequired))
         /\ ~(page[n].tag = "table" /\ SectionAt(page, n) = section)
              /\ ~(page[n].tag = "tr" /\ IsParam(page[n].cells) /\ InTable(page, n, section)) =>
              ParamsTo(action, page, n, section, withRequired)
                = ParamsTo(action, page, n - 1, section, withRequired)
<1> DEFINE m == n - 1
           before == RowsTo(page, m, section)
           now == RowsTo(page, n, section)
           params == ParamsOf(action, page, withRequired)
           opens == page[n].tag = "table" /\ SectionAt(page, n) = section
           isRow == page[n].tag = "tr" /\ IsParam(page[n].cells) /\ InTable(page, n, section)
<1>1. m \in Nat /\ m + 1 = n /\ n \in Nat \ {0} /\ n \in DOMAIN page
  OBVIOUS
<1>2. before \in SUBSET (1..m)
  BY DEF RowsTo
<1>3. /\ opens => now = {}
      /\ ~opens => IF isRow THEN now = before \cup {n} ELSE now = before
  BY <1>1, RowsGrow
<1>4. opens => ~isRow
  OBVIOUS
<1>5. params[n] = Param(action, page[n].cells, withRequired)
  BY <1>1 DEF ParamsOf
<1>6. /\ ParamsTo(action, page, n, section, withRequired) = ListOf(now, params)
      /\ ParamsTo(action, page, m, section, withRequired) = ListOf(before, params)
  BY DEF ParamsTo
<1> HIDE DEF m, before, now, params, opens, isRow
<1>7. ListOf(before \cup {m + 1}, params) = Append(ListOf(before, params), params[m + 1])
  BY <1>1, <1>2, ListOfMore
<1>8. opens => ListOf(now, params) = << >>
  BY <1>3, ListOfNone
<1>9. isRow => ListOf(now, params) = Append(ListOf(before, params), params[n])
  BY <1>1, <1>3, <1>4, <1>7
<1>10. ~opens /\ ~isRow => ListOf(now, params) = ListOf(before, params)
  BY <1>3
<1> QED
  BY <1>5, <1>6, <1>8, <1>9, <1>10 DEF m, opens, isRow

LEMMA SectionsDiffer == Wanted # Returned /\ Wanted # "" /\ Returned # ""
BY DEF Wanted, Returned

LEMMA TitledGrows ==
  ASSUME NEW page, NEW n \in Nat \ {0}
  PROVE  Titled(page, n) = (Titled(page, n - 1) \/ page[n].tag = "h1")
<1>1. \A t : t \in 1..n <=> t \in 1..(n - 1) \/ t = n
  OBVIOUS
<1> QED
  BY <1>1 DEF Titled

LEMMA TableAtGrows ==
  ASSUME NEW page, NEW n \in Nat \ {0}
  PROVE  /\ page[n].tag = "table" => /\ SectionAt(page, n) = Wanted => TableAt(page, n) = "request"
                                     /\ SectionAt(page, n) = Returned => TableAt(page, n) = "response"
                                     /\ SectionAt(page, n) \notin {Wanted, Returned} =>
                                          TableAt(page, n) = ""
         /\ page[n].tag # "table" => /\ TableAt(page, n) = TableAt(page, n - 1)
                                     /\ InTable(page, n, Wanted) <=> TableAt(page, n - 1) = "request"
                                     /\ InTable(page, n, Returned) <=> TableAt(page, n - 1) = "response"
         /\ TableAt(page, n - 1) \in {"request", "response", ""}
<1>1. \A s : page[n].tag = "table" => (InTable(page, n, s) <=> SectionAt(page, n) = s)
  BY TablesGrow
<1>2. \A s : page[n].tag # "table" => (InTable(page, n, s) <=> InTable(page, n - 1, s))
  BY TablesGrow
<1>3. ~(InTable(page, n, Wanted) /\ InTable(page, n, Returned))
  BY SectionsDiffer, OneTable
<1> QED
  BY <1>1, <1>2, <1>3, SectionsDiffer DEF TableAt

LEMMA PageWalks ==
  ASSUME NEW action, NEW E, NEW page \in Seq(E), NEW n \in 1..Len(page)
  PROVE  PageWalk(action, PageAt(action, page, n - 1), page[n]) = PageAt(action, page, n)
<1> DEFINE e == page[n]
           t == Titled(page, n - 1)
           s == SectionAt(page, n)
           tb == TableAt(page, n - 1)
           su == SummaryTo(page, n - 1)
           p == ParamsTo(action, page, n - 1, Wanted, TRUE)
           r == ParamsTo(action, page, n - 1, Returned, FALSE)
           tNow == Titled(page, n)
           sNow == SectionAt(page, n + 1)
           tbNow == TableAt(page, n)
           suNow == SummaryTo(page, n)
           pNow == ParamsTo(action, page, n, Wanted, TRUE)
           rNow == ParamsTo(action, page, n, Returned, FALSE)
           wanted == Param(action, e.cells, TRUE)
           returned == Param(action, e.cells, FALSE)
           at == PageAt(action, page, n - 1)
           next == PageAt(action, page, n)
           inWanted == InTable(page, n, Wanted)
           inReturned == InTable(page, n, Returned)
<1>1. n \in Nat \ {0} /\ (n - 1) + 1 = n
  OBVIOUS
<1>2. tNow = (t \/ e.tag = "h1") /\ t \in BOOLEAN
  <2>1. tNow = (t \/ e.tag = "h1")
    BY <1>1, TitledGrows
  <2>2. t \in BOOLEAN
    BY DEF Titled
  <2> QED
    BY <2>1, <2>2
<1>3. (e.tag = "h3" => sNow = SectionOf(e)) /\ (e.tag # "h3" => sNow = s)
  BY <1>1, HeadingsGrow
<1>4. /\ e.tag = "table" => /\ s = Wanted => tbNow = "request"
                            /\ s = Returned => tbNow = "response"
                            /\ s \notin {Wanted, Returned} => tbNow = ""
      /\ e.tag # "table" => /\ tbNow = tb
                            /\ inWanted <=> tb = "request"
                            /\ inReturned <=> tb = "response"
      /\ tb \in {"request", "response", ""}
  BY <1>1, TableAtGrows
<1>5. IF e.tag = "p" /\ s = "" /\ su = "" /\ t THEN suNow = e.text ELSE suNow = su
  BY <1>1, SummaryGrows DEF Titled
<1>6. /\ e.tag = "table" /\ s = Wanted => pNow = << >>
      /\ e.tag = "tr" /\ IsParam(e.cells) /\ inWanted => pNow = Append(p, wanted)
      /\ ~(e.tag = "table" /\ s = Wanted) /\ ~(e.tag = "tr" /\ IsParam(e.cells) /\ inWanted) =>
           pNow = p
  BY ParamsGrow
<1>7. /\ e.tag = "table" /\ s = Returned => rNow = << >>
      /\ e.tag = "tr" /\ IsParam(e.cells) /\ inReturned => rNow = Append(r, returned)
      /\ ~(e.tag = "table" /\ s = Returned) /\ ~(e.tag = "tr" /\ IsParam(e.cells) /\ inReturned) =>
           rNow = r
  BY ParamsGrow
<1>8. /\ at = PageState(t, s, tb, su, p, r)
      /\ next = PageState(tNow, sNow, tbNow, suNow, pNow, rNow)
  BY <1>1 DEF PageAt
<1> HIDE DEF e, t, s, tb, su, p, r, tNow, sNow, tbNow, suNow, pNow, rNow, wanted, returned, at, next,
             inWanted, inReturned
<1>9. Walked(action, at, e, t, s, tb, su, p, r)
  BY <1>2, <1>8, WalkState
<1>10. PageWalk(action, at, e) = next
  <2>1. CASE e.tag = "h1"
    <3>1. tNow = TRUE /\ sNow = s /\ tbNow = tb /\ suNow = su /\ pNow = p /\ rNow = r
      BY <1>2, <1>3, <1>4, <1>5, <1>6, <1>7, <2>1
    <3> QED
      BY <1>8, <1>9, <2>1, <3>1 DEF Walked, wanted, returned
  <2>2. CASE e.tag = "h3"
    <3>1. tNow = t /\ sNow = SectionOf(e) /\ tbNow = tb /\ suNow = su /\ pNow = p /\ rNow = r
      BY <1>2, <1>3, <1>4, <1>5, <1>6, <1>7, <2>2
    <3> QED
      BY <1>8, <1>9, <2>2, <3>1 DEF Walked, wanted, returned
  <2>3. CASE e.tag = "p"
    <3>1. tNow = t /\ sNow = s /\ tbNow = tb /\ pNow = p /\ rNow = r
      BY <1>2, <1>3, <1>4, <1>6, <1>7, <2>3
    <3>2. CASE t /\ s = "" /\ su = ""
      <4>1. suNow = e.text
        BY <1>5, <2>3, <3>2
      <4> QED
        BY <1>8, <1>9, <2>3, <3>1, <3>2, <4>1 DEF Walked, wanted, returned
    <3>3. CASE ~(t /\ s = "" /\ su = "")
      <4>1. suNow = su
        BY <1>5, <2>3, <3>3
      <4> QED
        BY <1>8, <1>9, <2>3, <3>1, <3>3, <4>1 DEF Walked, wanted, returned
    <3> QED
      BY <3>2, <3>3
  <2>4. CASE e.tag = "table"
    <3>1. tNow = t /\ sNow = s /\ suNow = su
      BY <1>2, <1>3, <1>5, <2>4
    <3>2. CASE s = Wanted
      <4>1. tbNow = "request" /\ pNow = << >> /\ rNow = r
        BY <1>4, <1>6, <1>7, <2>4, <3>2, SectionsDiffer
      <4> QED
        BY <1>8, <1>9, <2>4, <3>1, <3>2, <4>1 DEF Walked, wanted, returned
    <3>3. CASE s = Returned
      <4>1. tbNow = "response" /\ pNow = p /\ rNow = << >>
        BY <1>4, <1>6, <1>7, <2>4, <3>3, SectionsDiffer
      <4> QED
        BY <1>8, <1>9, <2>4, <3>1, <3>3, <4>1 DEF Walked, wanted, returned
    <3>4. CASE s # Wanted /\ s # Returned
      <4>1. tbNow = "" /\ pNow = p /\ rNow = r
        BY <1>4, <1>6, <1>7, <2>4, <3>4
      <4> QED
        BY <1>8, <1>9, <2>4, <3>1, <3>4, <4>1 DEF Walked, wanted, returned
    <3> QED
      BY <3>2, <3>3, <3>4
  <2>5. CASE e.tag = "tr"
    <3>1. tNow = t /\ sNow = s /\ suNow = su /\ tbNow = tb
      BY <1>2, <1>3, <1>4, <1>5, <2>5
    <3>2. CASE IsParam(e.cells) /\ tb = "request"
      <4>1. pNow = Append(p, wanted) /\ rNow = r
        BY <1>4, <1>6, <1>7, <2>5, <3>2
      <4> QED
        BY <1>8, <1>9, <2>5, <3>1, <3>2, <4>1 DEF Walked, wanted, returned
    <3>3. CASE IsParam(e.cells) /\ tb = "response"
      <4>1. pNow = p /\ rNow = Append(r, returned)
        BY <1>4, <1>6, <1>7, <2>5, <3>3
      <4> QED
        BY <1>8, <1>9, <2>5, <3>1, <3>3, <4>1 DEF Walked, wanted, returned
    <3>4. CASE ~IsParam(e.cells) \/ tb = ""
      <4>1. pNow = p /\ rNow = r
        BY <1>4, <1>6, <1>7, <2>5, <3>4
      <4> QED
        BY <1>8, <1>9, <2>5, <3>1, <3>4, <4>1 DEF Walked, wanted, returned
    <3> QED
      BY <1>4, <3>2, <3>3, <3>4
  <2>6. CASE e.tag \notin {"h1", "h3", "p", "table", "tr"}
    <3>1. tNow = t /\ sNow = s /\ tbNow = tb /\ suNow = su /\ pNow = p /\ rNow = r
      BY <1>2, <1>3, <1>4, <1>5, <1>6, <1>7, <2>6
    <3> QED
      BY <1>8, <1>9, <2>6, <3>1 DEF Walked, wanted, returned
  <2> QED
    BY <2>1, <2>2, <2>3, <2>4, <2>5, <2>6
<1> QED
  BY <1>10 DEF at, next, e

(* parseAction finds in a page what its reader finds there.                  *)
LEMMA ParsedIsRead ==
  ASSUME NEW action, NEW E, NEW page \in Seq(E)
  PROVE  /\ ParseAction(action, page).summary = SummaryOf(page)
         /\ ParseAction(action, page).params = ParamsUnder(action, page, Wanted, TRUE)
         /\ ParseAction(action, page).response = ParamsUnder(action, page, Returned, FALSE)
<1> DEFINE N == Len(page)
<1>1. PICK F : /\ F[0] = PageStart
               /\ \A n \in 1..N : F[n] = PageWalk(action, F[n - 1], page[n])
               /\ PageEnds(action, page, F[N])
  BY ParseActionWalks
<1>2. N \in Nat /\ DOMAIN page = 1..N
  OBVIOUS
<1>3. PageAt(action, page, 0) = PageStart
  <2>1. \A s : RowsTo(page, 0, s) = {}
    BY DEF RowsTo
  <2>2. /\ ParamsTo(action, page, 0, Wanted, TRUE) = << >>
        /\ ParamsTo(action, page, 0, Returned, FALSE) = << >>
    BY <2>1, ListOfNone DEF ParamsTo
  <2>3. TableAt(page, 0) = ""
    BY NoTableAboveFirst DEF TableAt
  <2>4. SummaryTo(page, 0) = ""
    <3>1. Paragraphs(page, 0) = {}
      BY DEF Paragraphs
    <3> QED
      BY <3>1 DEF SummaryTo
  <2>5. Titled(page, 0) = FALSE
    BY DEF Titled
  <2>6. SectionAt(page, 0 + 1) = ""
    <3>1. 0 + 1 = 1
      OBVIOUS
    <3> QED
      BY <3>1, NoHeadingAboveFirst
  <2> QED
    BY <2>2, <2>3, <2>4, <2>5, <2>6 DEF PageAt, PageStart, PageState
<1>4. \A n \in 1..N : PageWalk(action, PageAt(action, page, n - 1), page[n]) = PageAt(action, page, n)
  BY PageWalks
<1> HIDE DEF N
<1> DEFINE S == {n \in 0..N : F[n] = PageAt(action, page, n)}
<1>5. 0 \in S
  <2>1. F[0] = PageAt(action, page, 0)
    BY <1>1, <1>3, Zenon
  <2>2. 0 \in 0..N
    BY <1>2
  <2> QED
    BY <2>1, <2>2
<1>6. ASSUME NEW n \in 1..N, n - 1 \in S PROVE n \in S
  <2>1. F[n - 1] = PageAt(action, page, n - 1) /\ n \in 0..N
    BY <1>2, <1>6
  <2>2. F[n] = PageAt(action, page, n)
    BY <1>1, <1>4, <2>1
  <2> QED
    BY <2>1, <2>2
<1> HIDE DEF S
<1>7. \A n \in 0..N : n \in S
  BY <1>2, <1>5, <1>6, LoopInduction
<1>8. F[N] = PageAt(action, page, N)
  BY <1>2, <1>7 DEF S
<1>9. /\ F[N].summary = SummaryTo(page, N)
      /\ F[N].params = ParamsTo(action, page, N, Wanted, TRUE)
      /\ F[N].response = ParamsTo(action, page, N, Returned, FALSE)
  BY <1>8 DEF PageAt, PageState
<1>10. SummaryTo(page, N) = SummaryOf(page)
  BY <1>2, Zenon DEF SummaryTo, SummaryOf, Paragraphs
<1>11. ASSUME NEW section, NEW withRequired
       PROVE  ParamsTo(action, page, N, section, withRequired)
                = ParamsUnder(action, page, section, withRequired)
  <2> DEFINE rows == RowsUnder(page, section)
             c == Cardinality(rows)
  <2>1. RowsTo(page, N, section) = rows
    BY <1>2, Zenon DEF RowsTo, RowsUnder
  <2>2. rows \in SUBSET (1..N)
    BY <1>2 DEF RowsUnder
  <2>3. \A k \in 1..c : Nth(rows, k) \in DOMAIN page
    <3> HIDE DEF rows
    <3>1. Enumerated(rows)
      BY <1>2, <2>2, NthEnumerates
    <3> QED
      BY <1>2, <2>2, <3>1 DEF Enumerated
  <2>4. ParamsUnder(action, page, section, withRequired)
          = [k \in 1..c |-> Param(action, page[Nth(rows, k)].cells, withRequired)]
    BY DEF ParamsUnder
  <2>5. ListOf(rows, ParamsOf(action, page, withRequired))
          = [k \in 1..c |-> Param(action, page[Nth(rows, k)].cells, withRequired)]
    <3> HIDE DEF rows
    <3> QED
      BY <2>3 DEF ListOf, ParamsOf
  <2> QED
    BY <2>1, <2>4, <2>5 DEF ParamsTo
<1>12. /\ ParseAction(action, page).summary = F[N].summary
       /\ ParseAction(action, page).params = F[N].params
       /\ ParseAction(action, page).response = F[N].response
  BY <1>1 DEF PageEnds
<1> QED
  BY <1>9, <1>10, <1>11, <1>12

(***************************************************************************)
(* The file.                                                               *)
(***************************************************************************)

(* A record takes a place among the others.                                  *)
LEMMA InsertTyped ==
  ASSUME NEW E, NEW out \in Seq(E), NEW a \in E
  PROVE  Insert(out, a) \in Seq(E)
<1> DEFINE before == {i \in DOMAIN out : Before(out[i], a)}
           k == Cardinality(before)
<1>1. Len(out) \in Nat /\ DOMAIN out = 1..Len(out)
  OBVIOUS
<1>2. k \in Nat /\ k <= Len(out)
  <2>1. before \subseteq 1..Len(out)
    BY <1>1
  <2>2. IsFiniteSet(1..Len(out)) /\ Cardinality(1..Len(out)) = Len(out)
    BY <1>1, FS_Interval
  <2> HIDE DEF before
  <2> QED
    BY <2>1, <2>2, FS_Subset, FS_CardinalityType
<1> HIDE DEF k
<1>3. SubSeq(out, 1, (k + 1) - 1) \in Seq(E) /\ SubSeq(out, k + 1, Len(out)) \in Seq(E)
  BY <1>1, <1>2
<1>4. <<a>> \in Seq(E)
  OBVIOUS
<1>5. SubSeq(out, 1, (k + 1) - 1) \o <<a>> \o SubSeq(out, k + 1, Len(out)) \in Seq(E)
  BY <1>3, <1>4
<1>6. Insert(out, a) = SubSeq(out, 1, (k + 1) - 1) \o <<a>> \o SubSeq(out, k + 1, Len(out))
  BY DEF Insert, InsertAt, k
<1> QED
  BY <1>5, <1>6

(* emit puts the records in their places one by one.                         *)
LEMMA EmitInserts ==
  ASSUME NEW E, NEW es \in Seq(E)
  PROVE  \E F : /\ F[0] = << >>
                /\ \A n \in 1..Len(es) : F[n] = Insert(F[n - 1], es[n])
                /\ Emit(es) = F[Len(es)]
<1> DEFINE N == Len(es)
           A == Seq(E)
           step == [x \in (1..N) \X A |-> Insert(x[2], es[x[1]])]
           Rhs(g) == [s \in SUBSET DOMAIN es |->
                        IF s = {} THEN << >> ELSE Insert(g[s \ {Max(s)}], es[Max(s)])]
           G == CHOOSE g : g = Rhs(g)
<1>1. N \in Nat /\ DOMAIN es = 1..N
  OBVIOUS
<1>2. << >> \in A
  OBVIOUS
<1>3. ASSUME NEW i \in 1..N, NEW out \in A PROVE Insert(out, es[i]) \in A
  <2>1. es[i] \in E
    BY <1>1
  <2> QED
    BY <2>1, InsertTyped
<1>4. PICK g \in [SUBSET (1..N) -> A] : IsFold(g, N, << >>, step)
  <2>1. N \in Nat
    BY <1>1
  <2>2. step \in [(1..N) \X A -> A]
    BY <1>3
  <2> HIDE DEF step, A, N
  <2> QED
    BY <1>2, <2>1, <2>2, FoldExists
<1>5. g = Rhs(g)
  <2>1. ASSUME NEW s \in SUBSET (1..N), s # {}
        PROVE  step[<<Max(s), g[s \ {Max(s)}]>>] = Insert(g[s \ {Max(s)}], es[Max(s)])
    <3>0. N \in Nat /\ s \subseteq 0..N
      BY <1>1, <2>1
    <3>1. Max(s) \in 1..N
      BY <2>1, <3>0, MaxOfPlaces
    <3>2. g[s \ {Max(s)}] \in A
      BY <2>1
    <3> HIDE DEF A
    <3> QED
      BY <3>1, <3>2
  <2>2. \A s \in SUBSET (1..N) :
          g[s] = IF s = {} THEN << >> ELSE Insert(g[s \ {Max(s)}], es[Max(s)])
    <3> HIDE DEF A, step, N
    <3> QED
      BY <1>4, <2>1 DEF IsFold
  <2> HIDE DEF A, step, N
  <2> QED
    BY <1>1, <2>2
<1>6. G = Rhs(G)
  <2> HIDE DEF Rhs
  <2> QED
    BY <1>5
<1>7. Emit(es) = G[DOMAIN es]
  BY DEF Emit, FoldLeft, MapThenFoldSet
<1> HIDE DEF G, A, N
<1>8. /\ G[{}] = << >>
      /\ \A s \in SUBSET (1..N) : s # {} => G[s] = Insert(G[s \ {Max(s)}], es[Max(s)])
  <2>1. G = [s \in SUBSET (1..N) |->
               IF s = {} THEN << >> ELSE Insert(G[s \ {Max(s)}], es[Max(s)])]
    BY <1>1, <1>6
  <2> QED
    BY <2>1
<1> DEFINE F == [n \in 0..N |-> G[1..n]]
<1>9. F[0] = << >>
  BY <1>1, <1>8, LastOfPrefix
<1>10. ASSUME NEW n \in 1..N PROVE F[n] = Insert(F[n - 1], es[n])
  <2>1. n \in Nat /\ n > 0 /\ 1..n \in SUBSET (1..N) /\ n - 1 \in 0..N /\ n \in 0..N
    BY <1>1
  <2>2. G[1..n] = Insert(G[1..(n - 1)], es[n])
    BY <1>8, <2>1, LastOfPrefix
  <2> QED
    BY <2>1, <2>2
<1>11. Emit(es) = F[N]
  BY <1>1, <1>7
<1> QED
  BY <1>9, <1>10, <1>11 DEF N

(* What is written is what was collected.                                    *)
LEMMA EmitTyped ==
  ASSUME NEW E, NEW es \in Seq(E)
  PROVE  Emit(es) \in Seq(E)
<1> DEFINE N == Len(es)
<1>1. PICK F : /\ F[0] = << >>
               /\ \A n \in 1..N : F[n] = Insert(F[n - 1], es[n])
               /\ Emit(es) = F[N]
  BY EmitInserts
<1>2. N \in Nat /\ \A n \in 1..N : es[n] \in E
  OBVIOUS
<1> HIDE DEF N
<1> DEFINE S == {n \in 0..N : F[n] \in Seq(E)}
<1>3. 0 \in S
  <2>1. << >> \in Seq(E) /\ 0 \in 0..N
    BY <1>2
  <2>2. F[0] \in Seq(E)
    BY <1>1, <2>1, Zenon
  <2> QED
    BY <2>1, <2>2
<1>4. ASSUME NEW n \in 1..N, n - 1 \in S PROVE n \in S
  <2>1. F[n - 1] \in Seq(E) /\ F[n] = Insert(F[n - 1], es[n]) /\ es[n] \in E
    BY <1>1, <1>2, <1>4
  <2>2. F[n] \in Seq(E)
    BY <2>1, InsertTyped
  <2> QED
    BY <1>2, <2>2
<1> HIDE DEF S
<1>5. \A n \in 0..N : n \in S
  BY <1>2, <1>3, <1>4, LoopInduction
<1> QED
  BY <1>1, <1>2, <1>5 DEF S

(* Strings have an order, so records of different names do.                  *)
Ranked(a) == a.category \in DOMAIN Rank /\ a.name \in DOMAIN Rank

LEMMA BeforeOrders ==
  ASSUME NEW a, NEW b, Ranked(a), Ranked(b)
  PROVE  /\ Before(a, b) <=> Precedes(a, b)
         /\ a.name # b.name => Before(a, b) \/ Before(b, a)
         /\ ~(Before(a, b) /\ Before(b, a))
<1>1. /\ \A r \in DOMAIN Rank : Rank[r] \in Int
      /\ \A r, s \in DOMAIN Rank : Rank[r] = Rank[s] => r = s
  BY DocgenAssumption
<1>2. /\ a.category \in DOMAIN Rank /\ a.name \in DOMAIN Rank
      /\ b.category \in DOMAIN Rank /\ b.name \in DOMAIN Rank
  BY DEF Ranked
<1>3. /\ Rank[a.category] \in Int /\ Rank[b.category] \in Int
      /\ Rank[a.name] \in Int /\ Rank[b.name] \in Int
  BY <1>1, <1>2
<1>4. Rank[a.category] = Rank[b.category] <=> a.category = b.category
  BY <1>1, <1>2
<1>5. a.name # b.name => Rank[a.name] # Rank[b.name]
  BY <1>1, <1>2
<1> QED
  BY <1>3, <1>4, <1>5 DEF Before, Precedes

LEMMA BeforeIsTransitive ==
  ASSUME NEW a, NEW b, NEW c, Ranked(a), Ranked(b), Ranked(c), Before(a, b), Before(b, c)
  PROVE  Before(a, c)
<1>1. \A r \in DOMAIN Rank : Rank[r] \in Int
  BY DocgenAssumption
<1>2. /\ Rank[a.category] \in Int /\ Rank[b.category] \in Int /\ Rank[c.category] \in Int
      /\ Rank[a.name] \in Int /\ Rank[b.name] \in Int /\ Rank[c.name] \in Int
  BY <1>1 DEF Ranked
<1> QED
  BY <1>2 DEF Before

InOrder(list) == \A i, j \in 1..Len(list) : i < j => Before(list[i], list[j])

(* Where the elements of a sequence are when another is put after it.        *)
LEMMA ConcatPlaces ==
  ASSUME NEW E, NEW s \in Seq(E), NEW t \in Seq(E)
  PROVE  /\ s \o t \in Seq(E) /\ Len(s \o t) = Len(s) + Len(t)
         /\ \A i \in 1..Len(s) : (s \o t)[i] = s[i]
         /\ \A i \in 1..Len(t) : (s \o t)[Len(s) + i] = t[i]
<1>1. s \o t \in Seq(E) /\ Len(s \o t) = Len(s) + Len(t)
  OBVIOUS
<1>2. \A i \in 1..Len(s) : (s \o t)[i] = s[i]
  OBVIOUS
<1>3. \A i \in 1..Len(t) : (s \o t)[Len(s) + i] = t[i]
  OBVIOUS
<1> QED
  BY <1>1, <1>2, <1>3

LEMMA InsertKeeps ==
  ASSUME NEW E, \A b \in E : Ranked(b), NEW out \in Seq(E), InOrder(out), NEW a \in E,
         \A i \in 1..Len(out) : out[i].name # a.name
  PROVE  InOrder(Insert(out, a)) /\ Range(Insert(out, a)) = Range(out) \cup {a}
<1> DEFINE N == Len(out)
           before == {i \in DOMAIN out : Before(out[i], a)}
           k == Cardinality(before)
           new == Insert(out, a)
<1>1. N \in Nat /\ DOMAIN out = 1..N /\ (\A i \in 1..N : out[i] \in E) /\ Ranked(a)
  OBVIOUS
<1>2. before = 1..k /\ k \in 0..N
  <2>1. before \in SUBSET (1..N)
    BY <1>1
  <2>2. ASSUME NEW i \in before, NEW j \in 1..N, j < i PROVE j \in before
    <3>1. Before(out[j], out[i]) /\ Before(out[i], a)
      BY <1>1, <2>2 DEF InOrder
    <3>2. Ranked(out[i]) /\ Ranked(out[j])
      BY <1>1
    <3>3. Before(out[j], a)
      BY <1>1, <3>1, <3>2, BeforeIsTransitive
    <3> QED
      BY <1>1, <3>3
  <2> HIDE DEF before, N
  <2> QED
    BY <1>1, <2>1, <2>2, FirstPlaces
<1>3. /\ \A i \in 1..N : i <= k => Before(out[i], a)
      /\ \A i \in 1..N : k < i => Before(a, out[i])
  <2>1. \A i \in 1..N : i <= k => i \in before
    <3> HIDE DEF before, k
    <3> QED
      BY <1>2
  <2>2. \A i \in 1..N : k < i => i \notin before
    <3> HIDE DEF before, k
    <3> QED
      BY <1>1, <1>2
  <2>3. ASSUME NEW i \in 1..N, ~Before(out[i], a) PROVE Before(a, out[i])
    <3>1. Ranked(out[i]) /\ out[i].name # a.name
      BY <1>1
    <3> QED
      BY <1>1, <2>3, <3>1, BeforeOrders
  <2> HIDE DEF k, N
  <2> QED
    BY <1>1, <2>1, <2>2, <2>3
<1>4. /\ Len(new) = N + 1 /\ DOMAIN new = 1..(N + 1)
      /\ \A i \in 1..N : i <= k => new[i] = out[i]
      /\ new[k + 1] = a
      /\ \A i \in 1..N : k < i => new[i + 1] = out[i]
  <2>1. new = SubSeq(out, 1, (k + 1) - 1) \o <<a>> \o SubSeq(out, k + 1, N)
    BY DEF Insert, InsertAt
  <2>2. (k + 1) - 1 = k
    BY <1>1, <1>2
  <2> DEFINE left == SubSeq(out, 1, k)
             right == SubSeq(out, k + 1, N)
  <2> HIDE DEF k, N, new
  <2>3. /\ left \in Seq(E) /\ Len(left) = k
        /\ \A i \in 1..k : left[i] = out[i]
    BY <1>1, <1>2 DEF N
  <2>4. /\ right \in Seq(E) /\ Len(right) = N - k
        /\ \A i \in 1..(N - k) : right[i] = out[k + i]
    <3> DEFINE l == k + 1
    <3>1. l \in Nat /\ l >= 1 /\ N - l + 1 = N - k /\ N - k \in Nat
      BY <1>1, <1>2
    <3>2. right = SubSeq(out, l, N)
      OBVIOUS
    <3> HIDE DEF l, right
    <3>3. right \in Seq(E) /\ Len(right) = N - k
      BY <1>1, <3>1, <3>2 DEF N
    <3>4. ASSUME NEW i \in 1..(N - k) PROVE right[i] = out[k + i]
      <4>1. i \in 1..(N - l + 1)
        BY <3>1
      <4>2. right[i] = out[l + i - 1]
        BY <1>1, <3>1, <3>2, <4>1 DEF N
      <4>3. l + i - 1 = k + i
        BY <1>2 DEF l
      <4> QED
        BY <4>2, <4>3
    <3> QED
      BY <3>3, <3>4
  <2>5. new = left \o <<a>> \o right
    BY <2>1, <2>2
  <2> HIDE DEF left, right
  <2>6. <<a>> \in Seq(E) /\ Len(<<a>>) = 1 /\ <<a>>[1] = a
    OBVIOUS
  <2> DEFINE most == left \o <<a>>
  <2>7. /\ most \in Seq(E) /\ Len(most) = k + 1 /\ most[k + 1] = a
        /\ \A i \in 1..k : most[i] = left[i]
    BY <1>1, <1>2, <2>3, <2>6
  <2>8. new = most \o right
    BY <2>5
  <2> HIDE DEF most
  <2>9. /\ Len(new) = N + 1 /\ DOMAIN new = 1..(N + 1)
        /\ \A i \in 1..(k + 1) : new[i] = most[i]
        /\ \A i \in 1..(N - k) : new[(k + 1) + i] = right[i]
    <3>1. /\ new \in Seq(E) /\ Len(new) = (k + 1) + (N - k)
          /\ \A i \in 1..(k + 1) : new[i] = most[i]
          /\ \A i \in 1..(N - k) : new[(k + 1) + i] = right[i]
      BY <2>4, <2>7, <2>8, ConcatPlaces
    <3>2. (k + 1) + (N - k) = N + 1
      BY <1>1, <1>2
    <3> QED
      BY <3>1, <3>2
  <2>10. ASSUME NEW i \in 1..N, i <= k PROVE new[i] = out[i]
    <3>1. i \in 1..k /\ i \in 1..(k + 1)
      BY <1>1, <1>2, <2>10
    <3> QED
      BY <2>3, <2>7, <2>9, <3>1
  <2>11. new[k + 1] = a
    <3>1. k + 1 \in 1..(k + 1)
      BY <1>2
    <3> QED
      BY <2>7, <2>9, <3>1
  <2>12. ASSUME NEW i \in 1..N, k < i PROVE new[i + 1] = out[i]
    <3> DEFINE j == i - k
    <3>1. j \in 1..(N - k) /\ (k + 1) + j = i + 1 /\ k + j = i
      BY <1>1, <1>2, <2>12
    <3> HIDE DEF j
    <3> QED
      BY <2>4, <2>9, <3>1
  <2> QED
    BY <2>9, <2>10, <2>11, <2>12
<1>5. \A x \in 1..(N + 1) : \/ x \in 1..N /\ x <= k
                            \/ x = k + 1
                            \/ \E i \in 1..N : k < i /\ x = i + 1
  <2> HIDE DEF N, k
  <2>1. ASSUME NEW x \in 1..(N + 1), k + 1 < x PROVE \E i \in 1..N : k < i /\ x = i + 1
    <3>1. x - 1 \in 1..N /\ k < x - 1 /\ x = (x - 1) + 1
      BY <1>1, <1>2, <2>1
    <3> QED
      BY <3>1
  <2> QED
    BY <1>1, <1>2, <2>1
<1> HIDE DEF N, k, new, before
<1>6. InOrder(new)
  <2> SUFFICES ASSUME NEW x \in 1..(N + 1), NEW y \in 1..(N + 1), x < y
               PROVE  Before(new[x], new[y])
    BY <1>4 DEF InOrder
  <2>1. \A i, j \in 1..N : i < j => Before(out[i], out[j])
    BY DEF InOrder, N
  <2>2. CASE x \in 1..N /\ x <= k
    <3>1. new[x] = out[x] /\ Before(out[x], a)
      BY <1>3, <1>4, <2>2
    <3>2. CASE y \in 1..N /\ y <= k
      BY <1>4, <2>1, <3>1, <3>2, <2>2
    <3>3. CASE y = k + 1
      BY <1>4, <3>1, <3>3
    <3>4. CASE \E j \in 1..N : k < j /\ y = j + 1
      <4>1. PICK j \in 1..N : k < j /\ y = j + 1
        BY <3>4
      <4>2. x < j
        BY <1>1, <1>2, <2>2, <4>1
      <4> QED
        BY <1>4, <2>1, <2>2, <3>1, <4>1, <4>2
    <3> QED
      BY <1>5, <3>2, <3>3, <3>4
  <2>3. CASE x = k + 1
    <3>1. PICK j \in 1..N : k < j /\ y = j + 1
      BY <1>1, <1>2, <1>5, <2>3
    <3> QED
      BY <1>3, <1>4, <2>3, <3>1
  <2>4. CASE \E i \in 1..N : k < i /\ x = i + 1
    <3>1. PICK i \in 1..N : k < i /\ x = i + 1
      BY <2>4
    <3>2. PICK j \in 1..N : k < j /\ y = j + 1
      BY <1>1, <1>2, <1>5, <3>1
    <3>3. i < j
      BY <3>1, <3>2
    <3> QED
      BY <1>4, <2>1, <3>1, <3>2, <3>3
  <2> QED
    BY <1>5, <2>2, <2>3, <2>4
<1>7. Range(new) = Range(out) \cup {a}
  <2>1. ASSUME NEW x \in 1..(N + 1) PROVE new[x] = a \/ \E i \in 1..N : new[x] = out[i]
    BY <1>4, <1>5
  <2>2. \E x \in 1..(N + 1) : new[x] = a
    <3>1. k + 1 \in 1..(N + 1)
      BY <1>1, <1>2
    <3> QED
      BY <1>4, <3>1
  <2>3. ASSUME NEW i \in 1..N PROVE \E x \in 1..(N + 1) : new[x] = out[i]
    <3>1. i \in 1..(N + 1) /\ i + 1 \in 1..(N + 1) /\ (i <= k \/ k < i)
      BY <1>1, <1>2
    <3> QED
      BY <1>4, <3>1
  <2>4. Range(new) = {new[x] : x \in 1..(N + 1)} /\ Range(out) = {out[i] : i \in 1..N}
    BY <1>1, <1>4 DEF Range
  <2> QED
    BY <2>1, <2>2, <2>3, <2>4
<1> QED
  BY <1>6, <1>7 DEF new

(* What is written is what was collected, in order.                          *)
LEMMA EmitSorts ==
  ASSUME NEW E, \A b \in E : Ranked(b), NEW es \in Seq(E),
         \A i, j \in 1..Len(es) : es[i].name = es[j].name => i = j
  PROVE  InOrder(Emit(es)) /\ Range(Emit(es)) = Range(es)
<1> DEFINE N == Len(es)
           Taken(n) == {es[i] : i \in 1..n}
           Sorts(out, n) == out \in Seq(E) /\ InOrder(out) /\ Range(out) = Taken(n)
<1>1. PICK F : /\ F[0] = << >>
               /\ \A n \in 1..N : F[n] = Insert(F[n - 1], es[n])
               /\ Emit(es) = F[N]
  BY EmitInserts
<1>2. N \in Nat /\ DOMAIN es = 1..N /\ \A n \in 1..N : es[n] \in E
  OBVIOUS
<1>3. \A i, j \in 1..N : es[i].name = es[j].name => i = j
  OBVIOUS
<1> HIDE DEF N
<1>4. Sorts(<< >>, 0)
  <2>1. 1..0 = {} /\ << >> \in Seq(E) /\ Range(<< >>) = {} /\ Len(<< >>) = 0
    BY DEF Range
  <2> QED
    BY <2>1 DEF InOrder
<1>5. ASSUME NEW n \in 1..N, NEW out, Sorts(out, n - 1) PROVE Sorts(Insert(out, es[n]), n)
  <2> DEFINE a == es[n]
  <2>1. a \in E /\ out \in Seq(E) /\ InOrder(out) /\ Range(out) = Taken(n - 1)
    BY <1>2, <1>5
  <2>2. ASSUME NEW i \in 1..Len(out) PROVE out[i].name # a.name
    <3>1. out[i] \in Range(out)
      BY <2>1 DEF Range
    <3>2. PICK j \in 1..(n - 1) : out[i] = es[j]
      BY <2>1, <3>1
    <3>3. j \in 1..N /\ j # n
      BY <1>2
    <3> QED
      BY <1>3, <3>2, <3>3
  <2>3. Taken(n) = Taken(n - 1) \cup {a}
    <3>1. \A i : i \in 1..n <=> i \in 1..(n - 1) \/ i = n
      BY <1>2
    <3> QED
      BY <3>1
  <2> HIDE DEF Taken, a
  <2>4. InOrder(Insert(out, a)) /\ Range(Insert(out, a)) = Range(out) \cup {a}
    BY <2>1, <2>2, InsertKeeps
  <2>5. Insert(out, a) \in Seq(E)
    BY <2>1, InsertTyped
  <2>6. Sorts(Insert(out, a), n)
    BY <2>1, <2>3, <2>4, <2>5
  <2> QED
    BY <2>6 DEF a
<1> HIDE DEF Sorts
<1> DEFINE S == {n \in 0..N : Sorts(F[n], n)}
<1>6. 0 \in S
  <2>1. Sorts(F[0], 0)
    BY <1>1, <1>4, Zenon
  <2>2. 0 \in 0..N
    BY <1>2
  <2> QED
    BY <2>1, <2>2
<1>7. ASSUME NEW n \in 1..N, n - 1 \in S PROVE n \in S
  <2>1. Sorts(F[n - 1], n - 1) /\ F[n] = Insert(F[n - 1], es[n]) /\ n \in 0..N
    BY <1>1, <1>2, <1>7
  <2> QED
    BY <1>5, <2>1
<1> HIDE DEF S
<1>8. \A n \in 0..N : n \in S
  BY <1>2, <1>6, <1>7, LoopInduction
<1>9. Sorts(F[N], N)
  BY <1>2, <1>8 DEF S
<1>10. Taken(N) = Range(es)
  BY <1>2 DEF Range
<1> QED
  BY <1>1, <1>9, <1>10 DEF Sorts

(***************************************************************************)
(* The goroutines.                                                         *)
(***************************************************************************)

(* What hangs on the entries and what was collected of them.                 *)
LEMMA Frame ==
  ASSUME UNCHANGED <<site, entries, fed, actions>>
  PROVE  /\ Gathered' = Gathered
         /\ \A n : RecordOf(n)' = RecordOf(n)
         /\ IndexEntries' = IndexEntries
BY DEF Gathered, RecordOf, IndexEntries, Site

LEMMA NamedAfterEntry ==
  ASSUME NEW n
  PROVE  RecordOf(n).name = entries[n].name
BY DEF RecordOf, Action

LEMMA DocgenInit == Init => DocgenInv
<1> SUFFICES ASSUME Init PROVE DocgenInv
  OBVIOUS
<1>1. /\ entries = << >> /\ actions = << >> /\ fed = 0 /\ failed = {} /\ errors = {}
      /\ Len(entries) = 0 /\ Len(actions) = 0 /\ DOMAIN actions = 1..0 /\ Range(actions) = {}
  BY DEF Init, Range
<1>2. InHand = {} /\ Gathered = {}
  BY <1>1 DEF Init, InHand, Gathered
<1>3. TypeOK
  <2>1. committed.kind \in {"absent", "source"} /\ file = committed
    BY DEF Init
  <2>2. file.kind \in {"absent", "source", "broken"}
    BY <2>1
  <2>3. /\ deadline \in BOOLEAN /\ feeder \in {"idle", "feeding", "closed"}
        /\ results \in {"open", "closed"}
        /\ main \in {"index", "collect", "verify", "emit"} \cup Ends
    BY DEF Init
  <2>4. fed \in 0..Len(entries) /\ failed \subseteq 1..fed /\ errors \subseteq failed
    BY <1>1
  <2>5. worker \in [Workers -> {"receive", "fetch", "send", "pause", "exited"}]
    BY DEF Init
  <2>6. holds \in [Workers -> 0..fed]
    BY <1>1 DEF Init
  <2>7. \A w \in Workers : record[w] = NoRecord
    BY DEF Init
  <2> QED
    BY <2>2, <2>3, <2>4, <2>5, <2>6, <2>7 DEF TypeOK
<1>4. InOneHand
  BY <1>1, <1>2, FS_EmptySet DEF InOneHand
<1>5. EntriesDiffer /\ OneHolder
  BY <1>1, <1>2 DEF Init, EntriesDiffer, OneHolder
<1>6. RecordsAreTrue /\ AtTheEnd
  BY <1>1, <1>2 DEF Init, RecordsAreTrue, AtTheEnd
<1>7. NoneLost
  BY <1>1, <1>2 DEF Init, NoneLost
<1> QED
  BY <1>3, <1>4, <1>5, <1>6, <1>7 DEF DocgenInv

LEMMA ReadIndexKeeps == DocgenInv /\ site \in Sites /\ ReadIndex => DocgenInv'
<1> SUFFICES ASSUME DocgenInv, site \in Sites, ReadIndex PROVE DocgenInv'
  OBVIOUS
<1> USE DEF DocgenInv
<1>1. /\ main = "index" /\ main' = "collect" /\ entries' = IndexEntries /\ feeder' = "feeding"
      /\ UNCHANGED <<site, classified, check, committed, file, deadline, fed, worker, holds, record,
                     failed, results, actions, errors>>
  BY DEF ReadIndex, setting
<1>2. fed = 0 /\ failed = {} /\ errors = {} /\ 1..fed = {} /\ 1..fed' = {}
  BY <1>1 DEF EntriesDiffer, TypeOK
<1>3. Range(actions) = {}
  BY <1>2 DEF RecordsAreTrue
<1>4. InHand = {}
  <2> SUFFICES ASSUME NEW w \in InHand PROVE FALSE
    OBVIOUS
  <2>1. holds[w] # 0 /\ holds[w] \in 0..fed
    BY DEF OneHolder, TypeOK, InHand
  <2> QED
    BY <1>2, <2>1
<1>5. Gathered = {} /\ Gathered' = {} /\ InHand' = {}
  BY <1>1, <1>2, <1>4 DEF Gathered, InHand
<1>6. /\ Len(entries') \in Nat
      /\ \A i, j \in 1..Len(entries') :
           ToLower(entries'[i].name) = ToLower(entries'[j].name) => i = j
      /\ IndexEntries' = IndexEntries
  BY <1>1, IndexEntriesDiffer DEF IndexEntries, Site
<1>7. TypeOK'
  BY <1>1, <1>2, <1>6 DEF TypeOK, Ends
<1>8. EntriesDiffer' /\ OneHolder'
  <2>1. entries' # << >>
    BY DEF ReadIndex
  <2> QED
    BY <1>1, <1>2, <1>5, <1>6, <2>1 DEF EntriesDiffer, OneHolder
<1>9. InOneHand'
  BY <1>1, <1>5 DEF InOneHand
<1>10. RecordsAreTrue'
  <2>1. \A w \in Workers : worker[w] # "send"
    BY <1>4 DEF InHand
  <2> QED
    BY <1>1, <1>2, <1>3, <1>5, <2>1 DEF RecordsAreTrue
<1>11. AtTheEnd'
  BY <1>1 DEF AtTheEnd
<1>12. NoneLost'
  <2>1. ~deadline => \A w \in Workers : worker[w] # "exited"
    BY <1>1 DEF NoneLost, EntriesDiffer
  <2> QED
    BY <1>1, <1>2, <1>5, <2>1 DEF NoneLost
<1> QED
  BY <1>7, <1>8, <1>9, <1>10, <1>11, <1>12

(* jobs <- e meets a worker's receive: the entry is a new one.               *)
LEMMA FeedKeeps == ASSUME NEW w \in Workers PROVE DocgenInv /\ Feed(w) => DocgenInv'
<1> SUFFICES ASSUME DocgenInv, Feed(w) PROVE DocgenInv'
  OBVIOUS
<1> USE DEF DocgenInv
<1>1. /\ feeder = "feeding" /\ fed < Len(entries) /\ worker[w] = "receive" /\ fed' = fed + 1
      /\ holds' = [holds EXCEPT ![w] = fed + 1] /\ worker' = [worker EXCEPT ![w] = "fetch"]
      /\ UNCHANGED <<site, classified, check, committed, file, deadline, entries, feeder, record,
                     failed, results, actions, errors, main>>
  BY DEF Feed, Become, setting
<1>2. /\ fed \in Nat /\ Len(entries) \in Nat /\ fed + 1 \in 1..Len(entries)
      /\ 1..(fed + 1) = (1..fed) \cup {fed + 1} /\ 1..fed \subseteq 1..Len(entries)
      /\ failed \subseteq 1..fed /\ errors \subseteq failed /\ fed + 1 \notin 1..fed
      /\ holds \in [Workers -> 0..fed]
  BY <1>1 DEF TypeOK, EntriesDiffer
<1>3. /\ holds'[w] = fed + 1 /\ worker'[w] = "fetch"
      /\ \A v \in Workers : v # w => holds'[v] = holds[v] /\ worker'[v] = worker[v]
  BY <1>1 DEF TypeOK
<1>4. InHand' = InHand \cup {w} /\ w \notin InHand
  BY <1>1, <1>3 DEF InHand
<1>5. /\ \A n : RecordOf(n)' = RecordOf(n)
      /\ IndexEntries' = IndexEntries
  BY <1>1 DEF RecordOf, IndexEntries, Site
<1>6. Gathered' = Gathered /\ Gathered \subseteq 1..fed
  <2>1. ASSUME NEW a \in Range(actions) PROVE a.name # entries[fed + 1].name
    <3>1. PICK n \in 1..fed : a = RecordOf(n)
      BY DEF RecordsAreTrue
    <3>2. a.name = entries[n].name
      BY <3>1, NamedAfterEntry
    <3> QED
      BY <1>2, <3>2 DEF EntriesDiffer
  <2> QED
    BY <1>1, <1>2, <2>1 DEF Gathered
<1>7. TypeOK'
  <2>1. \A v \in Workers : record[v] # NoRecord => worker[v] \in {"send", "exited"}
    BY DEF TypeOK
  <2>2. record[w] = NoRecord
    BY <1>1, <2>1
  <2>3. holds' \in [Workers -> 0..fed']
    BY <1>1, <1>2
  <2>4. fed' \in 0..Len(entries') /\ failed' \subseteq 1..fed'
    BY <1>1, <1>2
  <2> QED
    BY <1>1, <1>3, <2>2, <2>3, <2>4 DEF TypeOK
<1>8. EntriesDiffer'
  BY <1>1, <1>5 DEF EntriesDiffer
<1>9. OneHolder'
  <2>1. \A v \in Workers : holds[v] # fed + 1
    BY <1>2
  <2> QED
    BY <1>1, <1>2, <1>3, <1>4, <2>1 DEF OneHolder
<1>10. InOneHand'
  <2>1. \A v \in InHand : holds'[v] = holds[v] /\ holds[v] \in 0..fed
    BY <1>2, <1>3, <1>4 DEF InHand
  <2> QED
    BY <1>1, <1>2, <1>3, <1>4, <1>6, <2>1 DEF InOneHand
<1>11. RecordsAreTrue'
  <2>1. \A v \in Workers : worker'[v] = "send" => worker[v] = "send" /\ holds'[v] = holds[v]
    BY <1>3
  <2> QED
    BY <1>1, <1>2, <1>5, <1>6, <2>1 DEF RecordsAreTrue
<1>12. AtTheEnd'
  <2>1. results # "closed"
    BY <1>1 DEF AtTheEnd
  <2> QED
    BY <1>1, <2>1 DEF AtTheEnd
<1>13. NoneLost'
  <2>1. {holds'[v] : v \in InHand'} = {holds[v] : v \in InHand} \cup {fed + 1}
    <3>1. \A v \in InHand : holds'[v] = holds[v]
      BY <1>3, <1>4 DEF InHand
    <3> QED
      BY <1>3, <1>4, <3>1
  <2>2. \A v \in Workers : worker'[v] = "exited" => worker[v] = "exited"
    BY <1>3
  <2> QED
    BY <1>1, <1>2, <1>6, <2>1, <2>2 DEF NoneLost
<1> QED
  BY <1>7, <1>8, <1>9, <1>10, <1>11, <1>12, <1>13

(* A worker's step that hands nothing over: it goes back to receive, or ends.*)
LEMMA WorkerMovesOn ==
  ASSUME NEW w \in Workers, NEW s \in {"receive", "exited"},
         DocgenInv, Become(w, s),
         UNCHANGED <<setting, file, deadline, entries, feeder, fed, holds, record, failed, results,
                     actions, errors, main>>,
         \/ worker[w] = "pause" /\ s = "receive"
         \/ worker[w] = "receive" /\ feeder = "closed" /\ s = "exited"
         \/ worker[w] = "send" /\ deadline /\ s = "exited"
  PROVE  DocgenInv'
<1> USE DEF DocgenInv
<1>1. UNCHANGED <<site, classified, check, committed, file, deadline, entries, feeder, fed, holds,
                  record, failed, results, actions, errors, main>>
  BY DEF setting
<1>2. /\ worker'[w] = s /\ \A v \in Workers : v # w => worker'[v] = worker[v]
      /\ worker' \in [Workers -> {"receive", "fetch", "send", "pause", "exited"}]
  BY DEF TypeOK, Become
<1>3. InHand' = InHand \ {w}
  BY <1>2 DEF InHand
<1>4. ~deadline => InHand' = InHand
  BY <1>2, <1>3 DEF InHand
<1>5. Gathered' = Gathered /\ (\A n : RecordOf(n)' = RecordOf(n)) /\ IndexEntries' = IndexEntries
  BY <1>1, Frame
<1>6. TypeOK'
  <2>1. \A v \in Workers :
          record[v] # NoRecord => worker'[v] \in {"send", "exited"} /\ holds[v] \notin failed
    BY <1>1, <1>2 DEF TypeOK
  <2> QED
    BY <1>1, <1>2, <2>1 DEF TypeOK
<1>7. EntriesDiffer' /\ OneHolder'
  BY <1>1, <1>2, <1>3, <1>5 DEF EntriesDiffer, OneHolder
<1>8. InOneHand'
  BY <1>1, <1>3, <1>5 DEF InOneHand
<1>9. RecordsAreTrue'
  BY <1>1, <1>2, <1>5 DEF RecordsAreTrue
<1>10. AtTheEnd'
  <2>1. results # "closed"
    BY DEF AtTheEnd
  <2> QED
    BY <1>1, <2>1 DEF AtTheEnd
<1>11. NoneLost'
  <2>1. ~deadline => {holds'[v] : v \in InHand'} = {holds[v] : v \in InHand}
    BY <1>1, <1>4
  <2>2. ~deadline => \A v \in Workers : worker'[v] = "exited" => feeder = "closed"
    BY <1>2 DEF NoneLost
  <2> QED
    BY <1>1, <1>5, <2>1, <2>2 DEF NoneLost
<1> QED
  BY <1>6, <1>7, <1>8, <1>9, <1>10, <1>11

(* The page could be read: what the worker holds now is the entry's record.  *)
LEMMA FetchKeeps == ASSUME NEW w \in Workers PROVE DocgenInv /\ Fetch(w) => DocgenInv'
<1> SUFFICES ASSUME DocgenInv, Fetch(w) PROVE DocgenInv'
  OBVIOUS
<1> USE DEF DocgenInv
<1>1. /\ worker[w] = "fetch" /\ worker' = [worker EXCEPT ![w] = "send"]
      /\ record' = [record EXCEPT ![w] = RecordOf(holds[w])]
      /\ UNCHANGED <<site, classified, check, committed, file, deadline, entries, feeder, fed, holds,
                     failed, results, actions, errors, main>>
  BY DEF Fetch, Become, setting, RecordOf
<1>2. /\ worker'[w] = "send" /\ \A v \in Workers : v # w => worker'[v] = worker[v]
      /\ worker' \in [Workers -> {"receive", "fetch", "send", "pause", "exited"}]
  BY <1>1 DEF TypeOK
<1>3. InHand' = InHand
  BY <1>1, <1>2 DEF InHand
<1>4. Gathered' = Gathered /\ (\A n : RecordOf(n)' = RecordOf(n)) /\ IndexEntries' = IndexEntries
  BY <1>1, Frame
<1>5. \A v \in Workers : v # w => record'[v] = record[v]
  BY <1>1
<1>6. holds[w] \notin failed
  BY <1>1 DEF OneHolder
<1>7. TypeOK'
  <2>1. \A v \in Workers :
          record'[v] # NoRecord => worker'[v] \in {"send", "exited"} /\ holds[v] \notin failed
    BY <1>2, <1>5, <1>6 DEF TypeOK
  <2> QED
    BY <1>1, <1>2, <2>1 DEF TypeOK
<1>8. EntriesDiffer' /\ OneHolder'
  BY <1>1, <1>2, <1>3, <1>4 DEF EntriesDiffer, OneHolder
<1>9. InOneHand'
  BY <1>1, <1>3, <1>4 DEF InOneHand
<1>10. RecordsAreTrue'
  <2>1. record'[w] = RecordOf(holds[w]) /\ DOMAIN record' = Workers
    BY <1>1 DEF RecordsAreTrue
  <2>2. \A v \in Workers :
          worker'[v] = "send" /\ holds[v] \notin failed => record'[v] = RecordOf(holds[v])
    BY <1>2, <1>5, <2>1 DEF RecordsAreTrue
  <2> QED
    BY <1>1, <1>4, <2>2 DEF RecordsAreTrue
<1>11. AtTheEnd'
  <2>1. results # "closed"
    BY <1>1 DEF AtTheEnd
  <2> QED
    BY <1>1, <2>1 DEF AtTheEnd
<1>12. NoneLost'
  <2>1. \A v \in Workers : worker'[v] = "exited" => worker[v] = "exited"
    BY <1>2
  <2> QED
    BY <1>1, <1>3, <1>4, <2>1 DEF NoneLost
<1> QED
  BY <1>7, <1>8, <1>9, <1>10, <1>11, <1>12

(* The page could not be read: the entry was not collected, and will not be. *)
LEMMA FetchFailsKeeps == ASSUME NEW w \in Workers PROVE DocgenInv /\ FetchFails(w) => DocgenInv'
<1> SUFFICES ASSUME DocgenInv, FetchFails(w) PROVE DocgenInv'
  OBVIOUS
<1> USE DEF DocgenInv
<1>1. /\ worker[w] = "fetch" /\ worker' = [worker EXCEPT ![w] = "send"]
      /\ failed' = failed \cup {holds[w]}
      /\ UNCHANGED <<site, classified, check, committed, file, deadline, entries, feeder, fed, holds,
                     record, results, actions, errors, main>>
  BY DEF FetchFails, Become, setting
<1>2. /\ worker'[w] = "send" /\ \A v \in Workers : v # w => worker'[v] = worker[v]
      /\ worker' \in [Workers -> {"receive", "fetch", "send", "pause", "exited"}]
  BY <1>1 DEF TypeOK
<1>3. InHand' = InHand /\ w \in InHand
  BY <1>1, <1>2 DEF InHand
<1>4. Gathered' = Gathered /\ (\A n : RecordOf(n)' = RecordOf(n)) /\ IndexEntries' = IndexEntries
  BY <1>1, Frame
<1>5. /\ holds[w] \in 1..fed /\ holds[w] \notin Gathered /\ holds[w] \notin errors
      /\ \A v \in Workers : v # w => holds[v] # holds[w]
  <2>1. holds[w] # 0 /\ holds[w] \in 0..fed /\ fed \in Nat
    BY <1>3 DEF OneHolder, TypeOK, EntriesDiffer
  <2> QED
    BY <1>3, <2>1 DEF OneHolder, InOneHand
<1>6. TypeOK'
  <2>1. record[w] = NoRecord
    BY <1>1 DEF TypeOK
  <2>2. \A v \in Workers :
          record[v] # NoRecord => worker'[v] \in {"send", "exited"} /\ holds[v] \notin failed'
    BY <1>1, <1>2, <1>5, <2>1 DEF TypeOK
  <2> QED
    BY <1>1, <1>2, <1>5, <2>2 DEF TypeOK
<1>7. EntriesDiffer' /\ OneHolder'
  <2>1. \A v \in Workers : worker'[v] = "fetch" => holds[v] \notin failed'
    BY <1>1, <1>2, <1>5 DEF OneHolder
  <2> QED
    BY <1>1, <1>3, <1>4, <2>1 DEF EntriesDiffer, OneHolder
<1>8. InOneHand'
  BY <1>1, <1>3, <1>4 DEF InOneHand
<1>9. RecordsAreTrue'
  <2>1. ASSUME NEW a \in Range(actions) PROVE \E n \in 1..fed : n \notin failed' /\ a = RecordOf(n)
    <3>1. PICK n \in 1..fed : n \notin failed /\ a = RecordOf(n)
      BY DEF RecordsAreTrue
    <3>2. n \in Gathered
      BY <3>1, NamedAfterEntry DEF Gathered
    <3> QED
      BY <1>1, <1>5, <3>1, <3>2
  <2>2. \A v \in Workers :
          worker'[v] = "send" /\ holds[v] \notin failed' => record[v] = RecordOf(holds[v])
    BY <1>1, <1>2 DEF RecordsAreTrue
  <2>3. Gathered \intersect failed' = {}
    BY <1>1, <1>5 DEF RecordsAreTrue
  <2> QED
    BY <1>1, <1>4, <2>1, <2>2, <2>3 DEF RecordsAreTrue
<1>10. AtTheEnd'
  <2>1. results # "closed"
    BY <1>1 DEF AtTheEnd
  <2> QED
    BY <1>1, <2>1 DEF AtTheEnd
<1>11. NoneLost'
  <2>1. \A v \in Workers : worker'[v] = "exited" => worker[v] = "exited"
    BY <1>2
  <2> QED
    BY <1>1, <1>3, <1>4, <2>1 DEF NoneLost
<1> QED
  BY <1>6, <1>7, <1>8, <1>9, <1>10, <1>11

(* A record is collected: the record of an entry not collected before.       *)
LEMMA Collect ==
  ASSUME NEW w \in Workers, DocgenInv, worker[w] = "send", holds[w] \notin failed,
         actions' = Append(actions, record[w]), UNCHANGED <<site, entries, fed>>
  PROVE  /\ Range(actions') = Range(actions) \cup {RecordOf(holds[w])}
         /\ Len(actions') = Len(actions) + 1 /\ actions' \in Seq(Range(actions'))
         /\ holds[w] \in 1..fed /\ holds[w] \notin Gathered
         /\ Gathered' = Gathered \cup {holds[w]}
         /\ Cardinality(Gathered') = Len(actions')
         /\ \A i, j \in 1..Len(actions') : actions'[i].name = actions'[j].name => i = j
<1> USE DEF DocgenInv
<1> DEFINE h == holds[w]
<1>1. record[w] = RecordOf(h) /\ Len(actions) \in Nat /\ DOMAIN actions = 1..Len(actions)
  BY DEF RecordsAreTrue
<1>2. w \in InHand
  BY DEF InHand
<1>3. /\ h \in 1..fed /\ h \notin Gathered /\ fed \in Nat /\ fed <= Len(entries)
      /\ Len(entries) \in Nat
  <2>1. h # 0 /\ h \in 0..fed /\ fed \in 0..Len(entries) /\ Len(entries) \in Nat
    BY <1>2 DEF OneHolder, TypeOK, EntriesDiffer
  <2>2. h \notin Gathered
    BY <1>2 DEF InOneHand
  <2> QED
    BY <2>1, <2>2
<1>4. actions \in Seq(Range(actions))
  BY DEF RecordsAreTrue
<1> HIDE DEF h
<1>5. Len(actions') = Len(actions) + 1 /\ DOMAIN actions' = 1..Len(actions')
  BY <1>1, <1>4
<1>6. Range(actions') = Range(actions) \cup {RecordOf(h)}
  <2> DEFINE r == RecordOf(h)
             R == Range(actions) \cup {r}
  <2>1. actions' = Append(actions, r)
    BY <1>1 DEF h
  <2> HIDE DEF r
  <2>2. /\ \A i \in 1..Len(actions) : actions'[i] = actions[i]
        /\ actions'[Len(actions) + 1] = r
    BY <1>1, <1>4, <2>1
  <2>3. \A i \in 1..(Len(actions) + 1) : i = Len(actions) + 1 \/ i \in 1..Len(actions)
    BY <1>1
  <2>4. /\ \A i \in 1..Len(actions) : i \in 1..(Len(actions) + 1)
        /\ Len(actions) + 1 \in 1..(Len(actions) + 1)
    BY <1>1
  <2> QED
    BY <1>1, <1>5, <2>2, <2>3, <2>4 DEF Range, r
<1>7. Gathered' = Gathered \cup {h}
  <2>1. RecordOf(h).name = entries[h].name
    BY NamedAfterEntry
  <2>2. ASSUME NEW n \in 1..fed, entries[n].name = entries[h].name PROVE n = h
    BY <1>3, <2>2 DEF EntriesDiffer
  <2> QED
    BY <1>3, <1>6, <2>1, <2>2 DEF Gathered
<1>8. Cardinality(Gathered') = Len(actions')
  <2>1. IsFiniteSet(Gathered)
    <3>1. IsFiniteSet(1..fed)
      BY <1>3, FS_Interval
    <3> QED
      BY <3>1, FS_Subset DEF Gathered
  <2>2. Cardinality(Gathered \cup {h}) = Cardinality(Gathered) + 1
    BY <1>3, <2>1, FS_AddElement
  <2> QED
    BY <1>5, <1>7, <2>2 DEF InOneHand
<1>9. actions' \in Seq(Range(actions'))
  <2> DEFINE R == Range(actions) \cup {record[w]}
  <2>1. actions \in Seq(R)
    BY <1>1, <1>4 DEF Range
  <2>2. Append(actions, record[w]) \in Seq(R)
    <3>1. record[w] \in R
      OBVIOUS
    <3> HIDE DEF R
    <3> QED
      BY <2>1, <3>1
  <2> QED
    BY <1>1, <1>6, <2>2
<1>10. \A i, j \in 1..Len(actions') : actions'[i].name = actions'[j].name => i = j
  <2>1. /\ \A i \in 1..Len(actions) : actions'[i] = actions[i]
        /\ actions'[Len(actions) + 1] = RecordOf(h)
    <3> DEFINE r == RecordOf(h)
    <3>1. actions' = Append(actions, r)
      BY <1>1 DEF h
    <3> HIDE DEF r
    <3> QED
      BY <1>1, <1>4, <3>1 DEF r
  <2>2. ASSUME NEW i \in 1..Len(actions) PROVE actions[i].name # RecordOf(h).name
    <3>1. RecordOf(h).name = entries[h].name
      BY NamedAfterEntry
    <3>2. actions[i] \in Range(actions)
      BY <1>1, <1>4 DEF Range
    <3> QED
      BY <1>3, <3>1, <3>2 DEF Gathered
  <2>3. \A i, j \in 1..Len(actions) : actions[i].name = actions[j].name => i = j
    BY DEF RecordsAreTrue
  <2>4. \A i \in 1..Len(actions') : i \in 1..Len(actions) \/ i = Len(actions) + 1
    BY <1>1, <1>5
  <2> QED
    BY <2>1, <2>2, <2>3, <2>4
<1> QED
  BY <1>3, <1>5, <1>6, <1>7, <1>8, <1>9, <1>10 DEF h

(* results <- r meets the collector's receive.                               *)
LEMMA SendKeeps == ASSUME NEW w \in Workers PROVE DocgenInv /\ Send(w) => DocgenInv'
<1> SUFFICES ASSUME DocgenInv, Send(w) PROVE DocgenInv'
  OBVIOUS
<1> USE DEF DocgenInv
<1>1. /\ worker[w] = "send" /\ main = "collect" /\ worker' = [worker EXCEPT ![w] = "pause"]
      /\ record' = [record EXCEPT ![w] = NoRecord]
      /\ UNCHANGED <<site, classified, check, committed, file, deadline, entries, feeder, fed, holds,
                     failed, results, main>>
  BY DEF Send, Become, setting
<1>2. /\ worker'[w] = "pause" /\ \A v \in Workers : v # w => worker'[v] = worker[v]
      /\ worker' \in [Workers -> {"receive", "fetch", "send", "pause", "exited"}]
  BY <1>1 DEF TypeOK
<1>3. InHand' = InHand \ {w} /\ w \in InHand
  BY <1>1, <1>2 DEF InHand
<1>4. (\A n : RecordOf(n)' = RecordOf(n)) /\ IndexEntries' = IndexEntries
  BY <1>1 DEF RecordOf, IndexEntries, Site
<1>5. /\ record'[w] = NoRecord /\ DOMAIN record' = Workers
      /\ \A v \in Workers : v # w => record'[v] = record[v]
  BY <1>1 DEF RecordsAreTrue
<1>6. /\ holds[w] \in 1..fed /\ holds[w] \notin Gathered \cup errors
      /\ \A v \in Workers : v # w => holds[v] # holds[w]
  <2>1. holds[w] # 0 /\ holds[w] \in 0..fed /\ fed \in Nat
    BY <1>3 DEF OneHolder, TypeOK, EntriesDiffer
  <2> QED
    BY <1>3, <2>1 DEF OneHolder, InOneHand
<1>7. \/ /\ holds[w] \in failed /\ errors' = errors \cup {holds[w]} /\ actions' = actions
         /\ Gathered' = Gathered
      \/ /\ holds[w] \notin failed /\ errors' = errors /\ actions' = Append(actions, record[w])
         /\ Gathered' = Gathered \cup {holds[w]}
  <2>1. \/ holds[w] \in failed /\ errors' = errors \cup {holds[w]} /\ actions' = actions
        \/ holds[w] \notin failed /\ errors' = errors /\ actions' = Append(actions, record[w])
    BY DEF Send
  <2> QED
    BY <1>1, <2>1, Collect, Frame
<1>8. Gathered' \cup errors' = (Gathered \cup errors) \cup {holds[w]}
  BY <1>7
<1>9. TypeOK'
  <2>1. \A v \in Workers :
          record'[v] # NoRecord => worker'[v] \in {"send", "exited"} /\ holds[v] \notin failed
    BY <1>2, <1>5 DEF TypeOK
  <2>2. errors' \subseteq failed
    BY <1>7 DEF TypeOK
  <2> QED
    BY <1>1, <1>2, <2>1, <2>2 DEF TypeOK
<1>10. EntriesDiffer' /\ OneHolder'
  <2>1. \A v \in Workers : worker'[v] = "fetch" => worker[v] = "fetch"
    BY <1>2
  <2> QED
    BY <1>1, <1>3, <1>4, <2>1 DEF EntriesDiffer, OneHolder
<1>11. InOneHand'
  <2>1. \A u, v \in InHand' : u # v => holds'[u] # holds'[v]
    BY <1>1, <1>3 DEF InOneHand
  <2>2. \A v \in InHand' : holds'[v] \notin Gathered' \cup errors'
    <3> SUFFICES ASSUME NEW v \in InHand' PROVE holds[v] \notin Gathered' \cup errors'
      BY <1>1
    <3>1. v \in Workers /\ v # w /\ v \in InHand
      BY <1>3 DEF InHand
    <3> QED
      BY <1>6, <1>8, <3>1 DEF InOneHand
  <2>3. Cardinality(Gathered') = Len(actions')
    BY <1>1, <1>7, Collect DEF InOneHand
  <2> QED
    BY <2>1, <2>2, <2>3 DEF InOneHand
<1>12. RecordsAreTrue'
  <2>1. \A v \in Workers :
          worker'[v] = "send" /\ holds[v] \notin failed => record'[v] = RecordOf(holds[v])
    BY <1>2, <1>5 DEF RecordsAreTrue
  <2>2. /\ actions' \in Seq(Range(actions'))
        /\ \A i, j \in 1..Len(actions') : actions'[i].name = actions'[j].name => i = j
        /\ \A a \in Range(actions') : \E n \in 1..fed : n \notin failed /\ a = RecordOf(n)
    <3>1. CASE actions' = actions
      BY <3>1 DEF RecordsAreTrue
    <3>2. CASE holds[w] \notin failed /\ actions' = Append(actions, record[w])
      <4>1. /\ Range(actions') = Range(actions) \cup {RecordOf(holds[w])}
            /\ actions' \in Seq(Range(actions'))
            /\ \A i, j \in 1..Len(actions') : actions'[i].name = actions'[j].name => i = j
        BY <1>1, <3>2, Collect
      <4> QED
        BY <1>6, <3>2, <4>1 DEF RecordsAreTrue
    <3> QED
      BY <1>7, <3>1, <3>2
  <2>3. Gathered' \intersect failed = {}
    BY <1>7 DEF RecordsAreTrue
  <2> QED
    BY <1>1, <1>4, <1>5, <2>1, <2>2, <2>3 DEF RecordsAreTrue
<1>13. AtTheEnd'
  <2>1. results # "closed" /\ file = committed
    BY <1>1 DEF AtTheEnd
  <2> QED
    BY <1>1, <2>1 DEF AtTheEnd
<1>14. NoneLost'
  <2>1. {holds[v] : v \in InHand} = {holds'[v] : v \in InHand'} \cup {holds[w]}
    BY <1>1, <1>3
  <2>2. \A v \in Workers : worker'[v] = "exited" => worker[v] = "exited"
    BY <1>2
  <2> QED
    BY <1>1, <1>8, <2>1, <2>2 DEF NoneLost
<1> QED
  BY <1>9, <1>10, <1>11, <1>12, <1>13, <1>14

(* The steps of main, of the closer and of the feeder that hand nothing over.*)
LEMMA OthersKeep ==
  ASSUME DocgenInv,
         \/ IndexFails \/ CloseJobs \/ CloseResults \/ Collected \/ Verify \/ Compare \/ Write
         \/ DeadlinePasses
  PROVE  DocgenInv'
<1> USE DEF DocgenInv
<1>1. UNCHANGED <<site, classified, check, committed, entries, fed, worker, holds, record, failed,
                  actions, errors>>
  BY DEF IndexFails, CloseJobs, CloseResults, Collected, Verify, Compare, Write, DeadlinePasses,
         setting
<1>2. Gathered' = Gathered /\ (\A n : RecordOf(n)' = RecordOf(n)) /\ IndexEntries' = IndexEntries
  BY <1>1, Frame
<1>3. InHand' = InHand
  BY <1>1 DEF InHand
<1>4. /\ main' \in {"index", "collect", "verify", "emit", "written", "uptodate", "error"}
      /\ feeder' \in {"idle", "feeding", "closed"} /\ results' \in {"open", "closed"}
      /\ deadline' \in BOOLEAN /\ file'.kind \in {"absent", "source", "broken"}
  <2>1. /\ main \in {"index", "collect", "verify", "emit", "written", "uptodate", "error"}
        /\ feeder \in {"idle", "feeding", "closed"} /\ results \in {"open", "closed"}
        /\ deadline \in BOOLEAN /\ file.kind \in {"absent", "source", "broken"}
    BY DEF TypeOK, Ends
  <2>2. CASE Write
    <3>1. file' = file \/ file' = [kind |-> "source", actions |-> Emit(actions)]
            \/ file' = [kind |-> "broken", actions |-> << >>]
      BY <2>2 DEF Write
    <3>2. file'.kind \in {"absent", "source", "broken"}
      BY <2>1, <3>1
    <3> QED
      BY <2>1, <2>2, <3>2 DEF Write
  <2>3. CASE IndexFails \/ CloseJobs \/ CloseResults
    BY <2>1, <2>3 DEF IndexFails, CloseJobs, CloseResults
  <2>4. CASE Collected \/ Verify
    BY <2>1, <2>4 DEF Collected, Verify
  <2>5. CASE Compare \/ DeadlinePasses
    BY <2>1, <2>5 DEF Compare, DeadlinePasses
  <2> QED
    BY <2>2, <2>3, <2>4, <2>5
<1>5. TypeOK'
  BY <1>1, <1>4 DEF TypeOK, Ends
<1>6. InOneHand' /\ OneHolder' /\ RecordsAreTrue'
  BY <1>1, <1>2, <1>3 DEF InOneHand, OneHolder, RecordsAreTrue
<1>7. EntriesDiffer'
  <2>1. main' = "index" => main = "index" /\ feeder' = feeder
    BY DEF IndexFails, CloseJobs, CloseResults, Collected, Verify, Compare, Write, DeadlinePasses,
           EntriesDiffer
  <2>2. main' # "index" /\ entries # << >> => main # "index" \/ IndexFails
    BY DEF CloseJobs, CloseResults, Collected, Verify, Compare, Write, DeadlinePasses
  <2>3. main = "index" => entries = << >>
    BY DEF EntriesDiffer
  <2>4. main' \notin {"index", "error"} => main \notin {"index", "error"} \/ main' = main
    BY DEF IndexFails, CloseJobs, CloseResults, Collected, Verify, Compare, Write, DeadlinePasses
  <2> QED
    BY <1>1, <1>2, <2>1, <2>2, <2>3, <2>4 DEF EntriesDiffer
<1>8. AtTheEnd'
  <2>1. CASE IndexFails \/ CloseJobs \/ DeadlinePasses
    BY <1>1, <2>1 DEF IndexFails, CloseJobs, DeadlinePasses, AtTheEnd
  <2>2. CASE CloseResults
    BY <1>1, <2>2 DEF CloseResults, AtTheEnd
  <2>3. CASE Collected
    BY <1>1, <2>3 DEF Collected, AtTheEnd
  <2>4. CASE Verify
    BY <1>1, <2>4 DEF Verify, AtTheEnd
  <2>5. CASE Compare
    BY <1>1, <2>5 DEF Compare, AtTheEnd
  <2>6. CASE Write
    BY <1>1, <2>6 DEF Write, AtTheEnd
  <2> QED
    BY <2>1, <2>2, <2>3, <2>4, <2>5, <2>6
<1>9. NoneLost'
  <2>1. ~deadline' => ~deadline
    BY DEF IndexFails, CloseJobs, CloseResults, Collected, Verify, Compare, Write, DeadlinePasses
  <2>2. main = "error" => main' = "error"
    BY DEF IndexFails, CloseJobs, CloseResults, Collected, Verify, Compare, Write, DeadlinePasses
  <2>3. feeder = "closed" => feeder' = "closed"
    BY DEF IndexFails, CloseJobs, CloseResults, Collected, Verify, Compare, Write, DeadlinePasses
  <2>4. ~deadline' /\ feeder' = "closed" => feeder = "closed" \/ fed = Len(entries)
    BY <2>1 DEF IndexFails, CloseJobs, CloseResults, Collected, Verify, Compare, Write,
                DeadlinePasses
  <2> QED
    BY <1>1, <1>2, <1>3, <2>1, <2>2, <2>3, <2>4 DEF NoneLost
<1> QED
  BY <1>5, <1>6, <1>7, <1>8, <1>9

LEMMA DocgenStep == DocgenInv /\ site \in Sites /\ [Next]_docgenVars => DocgenInv' /\ site' = site
<1> SUFFICES ASSUME DocgenInv, site \in Sites, [Next]_docgenVars PROVE DocgenInv' /\ site' = site
  OBVIOUS
<1>1. CASE ReadIndex
  BY <1>1, ReadIndexKeeps DEF ReadIndex, setting
<1>2. ASSUME NEW w \in Workers, Feed(w) PROVE DocgenInv' /\ site' = site
  BY <1>2, FeedKeeps DEF Feed, setting
<1>3. ASSUME NEW w \in Workers, Fetch(w) PROVE DocgenInv' /\ site' = site
  BY <1>3, FetchKeeps DEF Fetch, setting
<1>4. ASSUME NEW w \in Workers, FetchFails(w) PROVE DocgenInv' /\ site' = site
  BY <1>4, FetchFailsKeeps DEF FetchFails, setting
<1>5. ASSUME NEW w \in Workers, Send(w) PROVE DocgenInv' /\ site' = site
  BY <1>5, SendKeeps DEF Send, setting
<1>6. ASSUME NEW w \in Workers, DropAtDeadline(w) \/ Exit(w) PROVE DocgenInv' /\ site' = site
  <2>1. DocgenInv'
    <3> DEFINE s == "exited"
    <3>1. s \in {"receive", "exited"} /\ Become(w, s)
      BY <1>6 DEF DropAtDeadline, Exit
    <3> QED
      BY <1>6, <3>1, WorkerMovesOn DEF DropAtDeadline, Exit
  <2> QED
    BY <1>6, <2>1 DEF DropAtDeadline, Exit, setting
<1>7. ASSUME NEW w \in Workers, Pause(w) PROVE DocgenInv' /\ site' = site
  <2>1. DocgenInv'
    <3> DEFINE s == "receive"
    <3>1. s \in {"receive", "exited"} /\ Become(w, s)
      BY <1>7 DEF Pause
    <3> QED
      BY <1>7, <3>1, WorkerMovesOn DEF Pause
  <2> QED
    BY <1>7, <2>1 DEF Pause, setting
<1>8. CASE IndexFails \/ CloseJobs \/ CloseResults \/ Collected \/ Verify \/ Compare \/ Write
             \/ DeadlinePasses
  <2>1. DocgenInv'
    BY <1>8, OthersKeep
  <2>2. site' = site
    BY <1>8 DEF IndexFails, CloseJobs, CloseResults, Collected, Verify, Compare, Write,
                DeadlinePasses, setting
  <2> QED
    BY <2>1, <2>2
<1>9. CASE UNCHANGED docgenVars
  <2>1. UNCHANGED <<site, classified, check, committed, file, deadline, entries, feeder, fed, worker,
                    holds, record, failed, results, actions, errors, main>>
    BY <1>9 DEF docgenVars, setting
  <2>2. Gathered' = Gathered /\ (\A n : RecordOf(n)' = RecordOf(n)) /\ IndexEntries' = IndexEntries
    BY <2>1, Frame
  <2>3. InHand' = InHand
    BY <2>1 DEF InHand
  <2> QED
    BY <2>1, <2>2, <2>3
       DEF DocgenInv, TypeOK, InOneHand, EntriesDiffer, OneHolder, RecordsAreTrue, AtTheEnd, NoneLost
<1>10. CASE Exited
  BY <1>9, <1>10 DEF Exited
<1> QED
  BY <1>1, <1>2, <1>3, <1>4, <1>5, <1>6, <1>7, <1>8, <1>9, <1>10 DEF Next

(* The inductive invariant: which entry is where, who has something to show  *)
(* for it, and what main has seen by the time it is where it is.             *)
THEOREM DocgenInductive == Spec => []DocgenInv
<1>1. Init => DocgenInv /\ site \in Sites
  BY DocgenInit DEF Init
<1>2. (DocgenInv /\ site \in Sites) /\ [Next]_docgenVars => (DocgenInv /\ site \in Sites)'
  BY DocgenStep
<1> QED
  BY <1>1, <1>2, PTL DEF Spec

(* No goroutine sends on a closed channel, and no entry is in two hands, in  *)
(* hand and already collected, or collected twice: feeder, workers, closer   *)
(* and collector of fetchAll.                                                *)
THEOREM HandsOverSoundly == Spec => []HandedOverSoundly
<1>1. DocgenInv => HandedOverSoundly
  BY DEF DocgenInv, HandedOverSoundly, AtTheEnd, NoSendAfterClose
<1> QED
  BY <1>1, DocgenInductive, PTL

(* A page that failed never passes for fetched, and only a run that collected*)
(* no failure and no action without a class, and does not only check, touches*)
(* the file: main's verify and write.                                        *)
THEOREM WritesSoundly == Spec => []WrittenIsSound
<1>1. DocgenInv => WrittenIsSound
  BY DEF DocgenInv, WrittenIsSound, RecordsAreTrue, AtTheEnd, Ends
<1> QED
  BY <1>1, DocgenInductive, PTL

(* What the server can rely on in a registry that was written: no parameter  *)
(* is the action itself, required and deprecated at once, or described in the*)
(* vendor's prose, and no two records have a name in common (parseParamTable,*)
(* describe, dedupe).                                                        *)
THEOREM WrittenIsSafe == Spec => []SafeToServe
<1>1. DocgenInv /\ site \in Sites => SafeToServe
  <2> SUFFICES ASSUME DocgenInv, site \in Sites, main = "written" PROVE SafeToServe
    BY DEF SafeToServe
  <2> USE DEF DocgenInv
  <2>1. /\ file.actions = Emit(actions)
        /\ actions \in Seq(Range(actions))
        /\ \A a \in Range(actions) : \E n \in 1..fed : n \notin failed /\ a = RecordOf(n)
    BY DEF AtTheEnd, RecordsAreTrue
  <2>2. Range(file.actions) \subseteq Range(actions)
    BY <2>1, EmitTyped, RangeInSet
  <2>3. ASSUME NEW n \in 1..fed
        PROVE  /\ n \in 1..Len(entries) /\ Len(entries) \in Nat
               /\ entries = IndexEntries
    <3>1. fed \in 0..Len(entries) /\ Len(entries) \in Nat /\ n \in 1..Len(entries)
      BY DEF TypeOK, EntriesDiffer
    <3>2. entries # << >>
      BY <3>1
    <3> QED
      BY <3>1, <3>2 DEF EntriesDiffer
  <2>4. ASSUME NEW n \in 1..fed
        PROVE  \A p \in Range(RecordOf(n).params) \union Range(RecordOf(n).response) : SafeParam(p)
    <3> DEFINE e == entries[n]
               page == Fetched(Site.page[e.slug])
    <3>1. e.slug \in DOMAIN Site.page
      BY <2>3, IndexEntriesDiffer
    <3>2. page \in Seq(Range(Site.page[e.slug]))
      BY <3>1, DocgenAssumption, FetchedIsPage DEF Site
    <3> HIDE DEF page
    <3>3. \A p \in Range(ParseAction(e.name, page).params)
                    \union Range(ParseAction(e.name, page).response) : SafeParam(p)
      BY <3>2, ParsedIsSafe
    <3>4. /\ RecordOf(n).params = ParseAction(e.name, page).params
          /\ RecordOf(n).response = ParseAction(e.name, page).response
      BY DEF RecordOf, Action, page
    <3> QED
      BY <3>3, <3>4
  <2>5. ASSUME NEW n \in 1..fed, NEW m \in 1..fed,
               ToLower(RecordOf(n).name) = ToLower(RecordOf(m).name)
        PROVE  n = m
    <3>1. RecordOf(n).name = entries[n].name /\ RecordOf(m).name = entries[m].name
      BY NamedAfterEntry
    <3> QED
      BY <2>3, <2>5, <3>1 DEF EntriesDiffer
  <2>6. ASSUME NEW a \in Range(actions)
        PROVE  /\ \A p \in Range(a.params) \union Range(a.response) : SafeParam(p)
               /\ \A b \in Range(actions) : ToLower(a.name) = ToLower(b.name) => a = b
    <3>1. PICK n \in 1..fed : a = RecordOf(n)
      BY <2>1
    <3>2. ASSUME NEW b \in Range(actions), ToLower(a.name) = ToLower(b.name) PROVE a = b
      <4>1. PICK m \in 1..fed : b = RecordOf(m)
        BY <2>1
      <4> QED
        BY <2>5, <3>1, <3>2, <4>1
    <3> QED
      BY <2>4, <3>1, <3>2
  <2> QED
    BY <2>2, <2>6 DEF SafeToServe, SafeParam
<1>2. Init => DocgenInv /\ site \in Sites
  BY DocgenInit DEF Init
<1>3. (DocgenInv /\ site \in Sites) /\ [Next]_docgenVars => (DocgenInv /\ site \in Sites)'
  BY DocgenStep
<1> QED
  BY <1>1, <1>2, <1>3, PTL DEF Spec

(***************************************************************************)
(* The registry.                                                           *)
(***************************************************************************)

(* The index as fetched: its entries are the links that stand for an action, *)
(* their names and categories have an order, and their pages are there.      *)
LEMMA EntriesAreLinks ==
  ASSUME site \in Sites
  PROVE  LET index == Fetched(Site.index)
         IN  /\ Range(IndexEntries) = {EntryAt(index, i) : i \in ActionLinks(index)}
             /\ \A i \in ActionLinks(index) :
                  /\ index[i].text \in DOMAIN Rank
                  /\ CategoryAt(index, i) \in DOMAIN Rank
                  /\ index[i].slug \in DOMAIN Site.page
<1> DEFINE index == Fetched(Site.index)
           E == Range(Site.index)
<1>1. index \in Seq(E)
  BY DocgenAssumption, FetchedIsPage DEF Site
<1>2. Sorted(Site.index) \subseteq DOMAIN Rank /\ Slugs(Site.index) \subseteq DOMAIN Site.page
  BY DocgenAssumption DEF Site
<1>3. IndexEntries = Dedupe(ParseIndex(index))
  BY DEF IndexEntries
<1> HIDE DEF index
<1>4. Range(IndexEntries) = {EntryAt(index, i) : i \in ActionLinks(index)}
  BY <1>1, <1>3, DedupedLinks
<1>5. ASSUME NEW i \in DOMAIN index PROVE index[i] \in Range(Site.index) /\ i \in Nat
  BY <1>1
<1>6. ASSUME NEW i \in ActionLinks(index)
      PROVE  /\ index[i].text \in DOMAIN Rank
             /\ CategoryAt(index, i) \in DOMAIN Rank
             /\ index[i].slug \in DOMAIN Site.page
  <2>1. /\ i \in DOMAIN index /\ index[i].tag = "a" /\ index[i].slug # ""
        /\ CategoryAt(index, i) # ""
    BY DEF ActionLinks, LinksIn
  <2>2. index[i].text \in DOMAIN Rank /\ index[i].slug \in DOMAIN Site.page
    <3>1. index[i] \in Range(Site.index)
      BY <1>5, <2>1
    <3> QED
      BY <1>2, <2>1, <3>1 DEF Sorted, Slugs
  <2>3. CategoryAt(index, i) \in DOMAIN Rank
    <3> DEFINE above == HeadingsAbove(index, i)
               h == Max(above)
    <3>1. above # {} /\ CategoryAt(index, i) = index[h].text
      BY <2>1 DEF CategoryAt
    <3>2. i \in Nat /\ above \subseteq 0..i /\ above \subseteq 1..(i - 1)
      <4>1. i \in Nat
        BY <1>5, <2>1
      <4>2. above \subseteq 1..(i - 1)
        BY DEF HeadingsAbove
      <4>3. \A x \in 1..(i - 1) : x \in 0..i
        BY <4>1
      <4> HIDE DEF above
      <4> QED
        BY <4>1, <4>2, <4>3
    <3>3. h \in above
      <4> HIDE DEF above
      <4> QED
        BY <3>1, <3>2, MaxOfPlaces
    <3>4. index[h].tag = "h3"
      BY <3>3 DEF HeadingsAbove
    <3> HIDE DEF h, above
    <3>5. h \in DOMAIN index
      <4>1. DOMAIN index = 1..Len(index) /\ Len(index) \in Nat
        BY <1>1
      <4>2. i \in 1..Len(index) /\ h \in 1..(i - 1)
        BY <2>1, <3>2, <3>3, <4>1
      <4> QED
        BY <4>1, <4>2
    <3>6. index[h] \in Range(Site.index)
      BY <1>5, <3>5
    <3> QED
      BY <1>2, <3>1, <3>4, <3>6 DEF Sorted
  <2> QED
    BY <2>2, <2>3
<1> QED
  BY <1>4, <1>6 DEF index

(* What a worker makes of an entry is what the site says of its action.      *)
LEMMA RecordIsRead ==
  ASSUME site \in Sites, NEW n, NEW i \in ActionLinks(Fetched(Site.index)),
         entries[n] = EntryAt(Fetched(Site.index), i)
  PROVE  RecordOf(n) = RecordAt(Site, i) /\ Ranked(RecordOf(n))
<1> DEFINE index == Fetched(Site.index)
           name == index[i].text
           page == Fetched(Site.page[index[i].slug])
           E == Range(Site.page[index[i].slug])
<1>1. /\ name \in DOMAIN Rank /\ CategoryAt(index, i) \in DOMAIN Rank
      /\ index[i].slug \in DOMAIN Site.page
  BY EntriesAreLinks
<1>2. page \in Seq(E)
  BY <1>1, DocgenAssumption, FetchedIsPage DEF Site
<1>3. /\ entries[n].name = name /\ entries[n].slug = index[i].slug
      /\ entries[n].category = CategoryAt(index, i)
  BY DEF EntryAt
<1>4. RecordOf(n) =
        [name |-> entries[n].name, slug |-> entries[n].slug, category |-> entries[n].category,
         summary |-> ParseAction(entries[n].name, Fetched(Site.page[entries[n].slug])).summary,
         params |-> ParseAction(entries[n].name, Fetched(Site.page[entries[n].slug])).params,
         response |-> ParseAction(entries[n].name, Fetched(Site.page[entries[n].slug])).response]
  BY DEF RecordOf, Action
<1>5. RecordAt(Site, i) =
        [name |-> name, slug |-> index[i].slug, category |-> CategoryAt(index, i),
         summary |-> SummaryOf(page), params |-> ParamsUnder(name, page, Wanted, TRUE),
         response |-> ParamsUnder(name, page, Returned, FALSE)]
  BY DEF RecordAt, Wanted, Returned
<1> HIDE DEF index, name, page, E
<1>6. /\ ParseAction(name, page).summary = SummaryOf(page)
      /\ ParseAction(name, page).params = ParamsUnder(name, page, Wanted, TRUE)
      /\ ParseAction(name, page).response = ParamsUnder(name, page, Returned, FALSE)
  BY <1>2, ParsedIsRead
<1>7. Fetched(Site.page[entries[n].slug]) = page
  BY <1>3 DEF page
<1>8. RecordOf(n) = RecordAt(Site, i)
  BY <1>3, <1>4, <1>5, <1>6, <1>7
<1>9. RecordOf(n).name = name /\ RecordOf(n).category = CategoryAt(index, i)
  BY <1>3, <1>4
<1> QED
  BY <1>1, <1>8, <1>9 DEF Ranked

(* Before the deadline everything handed out by the end was collected, and   *)
(* everything in the index was handed out.                                   *)
LEMMA AllIsCollected ==
  ASSUME DocgenInv, ~deadline, main \in {"written", "uptodate"}
  PROVE  /\ entries = IndexEntries /\ Len(entries) \in Nat
         /\ Range(actions) = {RecordOf(n) : n \in 1..Len(entries)}
<1> USE DEF DocgenInv
<1>1. entries = IndexEntries /\ Len(entries) \in Nat
  BY DEF EntriesDiffer
<1>2. /\ results = "closed" /\ errors = {}
      /\ \A w \in Workers : worker[w] = "exited"
  BY DEF AtTheEnd
<1>3. InHand = {}
  BY <1>2 DEF InHand
<1>4. fed = Len(entries)
  <2>1. PICK w \in Workers : TRUE
    BY DocgenAssumption
  <2>2. feeder = "closed"
    BY <1>2, <2>1 DEF NoneLost
  <2> QED
    BY <2>2 DEF NoneLost
<1>5. 1..fed = Gathered
  BY <1>2, <1>3 DEF NoneLost
<1>6. ASSUME NEW n \in 1..fed PROVE RecordOf(n) \in Range(actions)
  <2>1. PICK a \in Range(actions) : a.name = entries[n].name
    BY <1>5 DEF Gathered
  <2>2. PICK m \in 1..fed : a = RecordOf(m)
    BY DEF RecordsAreTrue
  <2>3. entries[m].name = entries[n].name
    BY <2>1, <2>2, NamedAfterEntry
  <2>4. m = n
    BY <1>4, <2>3 DEF EntriesDiffer
  <2> QED
    BY <2>2, <2>4
<1>7. \A a \in Range(actions) : \E n \in 1..fed : a = RecordOf(n)
  BY DEF RecordsAreTrue
<1> QED
  BY <1>1, <1>4, <1>6, <1>7

LEMMA AllIsWritten ==
  ASSUME DocgenInv, site \in Sites, ~deadline, main \in {"written", "uptodate"}
  PROVE  IsRegistryOf(file.actions, Site)
<1> DEFINE index == Fetched(Site.index)
           E == Range(actions)
           out == Emit(actions)
<1>1. /\ entries = IndexEntries /\ Len(entries) \in Nat
      /\ E = {RecordOf(n) : n \in 1..Len(entries)}
  BY AllIsCollected
<1>2. /\ Range(IndexEntries) = {EntryAt(index, i) : i \in ActionLinks(index)}
      /\ Range(entries) = {entries[n] : n \in 1..Len(entries)}
  <2>1. DOMAIN entries = 1..Len(entries)
    <3>1. DOMAIN IndexEntries = 1..Len(IndexEntries)
      BY IndexEntriesDiffer
    <3> QED
      BY <1>1, <3>1
  <2>2. Range(entries) = {entries[n] : n \in 1..Len(entries)}
    BY <2>1 DEF Range
  <2> QED
    BY <2>2, EntriesAreLinks
<1> HIDE DEF index
<1>3. ASSUME NEW n \in 1..Len(entries)
      PROVE  \E i \in ActionLinks(index) : RecordOf(n) = RecordAt(Site, i) /\ Ranked(RecordOf(n))
  <2>1. PICK i \in ActionLinks(index) : entries[n] = EntryAt(index, i)
    BY <1>1, <1>2
  <2> QED
    BY <2>1, RecordIsRead DEF index
<1>4. ASSUME NEW i \in ActionLinks(index) PROVE RecordAt(Site, i) \in E
  <2>1. PICK n \in 1..Len(entries) : entries[n] = EntryAt(index, i)
    BY <1>1, <1>2
  <2>2. RecordOf(n) = RecordAt(Site, i)
    BY <2>1, RecordIsRead DEF index
  <2> QED
    BY <1>1, <2>2
<1>5. E = Records(Site)
  <2>1. Records(Site) = {RecordAt(Site, i) : i \in ActionLinks(index)}
    BY DEF Records, index
  <2> HIDE DEF E
  <2> QED
    BY <1>1, <1>3, <1>4, <2>1
<1>6. /\ actions \in Seq(E)
      /\ \A i, j \in 1..Len(actions) : actions[i].name = actions[j].name => i = j
      /\ file.actions = out
  BY DEF DocgenInv, RecordsAreTrue, AtTheEnd
<1>7. \A a \in E : Ranked(a)
  BY <1>1, <1>3
<1> HIDE DEF E, out
<1>8. out \in Seq(E) /\ InOrder(out) /\ Range(out) = E
  <2>1. Emit(actions) \in Seq(E)
    BY <1>6, EmitTyped
  <2>2. InOrder(Emit(actions)) /\ Range(Emit(actions)) = Range(actions)
    BY <1>6, <1>7, EmitSorts
  <2> QED
    BY <2>1, <2>2 DEF out, E
<1>9. ASSUME NEW i \in DOMAIN out, NEW j \in DOMAIN out, i < j PROVE Precedes(out[i], out[j])
  <2>1. i \in 1..Len(out) /\ j \in 1..Len(out) /\ out[i] \in E /\ out[j] \in E
    BY <1>8
  <2>2. Before(out[i], out[j])
    BY <1>8, <1>9, <2>1 DEF InOrder
  <2> QED
    BY <1>7, <2>1, <2>2, BeforeOrders
<1> QED
  BY <1>5, <1>6, <1>8, <1>9 DEF IsRegistryOf

(* Before the deadline nothing that was handed out is lost, and what is      *)
(* written, or found to be up to date, has one record for every action the   *)
(* index links to, as its page has it, in order: the whole of run, whatever  *)
(* order the pages came in.                                                  *)
THEOREM RegistryIsRead == Spec => []RegistryIsTheSite
<1>1. DocgenInv /\ site \in Sites => RegistryIsTheSite
  <2> SUFFICES ASSUME DocgenInv, site \in Sites, ~deadline PROVE RegistryIsTheSite
    BY DEF RegistryIsTheSite
  <2>1. main # "error" => 1..fed = Gathered \union errors \union {holds[w] : w \in InHand}
    BY DEF DocgenInv, NoneLost
  <2>2. main \in {"written", "uptodate"} => IsRegistryOf(file.actions, Site)
    BY AllIsWritten
  <2> QED
    BY <2>1, <2>2 DEF RegistryIsTheSite
<1>2. Init => DocgenInv /\ site \in Sites
  BY DocgenInit DEF Init
<1>3. (DocgenInv /\ site \in Sites) /\ [Next]_docgenVars => (DocgenInv /\ site \in Sites)'
  BY DocgenStep
<1> QED
  BY <1>1, <1>2, <1>3, PTL DEF Spec

(* A site has one registry: that a list is a registry of the site says what  *)
(* the list is, and so no order the pages come in changes the file (emit).   *)
THEOREM OneRegistry ==
  ASSUME site \in Sites, NEW a, a \in Seq(Range(a)), NEW b, b \in Seq(Range(b)),
         IsRegistryOf(a, Site), IsRegistryOf(b, Site)
  PROVE  a = b
<1> DEFINE R == Records(Site)
           M == Len(a)
           N == Len(b)
<1>1. \A r \in R : Ranked(r)
  <2> DEFINE index == Fetched(Site.index)
  <2>1. R = {RecordAt(Site, i) : i \in ActionLinks(index)}
    BY DEF Records
  <2>2. ASSUME NEW i \in ActionLinks(index)
        PROVE  RecordAt(Site, i).name \in DOMAIN Rank /\ RecordAt(Site, i).category \in DOMAIN Rank
    <3>1. index[i].text \in DOMAIN Rank /\ CategoryAt(index, i) \in DOMAIN Rank
      BY EntriesAreLinks
    <3>2. RecordAt(Site, i).name = index[i].text /\ RecordAt(Site, i).category = CategoryAt(index, i)
      BY DEF RecordAt
    <3> QED
      BY <3>1, <3>2
  <2> HIDE DEF R, index
  <2> QED
    BY <2>1, <2>2 DEF Ranked
<1>2. \A r, s \in R : ~(Precedes(r, s) /\ Precedes(s, r))
  BY <1>1, BeforeOrders
<1>3. /\ M \in Nat /\ (\A k \in 1..M : a[k] \in R)
      /\ \A r \in R : \E k \in 1..M : a[k] = r
      /\ \A j, k \in 1..M : j < k => Precedes(a[j], a[k])
  <2>1. M \in Nat /\ DOMAIN a = 1..M /\ Range(a) = R
    BY DEF IsRegistryOf
  <2> HIDE DEF M, R
  <2> QED
    BY <2>1 DEF IsRegistryOf, Range
<1>4. /\ N \in Nat /\ (\A k \in 1..N : b[k] \in R)
      /\ \A r \in R : \E k \in 1..N : b[k] = r
      /\ \A j, k \in 1..N : j < k => Precedes(b[j], b[k])
  <2>1. N \in Nat /\ DOMAIN b = 1..N /\ Range(b) = R
    BY DEF IsRegistryOf
  <2> HIDE DEF N, R
  <2> QED
    BY <2>1 DEF IsRegistryOf, Range
<1> HIDE DEF R, M, N
<1> DEFINE Agree(n) == \A k \in 1..n : k <= M /\ k <= N => a[k] = b[k]
           K == {n \in 0..M : Agree(n)}
<1>5. 0 \in K
  BY <1>3
<1>6. ASSUME NEW n \in 1..M, n - 1 \in K PROVE n \in K
  <2>1. \A k \in 1..(n - 1) : k <= M /\ k <= N => a[k] = b[k]
    BY <1>6
  <2>2. ASSUME n <= N, a[n] # b[n] PROVE FALSE
    <3>1. n \in 1..M /\ n \in 1..N
      BY <1>4, <2>2
    <3>2. PICK m \in 1..N : b[m] = a[n]
      BY <1>3, <1>4, <3>1
    <3>3. ~(m < n)
      <4> SUFFICES ASSUME m < n PROVE FALSE
        OBVIOUS
      <4>1. m \in 1..(n - 1) /\ m \in 1..M /\ m <= M /\ m <= N
        BY <1>3, <1>4, <3>1
      <4>2. a[m] = a[n] /\ Precedes(a[m], a[n])
        BY <1>3, <2>1, <3>1, <3>2, <4>1
      <4> QED
        BY <1>2, <1>3, <3>1, <4>1, <4>2
    <3>4. Precedes(b[n], a[n])
      <4>1. n < m
        BY <1>4, <2>2, <3>1, <3>2, <3>3
      <4> QED
        BY <1>4, <3>1, <3>2, <4>1
    <3>5. PICK l \in 1..M : a[l] = b[n]
      BY <1>3, <1>4, <3>1
    <3>6. ~(l < n)
      <4> SUFFICES ASSUME l < n PROVE FALSE
        OBVIOUS
      <4>1. l \in 1..(n - 1) /\ l \in 1..N /\ l <= M /\ l <= N
        BY <1>3, <1>4, <3>1
      <4>2. b[l] = b[n] /\ Precedes(b[l], b[n])
        BY <1>4, <2>1, <3>1, <3>5, <4>1
      <4> QED
        BY <1>2, <1>4, <3>1, <4>1, <4>2
    <3>7. Precedes(a[n], b[n])
      <4>1. n < l
        BY <1>3, <2>2, <3>1, <3>5, <3>6
      <4> QED
        BY <1>3, <3>1, <3>5, <4>1
    <3> QED
      BY <1>2, <1>3, <1>4, <3>1, <3>4, <3>7
  <2>3. \A k \in 1..n : k \in 1..(n - 1) \/ k = n
    OBVIOUS
  <2>4. n \in 0..M
    BY <1>3
  <2> QED
    BY <2>1, <2>2, <2>3, <2>4
<1>7. Agree(M)
  <2> HIDE DEF K
  <2>1. \A n \in 0..M : n \in K
    BY <1>3, <1>5, <1>6, LoopInduction
  <2>2. M \in 0..M
    BY <1>3
  <2> QED
    BY <2>1, <2>2 DEF K
<1>8. \A k \in 1..M : k <= N => a[k] = b[k]
  BY <1>3, <1>7
<1>9. ~(M < N)
  <2> SUFFICES ASSUME M < N PROVE FALSE
    OBVIOUS
  <2>1. M + 1 \in 1..N
    BY <1>3, <1>4
  <2>2. PICK k \in 1..M : a[k] = b[M + 1]
    BY <1>3, <1>4, <2>1
  <2>3. k \in 1..N /\ k < M + 1 /\ a[k] = b[k]
    BY <1>3, <1>4, <1>8
  <2> QED
    BY <1>2, <1>4, <2>1, <2>2, <2>3
<1>10. ~(N < M)
  <2> SUFFICES ASSUME N < M PROVE FALSE
    OBVIOUS
  <2>1. N + 1 \in 1..M
    BY <1>3, <1>4
  <2>2. PICK k \in 1..N : b[k] = a[N + 1]
    BY <1>3, <1>4, <2>1
  <2>3. k \in 1..M /\ k < N + 1 /\ a[k] = b[k]
    BY <1>3, <1>4, <1>8
  <2> QED
    BY <1>2, <1>3, <2>1, <2>2, <2>3
<1>11. M = N /\ \A k \in 1..M : a[k] = b[k]
  BY <1>3, <1>4, <1>8, <1>9, <1>10
<1>12. a = [k \in 1..M |-> a[k]] /\ b = [k \in 1..N |-> b[k]]
  BY DEF M, N
<1> QED
  BY <1>11, <1>12
================================================================================
