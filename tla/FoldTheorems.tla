------------------------------ MODULE FoldTheorems ------------------------------
(***************************************************************************)
(* What the proofs about loops need: induction over the natural numbers,   *)
(* and that a fold over a sequence is what its loop computes.              *)
(*                                                                         *)
(* The library states induction for an operator, which the provers cannot  *)
(* instantiate.  Here it is stated for a set of numbers, and a loop body   *)
(* is a function; both are had from counting alone.                        *)
(***************************************************************************)
EXTENDS Integers, SequencesExt, FiniteSetTheorems, TLAPS

(* A set of numbers that has 0 and with each number the next has them all:   *)
(* or else adding one would put those up to the first gap into fewer places. *)
LEMMA SetInduction ==
  ASSUME NEW S, 0 \in S, \A n \in Nat : n \in S => n + 1 \in S
  PROVE  \A n \in Nat : n \in S
<1> SUFFICES ASSUME NEW n \in Nat, n \notin S PROVE FALSE
  OBVIOUS
<1> DEFINE T == {m \in 0..n : m \in S}
           f == [m \in T |-> m + 1]
<1>1. 0 \in T /\ T \subseteq 0..n
  OBVIOUS
<1>2. f \in [T -> T \ {0}] /\ \A x, y \in T : f[x] = f[y] => x = y
  OBVIOUS
<1> HIDE DEF T, f
<1>3. IsFiniteSet(0..n)
  BY FS_Interval
<1>4. IsFiniteSet(T)
  BY <1>1, <1>3, FS_Subset
<1>5. IsFiniteSet(T \ {0}) /\ Cardinality(T \ {0}) = Cardinality(T) - 1
  BY <1>1, <1>4, FS_RemoveElement
<1>6. Cardinality(T) \in Nat
  BY <1>4, FS_CardinalityType
<1>7. Cardinality(T \ {0}) < Cardinality(T)
  BY <1>5, <1>6
<1>8. \E x, y \in T : x # y /\ f[x] = f[y]
  BY <1>2, <1>4, <1>5, <1>7, FS_PigeonHole
<1> QED
  BY <1>2, <1>8

(* The same for the places 0 to N of a loop.                                 *)
LEMMA LoopInduction ==
  ASSUME NEW N \in Nat, NEW S, 0 \in S, \A n \in 1..N : n - 1 \in S => n \in S
  PROVE  \A n \in 0..N : n \in S
<1> DEFINE T == {n \in Nat : n <= N => n \in S}
<1>1. 0 \in T
  OBVIOUS
<1>2. ASSUME NEW n \in Nat, n \in T PROVE n + 1 \in T
  <2>1. n + 1 <= N => n + 1 \in 1..N /\ (n + 1) - 1 = n /\ n \in S
    BY <1>2
  <2> QED
    BY <2>1
<1> HIDE DEF T
<1>3. \A n \in Nat : n \in T
  BY <1>1, <1>2, SetInduction
<1> QED
  BY <1>3 DEF T

(* And for a walk from the last place back to the first, which may skip.     *)
LEMMA BackwardInduction ==
  ASSUME NEW N \in Nat, NEW S,
         \A i \in 1..N : (\A j \in (i + 1)..N : j \in S) => i \in S
  PROVE  \A i \in 1..N : i \in S
<1> DEFINE T == {k \in 0..N : \A j \in (N + 1 - k)..N : j \in S}
<1>1. 0 \in T
  OBVIOUS
<1>2. ASSUME NEW k \in 1..N, k - 1 \in T PROVE k \in T
  <2> DEFINE i == N + 1 - k
  <2>1. i \in 1..N /\ \A j \in (i + 1)..N : j \in S
    BY <1>2
  <2>2. i \in S
    BY <2>1
  <2>3. ASSUME NEW j \in i..N PROVE j \in S
    BY <2>1, <2>2
  <2> QED
    BY <2>3
<1> HIDE DEF T
<1>3. N \in T
  BY <1>1, <1>2, LoopInduction
<1> QED
  BY <1>3 DEF T

(* The largest element is the one above all others.                          *)
LEMMA MaxIs ==
  ASSUME NEW s, NEW m \in s, s \subseteq Int, \A x \in s : x <= m
  PROVE  Max(s) = m
<1>1. \E x \in s : \A y \in s : x >= y
  OBVIOUS
<1>2. Max(s) \in s /\ \A y \in s : Max(s) >= y
  BY <1>1 DEF Max
<1>3. Max(s) <= m /\ Max(s) >= m /\ Max(s) \in Int /\ m \in Int
  BY <1>2
<1> QED
  BY <1>3

(* The numbers up to n, as FoldLeft takes them apart: the last, and the rest. *)
LEMMA LastOfPrefix ==
  ASSUME NEW n \in Nat
  PROVE  /\ 1..0 = {}
         /\ n > 0 => /\ 1..n # {}
                     /\ Max(1..n) = n
                     /\ (1..n) \ {Max(1..n)} = 1..(n - 1)
<1>1. 1..0 = {}
  OBVIOUS
<1>2. ASSUME n > 0 PROVE n \in 1..n /\ 1..n \subseteq Int /\ \A x \in 1..n : x <= n
  BY <1>2
<1>3. n > 0 => Max(1..n) = n
  BY <1>2, MaxIs
<1> QED
  BY <1>1, <1>2, <1>3

(* Places have a last one.                                                   *)
LEMMA MaxOfPlaces ==
  ASSUME NEW N \in Nat, NEW s, s \subseteq 0..N, s # {}
  PROVE  Max(s) \in s /\ \A x \in s : x <= Max(s)
<1> DEFINE HasMax(k) == \A t \in SUBSET (0..k) : t # {} => \E m \in t : \A x \in t : m >= x
           S == {k \in Nat : HasMax(k)}
<1>1. HasMax(0)
  <2>1. 0..0 = {0}
    OBVIOUS
  <2>2. \A t \in SUBSET {0} : t # {} => t = {0}
    OBVIOUS
  <2>3. \E m \in {0} : \A x \in {0} : m >= x
    OBVIOUS
  <2> QED
    BY <2>1, <2>2, <2>3
<1>2. ASSUME NEW k \in Nat, HasMax(k) PROVE HasMax(k + 1)
  <2> SUFFICES ASSUME NEW t \in SUBSET (0..(k + 1)), t # {}
               PROVE  \E m \in t : \A x \in t : m >= x
    OBVIOUS
  <2>1. CASE k + 1 \in t
    BY <2>1
  <2>2. CASE k + 1 \notin t
    <3>1. t \in SUBSET (0..k)
      BY <2>2
    <3> QED
      BY <1>2, <3>1, Zenon
  <2> QED
    BY <2>1, <2>2
<1> HIDE DEF HasMax
<1>3. N \in S
  <2>1. 0 \in S /\ \A k \in Nat : k \in S => k + 1 \in S
    BY <1>1, <1>2
  <2> HIDE DEF S
  <2> QED
    BY <2>1, SetInduction
<1>4. \E m \in s : \A x \in s : m >= x
  BY <1>3 DEF HasMax
<1>5. Max(s) \in s /\ \A x \in s : Max(s) >= x
  BY <1>4 DEF Max
<1>6. s \subseteq Int
  OBVIOUS
<1> QED
  BY <1>5, <1>6

(* The smallest element is the one below all others, and places have one.    *)
LEMMA MinIs ==
  ASSUME NEW s, NEW m \in s, s \subseteq Int, \A x \in s : m <= x
  PROVE  Min(s) = m
<1>1. \E x \in s : \A y \in s : x <= y
  OBVIOUS
<1>2. Min(s) \in s /\ \A y \in s : Min(s) <= y
  BY <1>1 DEF Min
<1>3. Min(s) <= m /\ Min(s) >= m /\ Min(s) \in Int /\ m \in Int
  BY <1>2
<1> QED
  BY <1>3

LEMMA MinOfPlaces ==
  ASSUME NEW N \in Nat, NEW s, s \subseteq 0..N, s # {}
  PROVE  Min(s) \in s /\ \A x \in s : Min(s) <= x
<1> DEFINE t == {N - x : x \in s}
<1>1. t \subseteq 0..N /\ t # {}
  <2>1. \A x \in s : N - x \in 0..N
    <3>1. \A x \in s : x \in Int /\ 0 <= x /\ x <= N
      OBVIOUS
    <3> QED
      BY <3>1
  <2> QED
    BY <2>1
<1>2. Max(t) \in t /\ \A x \in t : x <= Max(t)
  <2> HIDE DEF t
  <2> QED
    BY <1>1, MaxOfPlaces
<1>3. PICK m \in s : Max(t) = N - m
  BY <1>2
<1>4. \A x \in s : N - x <= N - m
  BY <1>2, <1>3
<1>5. \A x \in s : x \in Int /\ m <= x
  BY <1>4
<1>6. Min(s) = m
  BY <1>5, MinIs
<1> QED
  BY <1>5, <1>6

(* Places that have with each all those before it are the first ones.        *)
LEMMA FirstPlaces ==
  ASSUME NEW N \in Nat, NEW S \in SUBSET (1..N),
         \A i \in S : \A j \in 1..N : j < i => j \in S
  PROVE  S = 1..Cardinality(S) /\ Cardinality(S) \in 0..N
<1>1. CASE S = {}
  <2>1. Cardinality({}) = 0 /\ 1..0 = {}
    BY FS_EmptySet
  <2> QED
    BY <1>1, <2>1
<1>2. CASE S # {}
  <2> DEFINE m == Max(S)
  <2>0. S \subseteq 0..N
    OBVIOUS
  <2>1. m \in S /\ \A x \in S : x <= m
    BY <1>2, <2>0, MaxOfPlaces
  <2> HIDE DEF m
  <2>2. m \in 1..N
    BY <2>1
  <2>3. ASSUME NEW x \in 1..m PROVE x \in S
    <3>1. x \in 1..N /\ (x < m \/ x = m)
      BY <2>2
    <3> QED
      BY <2>1, <3>1
  <2>4. ASSUME NEW x \in S PROVE x \in 1..m
    <3>1. x \in 1..N /\ x <= m
      BY <2>1
    <3> QED
      BY <2>2, <3>1
  <2>5. S = 1..m
    BY <2>3, <2>4
  <2>6. Cardinality(1..m) = m
    BY <2>2, FS_Interval
  <2> QED
    BY <2>2, <2>5, <2>6
<1> QED
  BY <1>1, <1>2

(* The function FoldLeft defines itself by, over a sequence of N elements,   *)
(* where the loop body is step, of the place of the element and of what      *)
(* there is so far.                                                          *)
IsFold(g, N, base, step) ==
  \A s \in SUBSET (1..N) :
    g[s] = IF s = {} THEN base ELSE step[<<Max(s), g[s \ {Max(s)}]>>]

(* It exists, whatever the loop body does.                                   *)
LEMMA FoldExists ==
  ASSUME NEW N \in Nat, NEW A, NEW base \in A, NEW step \in [(1..N) \X A -> A]
  PROVE  \E g \in [SUBSET (1..N) -> A] : IsFold(g, N, base, step)
<1> DEFINE Good(g, k) ==
             \A s \in SUBSET (1..k) :
               g[s] = IF s = {} THEN base ELSE step[<<Max(s), g[s \ {Max(s)}]>>]
           Done(k) == \E g \in [SUBSET (1..k) -> A] : Good(g, k)
<1>1. Done(0)
  <2>1. SUBSET (1..0) = {{}}
    OBVIOUS
  <2> DEFINE g == [s \in SUBSET (1..0) |-> base]
  <2>2. g \in [SUBSET (1..0) -> A] /\ Good(g, 0)
    BY <2>1
  <2> QED
    BY <2>2
<1>2. ASSUME NEW k \in Nat, Done(k), k + 1 <= N PROVE Done(k + 1)
  <2>1. PICK g \in [SUBSET (1..k) -> A] : Good(g, k)
    BY <1>2
  <2> DEFINE h == [s \in SUBSET (1..(k + 1)) |->
                     IF k + 1 \in s THEN step[<<k + 1, g[s \ {k + 1}]>>] ELSE g[s]]
  <2>2. \A s \in SUBSET (1..(k + 1)) :
          /\ k + 1 \in s => s \ {k + 1} \in SUBSET (1..k) /\ Max(s) = k + 1
          /\ k + 1 \notin s => s \in SUBSET (1..k)
    <3> SUFFICES ASSUME NEW s \in SUBSET (1..(k + 1))
                 PROVE  /\ k + 1 \in s => s \ {k + 1} \in SUBSET (1..k) /\ Max(s) = k + 1
                        /\ k + 1 \notin s => s \in SUBSET (1..k)
      OBVIOUS
    <3>1. \A x \in s : x \in Int /\ x <= k + 1 /\ (x # k + 1 => x \in 1..k)
      OBVIOUS
    <3>2. k + 1 \in s => Max(s) = k + 1
      BY <3>1, MaxIs
    <3> QED
      BY <3>1, <3>2
  <2>3. h \in [SUBSET (1..(k + 1)) -> A]
    <3> SUFFICES ASSUME NEW s \in SUBSET (1..(k + 1)) PROVE h[s] \in A
      OBVIOUS
    <3>1. CASE k + 1 \in s
      <4>1. g[s \ {k + 1}] \in A /\ k + 1 \in 1..N
        BY <1>2, <2>2, <3>1
      <4>2. <<k + 1, g[s \ {k + 1}]>> \in (1..N) \X A
        BY <4>1
      <4> QED
        BY <3>1, <4>2
    <3>2. CASE k + 1 \notin s
      BY <2>2, <3>2
    <3> QED
      BY <3>1, <3>2
  <2>4. Good(h, k + 1)
    <3> SUFFICES ASSUME NEW s \in SUBSET (1..(k + 1))
                 PROVE h[s] = IF s = {} THEN base ELSE step[<<Max(s), h[s \ {Max(s)}]>>]
      OBVIOUS
    <3>1. CASE k + 1 \in s
      <4>1. h[s] = step[<<k + 1, g[s \ {k + 1}]>>] /\ Max(s) = k + 1 /\ s # {}
        BY <2>2, <3>1
      <4>2. s \ {k + 1} \in SUBSET (1..(k + 1)) /\ h[s \ {k + 1}] = g[s \ {k + 1}]
        BY <2>2
      <4> QED
        BY <4>1, <4>2
    <3>2. CASE k + 1 \notin s
      <4>1. s \in SUBSET (1..k) /\ h[s] = g[s]
        BY <2>2, <3>2
      <4>2. h[s \ {Max(s)}] = g[s \ {Max(s)}]
        BY <3>2
      <4> HIDE DEF h
      <4> QED
        BY <2>1, <4>1, <4>2
    <3> QED
      BY <3>1, <3>2
  <2> QED
    BY <2>3, <2>4
<1> HIDE DEF Done
<1> DEFINE S == {k \in Nat : k <= N => Done(k)}
<1>3. N \in S
  <2>1. 0 \in S /\ \A k \in Nat : k \in S => k + 1 \in S
    BY <1>1, <1>2
  <2> HIDE DEF S
  <2> QED
    BY <2>1, SetInduction
<1>4. Done(N)
  BY <1>3
<1> QED
  BY <1>4 DEF Done, IsFold

=================================================================================
