------------------------- MODULE SubsequencesProofs -------------------------
(***************************************************************************)
(* What a loop that keeps some elements of a slice leaves: the lemmas about *)
(* Nth and Subsequence that the proofs about MeshAnt's filters rest on.     *)
(***************************************************************************)
EXTENDS Subsequences, TLAPS, FiniteSetTheorems, FunctionTheorems

\* How many of K are k or less.
Rank(K, k) == Cardinality({ j \in K : j =< k })

\* Ranks number the elements of a finite set of integers from 1, in order.
LEMMA RankFacts ==
    ASSUME NEW K \in SUBSET Int, IsFiniteSet(K)
    PROVE  /\ Cardinality(K) \in Nat
           /\ \A k \in K : Rank(K, k) \in 1..Cardinality(K)
           /\ \A j, k \in K : j < k => Rank(K, j) < Rank(K, k)
           /\ \A j, k \in K : Rank(K, j) = Rank(K, k) => j = k
           /\ \A n \in 1..Cardinality(K) : \E k \in K : Rank(K, k) = n
<1> DEFINE N == Cardinality(K)
           Upto(k) == { j \in K : j =< k }
<1>1. N \in Nat
  BY FS_CardinalityType
<1>2. ASSUME NEW k \in K
      PROVE  IsFiniteSet(Upto(k)) /\ Rank(K, k) \in 1..N
  <2>1. Upto(k) \in SUBSET K /\ k \in Upto(k)
    OBVIOUS
  <2>2. /\ IsFiniteSet(Upto(k)) /\ Cardinality(Upto(k)) =< N
        /\ Cardinality(Upto(k)) \in Nat
    BY <2>1, FS_Subset, FS_CardinalityType
  <2>3. Cardinality(Upto(k)) # 0
    BY <2>1, <2>2, FS_EmptySet
  <2> QED
    BY <1>1, <2>2, <2>3 DEF Rank
<1>3. ASSUME NEW j \in K, NEW k \in K, j < k
      PROVE  Rank(K, j) < Rank(K, k)
  <2> j \in Int /\ k \in Int
    OBVIOUS
  <2>1. Upto(j) \in SUBSET Upto(k) /\ k \in Upto(k) /\ k \notin Upto(j)
    <3>1. \A i \in K : i \in Int
      OBVIOUS
    <3>2. \A i \in K : i =< j => i =< k
      BY <1>3, <3>1
    <3>3. k =< k /\ ~(k =< j)
      BY <1>3
    <3> QED
      BY <3>2, <3>3
  <2>2. Upto(j) # Upto(k)
    BY <2>1
  <2>3. Cardinality(Upto(j)) =< Cardinality(Upto(k)) /\ Cardinality(Upto(j)) # Cardinality(Upto(k))
    <3> HIDE DEF Upto
    <3> QED
      BY <1>2, <2>1, <2>2, FS_Subset
  <2> QED
    BY <1>2, <2>3 DEF Rank
<1>4. ASSUME NEW j \in K, NEW k \in K, Rank(K, j) = Rank(K, k)
      PROVE  j = k
  <2>1. j \in Int /\ k \in Int /\ Rank(K, j) \in Nat /\ Rank(K, k) \in Nat
    <3>1. \A n \in 1..N : n \in Nat
      BY <1>1
    <3> QED
      BY <1>2, <3>1
  <2>2. (j < k => Rank(K, j) < Rank(K, k)) /\ (k < j => Rank(K, k) < Rank(K, j))
    BY <1>3
  <2> QED
    BY <1>4, <2>1, <2>2
<1>5. \A n \in 1..N : \E k \in K : Rank(K, k) = n
  <2> DEFINE r == [k \in K |-> Rank(K, k)]
  <2>1. r \in [K -> 1..N] /\ \A j, k \in K : r[j] = r[k] => j = k
    BY <1>2, <1>4
  <2>2. r \in Injection(K, 1..N)
    BY <2>1, Fun_IsInj
  <2>3. IsFiniteSet(1..N) /\ Cardinality(1..N) = N
    BY <1>1, FS_Interval
  <2>4. r \in Surjection(K, 1..N)
    <3> HIDE DEF r
    <3> QED
      BY <2>2, <2>3, FS_Injection
  <2>5. \A n \in 1..N : \E k \in K : r[k] = n
    <3> HIDE DEF r
    <3> QED
      BY <2>4, Fun_SurjectionProperties
  <2> QED
    BY <2>5
<1> HIDE DEF Upto
<1> QED
  BY <1>1, <1>2, <1>3, <1>4, <1>5

\* Nth enumerates a finite set of integers in increasing order, each once.
LEMMA NthFacts ==
    ASSUME NEW K \in SUBSET Int, IsFiniteSet(K)
    PROVE  /\ Cardinality(K) \in Nat
           /\ \A n \in 1..Cardinality(K) : Nth(K, n) \in K /\ Rank(K, Nth(K, n)) = n
           /\ \A k \in K : Rank(K, k) \in 1..Cardinality(K) /\ Nth(K, Rank(K, k)) = k
           /\ \A m, n \in 1..Cardinality(K) : m < n <=> Nth(K, m) < Nth(K, n)
<1>1. ASSUME NEW n \in 1..Cardinality(K)
      PROVE  Nth(K, n) \in K /\ Rank(K, Nth(K, n)) = n
  <2>1. \E k \in K : Cardinality({ j \in K : j =< k }) = n
    BY RankFacts DEF Rank
  <2> QED
    BY <2>1 DEF Nth, Rank
<1>2. ASSUME NEW k \in K
      PROVE  Rank(K, k) \in 1..Cardinality(K) /\ Nth(K, Rank(K, k)) = k
  <2>1. Rank(K, k) \in 1..Cardinality(K) /\ \A j \in K : Rank(K, j) = Rank(K, k) => j = k
    BY RankFacts
  <2> QED
    BY <1>1, <2>1
<1>3. ASSUME NEW m \in 1..Cardinality(K), NEW n \in 1..Cardinality(K)
      PROVE  m < n <=> Nth(K, m) < Nth(K, n)
  <2>1. /\ Nth(K, m) \in K /\ Nth(K, n) \in K
        /\ Rank(K, Nth(K, m)) = m /\ Rank(K, Nth(K, n)) = n
    BY <1>1
  <2>2. Nth(K, m) \in Int /\ Nth(K, n) \in Int
    BY <2>1
  <2>3. \A j, k \in K : j < k => Rank(K, j) < Rank(K, k)
    BY RankFacts
  <2>4. /\ Nth(K, m) < Nth(K, n) => m < n
        /\ Nth(K, n) < Nth(K, m) => n < m
        /\ Nth(K, n) = Nth(K, m) => n = m
    BY <2>1, <2>3
  <2>5. m \in Int /\ n \in Int
    <3>1. Cardinality(K) \in Nat
      BY RankFacts
    <3> QED
      BY <3>1
  <2> QED
    BY <2>2, <2>4, <2>5
<1> QED
  BY <1>1, <1>2, <1>3, RankFacts

\* What is kept of a sequence: a sequence as long as there are places kept, of
\* exactly the elements at those places.
LEMMA SubsequenceFacts ==
    ASSUME NEW s, NEW K \in SUBSET Int, IsFiniteSet(K)
    PROVE  /\ DOMAIN Subsequence(s, K) = 1..Cardinality(K)
           /\ Cardinality(K) \in Nat
           /\ \A n \in DOMAIN Subsequence(s, K) :
                 Nth(K, n) \in K /\ Subsequence(s, K)[n] = s[Nth(K, n)]
           /\ \A k \in K : \E n \in DOMAIN Subsequence(s, K) :
                 Nth(K, n) = k /\ Subsequence(s, K)[n] = s[k]
  BY NthFacts DEF Subsequence

\* A subsequence has one element for each position kept, each of them an
\* element of the sequence.
LEMMA SubsequenceType ==
    ASSUME NEW S, NEW s, NEW K \in SUBSET Int, IsFiniteSet(K), \A k \in K : s[k] \in S
    PROVE  /\ Subsequence(s, K) \in Seq(S)
           /\ Len(Subsequence(s, K)) = Cardinality(K)
<1>1. Cardinality(K) \in Nat
  BY NthFacts
<1>2. Subsequence(s, K) \in [1..Cardinality(K) -> S]
  BY NthFacts DEF Subsequence
<1>3. Subsequence(s, K) \in Seq(S)
  BY <1>1, <1>2
<1> QED
  BY <1>1, <1>2, <1>3

\* The places of a sequence are finitely many integers.
LEMMA Places ==
    ASSUME NEW S, NEW s \in Seq(S), NEW K \in SUBSET DOMAIN s
    PROVE  K \in SUBSET Int /\ IsFiniteSet(K)
<1>1. DOMAIN s = 1..Len(s) /\ Len(s) \in Nat
  OBVIOUS
<1>2. IsFiniteSet(1..Len(s))
  BY <1>1, FS_Interval
<1> QED
  BY <1>1, <1>2, FS_Subset

\* A place after all that are kept adds the element there at the end.
LEMMA NthExtended ==
    ASSUME NEW K \in SUBSET Int, IsFiniteSet(K), NEW m \in Int, \A k \in K : k < m
    PROVE  LET K2 == K \cup {m} IN
           /\ K2 \in SUBSET Int /\ IsFiniteSet(K2)
           /\ Cardinality(K) \in Nat /\ Cardinality(K2) = Cardinality(K) + 1
           /\ Nth(K2, Cardinality(K) + 1) = m
           /\ \A n \in 1..Cardinality(K) : Nth(K2, n) = Nth(K, n)
<1> DEFINE K2 == K \cup {m}
           N == Cardinality(K)
<1>1. m \notin K
  OBVIOUS
<1>2. /\ IsFiniteSet(K2) /\ Cardinality(K2) = N + 1 /\ N \in Nat
  BY <1>1, FS_AddElement, FS_CardinalityType
<1>3. K2 \in SUBSET Int
  OBVIOUS
<1>4. \A k \in K : Rank(K2, k) = Rank(K, k)
  <2>1. \A k \in K : { j \in K2 : j =< k } = { j \in K : j =< k }
    OBVIOUS
  <2> QED
    BY <2>1 DEF Rank
<1>5. Rank(K2, m) = N + 1
  <2>1. \A j \in K2 : j \in Int /\ j =< m
    OBVIOUS
  <2>2. { j \in K2 : j =< m } = K2
    BY <2>1
  <2> QED
    BY <1>2, <2>2 DEF Rank
<1> HIDE DEF K2, N
<1>6. Nth(K2, N + 1) = m
  BY <1>2, <1>3, <1>5, NthFacts DEF K2
<1>7. ASSUME NEW n \in 1..N
      PROVE  Nth(K2, n) = Nth(K, n)
  <2>1. Nth(K, n) \in K /\ Rank(K, Nth(K, n)) = n
    BY NthFacts DEF N
  <2>2. Nth(K, n) \in K2 /\ Rank(K2, Nth(K, n)) = n
    BY <2>1, <1>4 DEF K2
  <2> QED
    BY <2>2, <1>2, <1>3, NthFacts
<1> QED
  BY <1>2, <1>3, <1>6, <1>7 DEF K2, N

\* A finite set of integers has a first and a last element.
LEMMA FirstAndLast ==
    ASSUME NEW K \in SUBSET Int, IsFiniteSet(K), K # {}
    PROVE  /\ \E m \in K : \A k \in K : k =< m
           /\ \E m \in K : \A k \in K : m =< k
<1> DEFINE N == Cardinality(K)
<1>1. N \in Nat /\ N # 0
  BY FS_CardinalityType, FS_EmptySet
<1>2. 1 \in 1..N /\ N \in 1..N
  BY <1>1
<1>3. ASSUME NEW k \in K
      PROVE  k =< Nth(K, N) /\ Nth(K, 1) =< k
  <2>1. Rank(K, k) \in 1..N /\ Nth(K, Rank(K, k)) = k
    BY NthFacts
  <2>2. \A m, n \in 1..N : m < n <=> Nth(K, m) < Nth(K, n)
    BY NthFacts
  <2>3. Rank(K, k) \in Nat /\ 1 =< Rank(K, k) /\ Rank(K, k) =< N
    BY <1>1, <2>1
  <2>4. CASE Rank(K, k) = N
    <3>1. k = Nth(K, N) /\ k \in Int
      BY <2>1, <2>4
    <3>2. Nth(K, 1) \in K
      BY <1>2, NthFacts
    <3>3. N = 1 \/ 1 < N
      BY <1>1
    <3>4. N = 1 \/ Nth(K, 1) < Nth(K, N)
      BY <1>2, <2>2, <3>3
    <3>5. \A j \in K : j \in Int /\ j =< j
      OBVIOUS
    <3>6. Nth(K, 1) \in Int /\ k =< k
      BY <3>2, <3>5
    <3> QED
      BY <3>1, <3>4, <3>6
  <2>5. CASE Rank(K, k) < N
    <3>1. k < Nth(K, N)
      BY <1>2, <2>1, <2>2, <2>5
    <3>2. Rank(K, k) = 1 \/ Nth(K, 1) < k
      BY <1>2, <2>1, <2>2, <2>3
    <3>3. k \in Int /\ Nth(K, N) \in Int /\ Nth(K, 1) \in Int
      BY <1>2, NthFacts
    <3> QED
      BY <2>1, <3>1, <3>2, <3>3
  <2> QED
    BY <1>1, <2>3, <2>4, <2>5
<1>4. Nth(K, N) \in K /\ Nth(K, 1) \in K
  BY <1>2, NthFacts
<1> QED
  BY <1>3, <1>4

(***************************************************************************)
(* Sequences of whatever they hold.                                         *)
(***************************************************************************)

List(u) == u \in Seq(Range(u))

\* What makes a function a sequence, whatever its values are.
LEMMA ListFacts ==
    ASSUME NEW u
    PROVE  /\ List(u) => /\ Len(u) \in Nat /\ DOMAIN u = 1..Len(u)
                         /\ u = [j \in DOMAIN u |-> u[j]]
                         /\ (u = <<>> <=> Len(u) = 0)
                         /\ u # <<>> => Len(u) \in DOMAIN u /\ 1 \in DOMAIN u
           /\ \A n \in Nat : u = [j \in 1..n |-> u[j]] => List(u) /\ Len(u) = n
<1>1. ASSUME List(u)
      PROVE  /\ Len(u) \in Nat /\ DOMAIN u = 1..Len(u)
             /\ u = [j \in DOMAIN u |-> u[j]]
             /\ (u = <<>> <=> Len(u) = 0)
             /\ u # <<>> => Len(u) \in DOMAIN u /\ 1 \in DOMAIN u
  BY <1>1 DEF List
<1>2. ASSUME NEW n \in Nat, u = [j \in 1..n |-> u[j]]
      PROVE  List(u) /\ Len(u) = n
  <2>1. DOMAIN u = 1..n
    BY <1>2
  <2>2. \A j \in 1..n : u[j] \in Range(u)
    BY <2>1 DEF Range
  <2>3. u \in [1..n -> Range(u)]
    BY <1>2, <2>2
  <2> QED
    BY <2>3 DEF List
<1> QED
  BY <1>1, <1>2

\* An element replaced.
LEMMA Replaced ==
    ASSUME NEW u, List(u), NEW i \in DOMAIN u, NEW x
    PROVE  LET w == [u EXCEPT ![i] = x] IN
           /\ List(w) /\ Len(w) = Len(u) /\ DOMAIN w = DOMAIN u
           /\ w[i] = x /\ \A j \in DOMAIN u : j # i => w[j] = u[j]
<1> DEFINE w == [u EXCEPT ![i] = x]
<1>1. DOMAIN w = DOMAIN u /\ w[i] = x /\ \A j \in DOMAIN u : j # i => w[j] = u[j]
  OBVIOUS
<1>2. w = [j \in DOMAIN u |-> w[j]]
  OBVIOUS
<1>3. DOMAIN u = 1..Len(u) /\ Len(u) \in Nat
  BY ListFacts
<1> HIDE DEF w
<1>4. List(w) /\ Len(w) = Len(u)
  BY <1>2, <1>3, ListFacts
<1> QED
  BY <1>1, <1>4 DEF w

\* Every element replaced, or kept.
LEMMA Replacing ==
    ASSUME NEW u, List(u), NEW w, w = [j \in DOMAIN u |-> w[j]]
    PROVE  List(w) /\ Len(w) = Len(u) /\ DOMAIN w = DOMAIN u
<1>1. DOMAIN u = 1..Len(u) /\ Len(u) \in Nat
  BY ListFacts
<1> QED
  BY <1>1, ListFacts

\* An element appended.
LEMMA Appended ==
    ASSUME NEW u, List(u), NEW x
    PROVE  LET w == Append(u, x) IN
           /\ List(w) /\ Len(w) = Len(u) + 1 /\ DOMAIN w = 1..(Len(u) + 1)
           /\ w[Len(u) + 1] = x /\ \A j \in DOMAIN u : j \in DOMAIN w /\ w[j] = u[j]
           /\ \A j \in DOMAIN w : j \in DOMAIN u \/ j = Len(u) + 1
<1> DEFINE S == Range(u) \cup {x}
           w == Append(u, x)
<1>1. u \in Seq(S)
  BY DEF List
<1>2. x \in S
  OBVIOUS
<1>3. DOMAIN u = 1..Len(u) /\ Len(u) \in Nat
  BY ListFacts
<1> HIDE DEF S
<1>4. /\ w \in Seq(S) /\ Len(w) = Len(u) + 1 /\ DOMAIN w = 1..(Len(u) + 1)
      /\ w[Len(u) + 1] = x /\ \A j \in 1..Len(u) : w[j] = u[j]
  BY <1>1, <1>2
<1> HIDE DEF w
<1>5. List(w)
  <2>1. w = [j \in 1..(Len(u) + 1) |-> w[j]] /\ Len(u) + 1 \in Nat
    BY <1>3, <1>4
  <2> QED
    BY <2>1, ListFacts
<1>6. \A j \in DOMAIN u : j \in DOMAIN w
  BY <1>3, <1>4
<1>7. \A j \in DOMAIN w : j \in DOMAIN u \/ j = Len(u) + 1
  BY <1>3, <1>4
<1> QED
  BY <1>3, <1>4, <1>5, <1>6, <1>7 DEF w


\* A sequence with an element appended, element by element.
LEMMA AppendedList ==
    ASSUME NEW S, NEW q \in Seq(S), NEW x \in S
    PROVE  Append(q, x) = [n \in 1..(Len(q) + 1) |-> IF n = Len(q) + 1 THEN x ELSE q[n]]
<1> DEFINE e == Append(q, x)
<1>1. /\ e \in Seq(S) /\ Len(e) = Len(q) + 1 /\ e[Len(q) + 1] = x
      /\ \A n \in 1..Len(q) : e[n] = q[n]
  OBVIOUS
<1>2. Len(q) \in Nat
  OBVIOUS
<1> HIDE DEF e
<1>3. e = [n \in 1..(Len(q) + 1) |-> e[n]]
  BY <1>1
<1>4. \A n \in 1..(Len(q) + 1) : e[n] = IF n = Len(q) + 1 THEN x ELSE q[n]
  BY <1>1, <1>2
<1> QED
  BY <1>3, <1>4 DEF e

\* Part of a sequence to which an element was appended.
LEMMA SubsequenceAppended ==
    ASSUME NEW S, NEW s \in Seq(S), NEW x \in S, NEW K \in SUBSET DOMAIN s
    PROVE  /\ Subsequence(Append(s, x), K) = Subsequence(s, K)
           /\ Subsequence(Append(s, x), K \cup {Len(s) + 1}) = Append(Subsequence(s, K), x)
<1> DEFINE w == Append(s, x)
           m == Len(s) + 1
           N == Cardinality(K)
           K2 == K \cup {m}
<1>1. /\ m \in Int /\ \A k \in K : k < m /\ w[k] = s[k] /\ s[k] \in S
      /\ w[m] = x
  OBVIOUS
<1>2. K \in SUBSET Int /\ IsFiniteSet(K)
  BY Places
<1>3. /\ K2 \in SUBSET Int /\ IsFiniteSet(K2) /\ N \in Nat /\ Cardinality(K2) = N + 1
      /\ Nth(K2, N + 1) = m /\ \A n \in 1..N : Nth(K2, n) = Nth(K, n)
  <2> HIDE DEF m
  <2> QED
    BY <1>1, <1>2, NthExtended
<1>4. \A n \in 1..N : Nth(K, n) \in K
  BY <1>2, NthFacts
<1> HIDE DEF w, m, N, K2
<1>5. Subsequence(w, K) = Subsequence(s, K)
  BY <1>1, <1>4 DEF Subsequence, N
<1>6. Subsequence(s, K) \in Seq(S) /\ Len(Subsequence(s, K)) = N
  BY <1>1, <1>2, SubsequenceType DEF N
<1>7. \A n \in 1..N : Subsequence(s, K)[n] = s[Nth(K, n)]
  BY DEF Subsequence, N
<1>8. Subsequence(w, K2) = [n \in 1..(N + 1) |-> w[Nth(K2, n)]]
  BY <1>3 DEF Subsequence
<1>9. \A n \in 1..(N + 1) : w[Nth(K2, n)] = IF n = N + 1 THEN x ELSE Subsequence(s, K)[n]
  <2> SUFFICES ASSUME NEW n \in 1..(N + 1)
               PROVE  w[Nth(K2, n)] = IF n = N + 1 THEN x ELSE Subsequence(s, K)[n]
    OBVIOUS
  <2>1. CASE n = N + 1
    BY <1>1, <1>3, <2>1
  <2>2. CASE n # N + 1
    <3>1. n \in 1..N
      BY <1>3, <2>2
    <3> QED
      BY <1>1, <1>3, <1>4, <1>7, <2>2, <3>1
  <2> QED
    BY <2>1, <2>2
<1>10. Append(Subsequence(s, K), x)
         = [n \in 1..(N + 1) |-> IF n = N + 1 THEN x ELSE Subsequence(s, K)[n]]
  <2> DEFINE q == Subsequence(s, K)
  <2> HIDE DEF q
  <2>1. q \in Seq(S) /\ Len(q) = N
    BY <1>6 DEF q
  <2>2. Append(q, x) = [n \in 1..(Len(q) + 1) |-> IF n = Len(q) + 1 THEN x ELSE q[n]]
    BY <2>1, AppendedList
  <2> QED
    BY <2>1, <2>2 DEF q
<1>11. Subsequence(w, K2) = Append(Subsequence(s, K), x)
  BY <1>8, <1>9, <1>10
<1> QED
  BY <1>5, <1>11 DEF w, m, K2

\* f tells where in s the elements of a part come from: all places K, each once.
IsOrigin(f, part, s, K) ==
    /\ f \in [DOMAIN part -> K]
    /\ \A n \in DOMAIN part : part[n] = s[f[n]]
    /\ \A m, n \in DOMAIN part : f[m] = f[n] => m = n
    /\ \A k \in K : \E n \in DOMAIN part : f[n] = k

\* Each element of a part of a sequence comes from a place of its own.
LEMMA PartOf ==
    ASSUME NEW S, NEW s \in Seq(S), NEW K \in SUBSET DOMAIN s
    PROVE  /\ Subsequence(s, K) \in Seq(S)
           /\ Len(Subsequence(s, K)) = Cardinality(K)
           /\ \E f : IsOrigin(f, Subsequence(s, K), s, K)
<1> DEFINE part == Subsequence(s, K)
           f == [n \in 1..Cardinality(K) |-> Nth(K, n)]
<1>1. K \in SUBSET Int /\ IsFiniteSet(K)
  BY Places
<1>2. part \in Seq(S) /\ Len(part) = Cardinality(K)
  BY <1>1, SubsequenceType
<1>3. DOMAIN part = 1..Cardinality(K) /\ Cardinality(K) \in Nat
  BY <1>1, SubsequenceFacts
<1>4. f \in [DOMAIN part -> K]
  BY <1>1, <1>3, NthFacts
<1>5. ASSUME NEW n \in DOMAIN part
      PROVE  part[n] = s[f[n]]
  BY <1>1, <1>3, SubsequenceFacts
<1>6. ASSUME NEW m \in DOMAIN part, NEW n \in DOMAIN part, f[m] = f[n]
      PROVE  m = n
  <2>1. Nth(K, m) = Nth(K, n) /\ m \in 1..Cardinality(K) /\ n \in 1..Cardinality(K)
    BY <1>3, <1>6
  <2>2. Rank(K, Nth(K, m)) = m /\ Rank(K, Nth(K, n)) = n
    BY <1>1, <2>1, NthFacts
  <2> QED
    BY <2>1, <2>2
<1>7. ASSUME NEW k \in K
      PROVE  \E n \in DOMAIN part : f[n] = k
  <2>1. Rank(K, k) \in 1..Cardinality(K) /\ Nth(K, Rank(K, k)) = k
    BY <1>1, NthFacts
  <2> QED
    BY <1>3, <2>1
<1> HIDE DEF f, part
<1>8. IsOrigin(f, part, s, K)
  BY <1>4, <1>5, <1>6, <1>7 DEF IsOrigin
<1> QED
  BY <1>2, <1>8 DEF part

\* A part of one place is that element; a part of none is empty.
LEMMA SmallSubsequences ==
    ASSUME NEW s
    PROVE  /\ Subsequence(s, {}) = <<>>
           /\ \A k \in Int : Subsequence(s, {k}) = <<s[k]>>
<1>1. ASSUME NEW k \in Int
      PROVE  Subsequence(s, {k}) = <<s[k]>>
  <2>1. {k} \in SUBSET Int /\ IsFiniteSet({k}) /\ Cardinality({k}) = 1
    BY FS_Singleton
  <2>2. Nth({k}, 1) = k
    BY <2>1, NthFacts
  <2>3. Subsequence(s, {k}) = [n \in 1..1 |-> s[Nth({k}, n)]]
    BY <2>1 DEF Subsequence
  <2> QED
    BY <2>2, <2>3
<1>2. Cardinality({}) = 0
  BY FS_EmptySet
<1>3. Subsequence(s, {}) = <<>>
  BY <1>2 DEF Subsequence
<1> QED
  BY <1>1, <1>3

\* A sequence without repetitions of members of a finite set is no longer than
\* the set is large.
LEMMA NoLongerThan ==
    ASSUME NEW S, IsFiniteSet(S), NEW c \in Seq(S), \A m, n \in DOMAIN c : c[m] = c[n] => m = n
    PROVE  Len(c) =< Cardinality(S)
<1>1. Len(c) \in Nat /\ DOMAIN c = 1..Len(c) /\ c \in [1..Len(c) -> S]
  OBVIOUS
<1>2. IsFiniteSet(1..Len(c)) /\ Cardinality(1..Len(c)) = Len(c)
  BY <1>1, FS_Interval
<1>3. c \in Injection(1..Len(c), S)
  BY <1>1, Fun_IsInj
<1>4. Cardinality(1..Len(c)) =< Cardinality(S)
  BY <1>2, <1>3, FS_Injection
<1> QED
  BY <1>2, <1>4

(***************************************************************************)
(* A loop that runs for a number of rounds, as a function of the round.    *)
(***************************************************************************)

\* What is so before a loop, and after a round if it was so before it, is so
\* after each of N rounds.
LEMMA Rounds ==
    ASSUME NEW N \in Nat, NEW Q, 0 \in Q, \A n \in 0..(N - 1) : n \in Q => n + 1 \in Q
    PROVE  0..N \subseteq Q
<1> DEFINE K == { n \in 0..N : n \notin Q }
<1>1. K \in SUBSET Int /\ IsFiniteSet(K)
  <2>1. IsFiniteSet(0..N)
    BY FS_Interval
  <2> QED
    BY <2>1, FS_Subset
<1>2. ASSUME NEW m \in K, \A k \in K : m =< k
      PROVE  FALSE
  <2>1. m # 0 /\ m \in 0..N
    OBVIOUS
  <2>2. m - 1 \in 0..(N - 1) /\ m - 1 \notin K
    BY <1>2, <2>1
  <2>3. m - 1 \in Q
    BY <2>2
  <2> QED
    BY <2>1, <2>2, <2>3
<1>3. K = {}
  BY <1>1, <1>2, FirstAndLast
<1> QED
  BY <1>3

\* The values before a loop and after each of its N rounds.
IsLoop(f, N, start, F) == f = [n \in 0..N |-> IF n = 0 THEN start ELSE F[f[n - 1]]]

\* There are such values, if each round turns a value into one of a kind.
LEMMA LoopExists ==
    ASSUME NEW N \in Nat, NEW T, NEW a \in T, NEW F \in [T -> T]
    PROVE  \E f \in [0..N -> T] : IsLoop(f, N, a, F)
<1> DEFINE Is(f, m) == IsLoop(f, m, a, F)
           Q == { m \in Nat : \E f \in [0..m -> T] : Is(f, m) }
<1>1. 0 \in Q
  <2> DEFINE f == [n \in 0..0 |-> a]
  <2>1. f \in [0..0 -> T]
    OBVIOUS
  <2>2. Is(f, 0)
    BY DEF IsLoop
  <2> HIDE DEF Is, f
  <2> QED
    BY <2>1, <2>2
<1>2. ASSUME NEW m \in Nat, m \in Q
      PROVE  m + 1 \in Q
  <2>1. PICK f \in [0..m -> T] : Is(f, m)
    BY <1>2
  <2> DEFINE g == [n \in 0..(m + 1) |-> IF n = m + 1 THEN F[f[m]] ELSE f[n]]
  <2>2. g \in [0..(m + 1) -> T]
    OBVIOUS
  <2>3. ASSUME NEW n \in 0..(m + 1)
        PROVE  g[n] = IF n = 0 THEN a ELSE F[g[n - 1]]
    <3>1. CASE n = m + 1
      <4>1. n - 1 = m /\ m \in 0..(m + 1) /\ m # m + 1 /\ n # 0
        BY <3>1
      <4> QED
        BY <3>1, <4>1
    <3>2. CASE n = 0
      <4>1. f[0] = a
        BY <2>1 DEF IsLoop
      <4> QED
        BY <3>2, <4>1
    <3>3. CASE n \in 1..m
      <4>1. n \in 0..m /\ n # 0 /\ n # m + 1 /\ n - 1 \in 0..(m + 1) /\ n - 1 # m + 1
        BY <3>3
      <4>2. g[n] = f[n] /\ g[n - 1] = f[n - 1]
        BY <4>1
      <4>3. f[n] = F[f[n - 1]]
        BY <2>1, <4>1 DEF IsLoop
      <4> QED
        BY <4>1, <4>2, <4>3
    <3> QED
      BY <3>1, <3>2, <3>3
  <2>4. Is(g, m + 1)
    <3> HIDE DEF g
    <3> QED
      BY <2>2, <2>3 DEF IsLoop
  <2> HIDE DEF Is, g
  <2> QED
    BY <2>2, <2>4
<1>3. 0..N \subseteq Q
  <2> HIDE DEF Q
  <2> QED
    BY <1>1, <1>2, Rounds
<1> QED
  BY <1>3 DEF IsLoop

\* What a set leads to by one step of a relation, and a loop that adds that in
\* each of N rounds.
Image(R, c) == { e[2] : e \in { e \in R : e[1] \in c } }
IsGrowth(f, N, start, R) ==
    f = [n \in 0..N |-> IF n = 0 THEN start ELSE f[n - 1] \cup Image(R, f[n - 1])]

\* Such a loop can be run.
LEMMA GrowthExists ==
    ASSUME NEW N \in Nat, NEW X, NEW start \in SUBSET X, NEW R, \A e \in R : e[2] \in X
    PROVE  \E f : IsGrowth(f, N, start, R)
<1> DEFINE T == SUBSET X
           F == [c \in T |-> c \cup Image(R, c)]
<1>1. F \in [T -> T] /\ \A c \in T : F[c] = c \cup Image(R, c)
  BY DEF Image
<1>2. start \in T
  OBVIOUS
<1> HIDE DEF F, T
<1>3. PICK f \in [0..N -> T] : IsLoop(f, N, start, F)
  BY <1>1, <1>2, LoopExists
<1>4. ASSUME NEW n \in 0..N, n # 0
      PROVE  F[f[n - 1]] = f[n - 1] \cup Image(R, f[n - 1])
  <2>1. n - 1 \in 0..N
    BY <1>4
  <2> QED
    BY <1>1, <2>1
<1>5. IsGrowth(f, N, start, R)
  BY <1>3, <1>4 DEF IsLoop, IsGrowth
<1> QED
  BY <1>5

\* After as many rounds as there are elements nothing is left to add: the loop
\* has reached the smallest set that holds the start and all it leads to.
LEMMA GrowthFacts ==
    ASSUME NEW N \in Nat, NEW X, IsFiniteSet(X), Cardinality(X) =< N,
           NEW start \in SUBSET X, NEW R, \A e \in R : e[2] \in X,
           NEW f, IsGrowth(f, N, start, R)
    PROVE  /\ start \subseteq f[N] /\ f[N] \subseteq X
           /\ Image(R, f[N]) \subseteq f[N]
           /\ \A C : start \subseteq C /\ Image(R, C) \subseteq C => f[N] \subseteq C
<1>1. /\ f[0] = start
      /\ \A n \in 0..(N - 1) : n + 1 \in 0..N /\ f[n + 1] = f[n] \cup Image(R, f[n])
  <2>1. f[0] = start
    BY DEF IsGrowth
  <2>2. ASSUME NEW n \in 0..(N - 1)
        PROVE  n + 1 \in 0..N /\ f[n + 1] = f[n] \cup Image(R, f[n])
    <3>1. n + 1 \in 0..N /\ n + 1 # 0 /\ (n + 1) - 1 = n
      OBVIOUS
    <3> QED
      BY <3>1 DEF IsGrowth
  <2> QED
    BY <2>1, <2>2
<1>2. \A c : Image(R, c) \subseteq X
  BY DEF Image
<1>3. N \in 0..N /\ 0 \in 0..N
  OBVIOUS
<1> DEFINE Closed(c) == Image(R, c) \subseteq c
           Good(n, c) == /\ start \subseteq c /\ c \subseteq X
                         /\ Closed(c) \/ Cardinality(c) >= n + 1
           Q == { n \in 0..N : Good(n, f[n]) }
<1>4. 0 \in Q
  <2>1. CASE start = {}
    <3>1. Closed(start)
      BY <2>1 DEF Image
    <3> QED
      BY <1>1, <1>3, <3>1
  <2>2. CASE start # {}
    <3>1. PICK x \in start : TRUE
      BY <2>2
    <3>2. IsFiniteSet({x}) /\ Cardinality({x}) = 1
      BY FS_Singleton
    <3>3. IsFiniteSet(start) /\ Cardinality(start) \in Nat
      BY FS_Subset, FS_CardinalityType
    <3>4. {x} \in SUBSET start
      BY <3>1
    <3>5. Cardinality({x}) =< Cardinality(start)
      BY <3>3, <3>4, FS_Subset
    <3> QED
      BY <1>1, <1>3, <3>2, <3>3, <3>5
  <2> QED
    BY <2>1, <2>2
<1>5. ASSUME NEW n \in 0..(N - 1), n \in Q
      PROVE  n + 1 \in Q
  <2> DEFINE c == f[n]
             d == c \cup Image(R, c)
  <2>1. Good(n, c) /\ f[n + 1] = d /\ n + 1 \in 0..N
    BY <1>1, <1>5
  <2> HIDE DEF c
  <2>2. start \subseteq d /\ d \subseteq X
    BY <1>2, <2>1
  <2>3. CASE Closed(c)
    <3>1. d = c
      BY <2>3
    <3> QED
      BY <2>1, <2>2, <2>3, <3>1
  <2>4. CASE ~Closed(c)
    <3>1. PICK x \in Image(R, c) : x \notin c
      BY <2>4
    <3>2. IsFiniteSet(c) /\ IsFiniteSet(d)
      BY <2>1, <2>2, FS_Subset
    <3>3. IsFiniteSet(c \cup {x}) /\ Cardinality(c \cup {x}) = Cardinality(c) + 1
      BY <3>1, <3>2, FS_AddElement
    <3>4. c \cup {x} \subseteq d
      BY <3>1
    <3>5. Cardinality(c \cup {x}) =< Cardinality(d) /\ Cardinality(d) \in Nat /\ Cardinality(c) \in Nat
      <4> HIDE DEF d
      <4> QED
        BY <3>2, <3>4, FS_Subset, FS_CardinalityType
    <3>6. Cardinality(d) >= (n + 1) + 1
      BY <2>1, <2>4, <3>3, <3>5
    <3> QED
      BY <2>1, <2>2, <3>6
  <2> QED
    BY <2>3, <2>4
<1>6. N \in Q
  <2> HIDE DEF Q
  <2> QED
    BY <1>3, <1>4, <1>5, Rounds
<1>7. Good(N, f[N])
  BY <1>6
<1>8. Closed(f[N])
  <2>1. /\ Cardinality(f[N]) =< Cardinality(X)
        /\ Cardinality(f[N]) \in Nat /\ Cardinality(X) \in Nat
    BY <1>7, FS_Subset, FS_CardinalityType
  <2> QED
    BY <1>7, <2>1
<1>9. ASSUME NEW C, start \subseteq C, Image(R, C) \subseteq C
      PROVE  f[N] \subseteq C
  <2> DEFINE S == { n \in 0..N : f[n] \subseteq C }
  <2>1. 0 \in S
    BY <1>1, <1>3, <1>9
  <2>2. ASSUME NEW n \in 0..(N - 1), n \in S
        PROVE  n + 1 \in S
    <3>1. f[n + 1] = f[n] \cup Image(R, f[n]) /\ n + 1 \in 0..N
      BY <1>1
    <3>2. f[n] \subseteq C
      BY <2>2
    <3>3. Image(R, f[n]) \subseteq Image(R, C)
      BY <3>2 DEF Image
    <3> QED
      BY <1>9, <3>1, <3>2, <3>3
  <2>3. N \in S
    <3> HIDE DEF S
    <3> QED
      BY <1>3, <2>1, <2>2, Rounds
  <2> QED
    BY <2>3
<1> QED
  BY <1>7, <1>8, <1>9
=============================================================================
