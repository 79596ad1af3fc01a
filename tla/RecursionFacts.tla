---------------------------- MODULE RecursionFacts ----------------------------
(***************************************************************************)
(* Induction over 0 .. N for sets of numbers, and what it gives about the  *)
(* recursive functions of the model: they exist, and Picked is the         *)
(* subsequence it says it is.                                              *)
(***************************************************************************)
EXTENDS Subsequences, FiniteSetsExt, FiniteSetTheorems, WellFoundedInduction,
        TLAPS

LEMMA LeastNatural ==
  ASSUME NEW T, T \subseteq Nat, T # {}
  PROVE  \E n \in T : \A m \in T : n <= m
<1>1. PICK n \in T : \A m \in T : ~ (<<m, n>> \in OpToRel(<, Nat))
  BY NatLessThanWellFounded, WFMin
<1>2. \A m \in T : ~ (m < n)
  BY <1>1 DEF OpToRel
<1> QED
  BY <1>2

(* The greatest and the least number, as the library chooses them.         *)
LEMMA MaxIs ==
  ASSUME NEW S, S \subseteq Int, NEW m \in S, \A x \in S : x <= m
  PROVE  Max(S) = m
<1>1. \A y \in S : m >= y
  OBVIOUS
<1>2. ASSUME NEW x \in S, \A y \in S : x >= y
      PROVE  x = m
  BY <1>2
<1> QED
  BY <1>1, <1>2 DEF Max

LEMMA MinIs ==
  ASSUME NEW S, S \subseteq Int, NEW m \in S, \A x \in S : m <= x
  PROVE  Min(S) = m
<1>1. ASSUME NEW x \in S, \A y \in S : x <= y
      PROVE  x = m
  BY <1>1
<1> QED
  BY <1>1 DEF Min

LEMMA GreatestNatural ==
  ASSUME NEW N \in Nat, NEW T, T \subseteq 0 .. N, T # {}
  PROVE  Max(T) \in T /\ \A n \in T : n <= Max(T)
<1> DEFINE below == {N - m : m \in T}
<1>1. below \subseteq Nat /\ below # {}
  OBVIOUS
<1>2. PICK k \in below : \A n \in below : k <= n
  <2> HIDE DEF below
  <2> QED
    BY <1>1, LeastNatural
<1>3. PICK m \in T : k = N - m
  BY <1>2
<1>4. \A n \in T : n <= m
  <2> SUFFICES ASSUME NEW n \in T PROVE n <= m
    OBVIOUS
  <2>1. N - n \in below
    OBVIOUS
  <2>2. N - m <= N - n
    BY <1>2, <1>3, <2>1
  <2>3. n \in Int /\ m \in Int
    OBVIOUS
  <2> QED
    BY <2>2, <2>3
<1>5. T \subseteq Int
  OBVIOUS
<1> QED
  BY <1>3, <1>4, <1>5, MaxIs

(* Induction up to N, over a set instead of a predicate.                   *)
LEMMA Upwards ==
  ASSUME NEW N \in Nat, NEW T, 0 \in T,
         \A n \in 0 .. N - 1 : n \in T => n + 1 \in T
  PROVE  \A n \in 0 .. N : n \in T
<1> DEFINE Missed == {n \in 0 .. N : n \notin T}
<1> SUFFICES ASSUME Missed # {} PROVE FALSE
  OBVIOUS
<1>0. Missed \subseteq Nat
  OBVIOUS
<1>1. PICK n \in Missed : \A m \in Missed : n <= m
  <2> HIDE DEF Missed
  <2> QED
    BY <1>0, LeastNatural
<1>2. n # 0 /\ n \in 0 .. N
  OBVIOUS
<1>3. n - 1 \in 0 .. N - 1 /\ n - 1 \notin Missed
  BY <1>1, <1>2
<1>4. n - 1 \in T
  BY <1>3
<1> QED
  BY <1>1, <1>3, <1>4

(* f is the recursion over 0 .. N that starts at a and takes the steps G.  *)
Solves(f, N, S, a, G) ==
  /\ f \in [0 .. N -> S]
  /\ f[0] = a
  /\ \A n \in 1 .. N : f[n] = G[n][f[n - 1]]

(* Every recursion over 0 .. N has a solution.                             *)
LEMMA Recursion ==
  ASSUME NEW N \in Nat, NEW S, NEW a \in S, NEW G \in [1 .. N -> [S -> S]]
  PROVE  \E f : Solves(f, N, S, a, G)
<1> DEFINE Reached == {m \in 0 .. N : \E f : Solves(f, m, S, a, G)}
<1>1. 0 \in Reached
  <2>1. Solves([n \in 0 .. 0 |-> a], 0, S, a, G)
    BY DEF Solves
  <2> QED
    BY <2>1
<1>2. ASSUME NEW m \in 0 .. N - 1, m \in Reached
      PROVE  m + 1 \in Reached
  <2>1. PICK f : Solves(f, m, S, a, G)
    BY <1>2
  <2> DEFINE g == [n \in 0 .. m + 1 |->
                     IF n = m + 1 THEN G[m + 1][f[m]] ELSE f[n]]
  <2>2. G[m + 1] \in [S -> S] /\ f[m] \in S
    BY <2>1 DEF Solves
  <2>3. g \in [0 .. m + 1 -> S]
    BY <2>1, <2>2 DEF Solves
  <2>4. g[0] = a
    BY <2>1 DEF Solves
  <2>5. ASSUME NEW n \in 1 .. m + 1
        PROVE  g[n] = G[n][g[n - 1]]
    BY <2>1 DEF Solves
  <2>6. Solves(g, m + 1, S, a, G)
    BY <2>3, <2>4, <2>5 DEF Solves
  <2> QED
    BY <2>6
<1>3. N \in Reached
  <2>1. \A m \in 0 .. N - 1 : m \in Reached => m + 1 \in Reached
    BY <1>2
  <2> HIDE DEF Reached
  <2>2. \A m \in 0 .. N : m \in Reached
    BY <1>1, <2>1, Upwards
  <2> QED
    BY <2>2
<1> QED
  BY <1>3

-----------------------------------------------------------------------------
(* The numbers a recursion over 0 .. N passes through.                     *)
LEMMA Steps ==
  ASSUME NEW N \in Nat
  PROVE  /\ 0 \in 0 .. N /\ N \in 0 .. N
         /\ \A n \in 1 .. N : n # 0 /\ n \in 0 .. N /\ n - 1 \in 0 .. N
         /\ \A n \in 0 .. N : n # 0 => n \in 1 .. N
         /\ \A n \in 0 .. N - 1 : n + 1 \in 1 .. N /\ (n + 1) - 1 = n
  OBVIOUS

(* kept is the recursion that defines Picked(s, P), over its values.       *)
Keeps(kept, s, S, P) ==
  /\ kept \in [0 .. Len(s) -> Seq(S)]
  /\ kept[0] = <<>>
  /\ \A n \in 1 .. Len(s) :
       kept[n] = IF n \in P THEN Append(kept[n - 1], s[n]) ELSE kept[n - 1]
  /\ Picked(s, P) = kept[Len(s)]

LEMMA PickedRecursion ==
  ASSUME NEW S, NEW s \in Seq(S), NEW P
  PROVE  \E kept : Keeps(kept, s, S, P)
<1> DEFINE N == Len(s)
           Values == Seq(S)
           none == <<>>
           step(n, t) == IF n \in P THEN Append(t, s[n]) ELSE t
           G == [n \in 1 .. N |-> [t \in Values |-> step(n, t)]]
           Is(f) == f = [n \in 0 .. N |-> IF n = 0 THEN none ELSE step(n, f[n - 1])]
           kept == CHOOSE f : Is(f)
<1>1. N \in Nat /\ none \in Values
  OBVIOUS
<1>2. Picked(s, P) = kept[N]
  BY DEF Picked
<1>3. \A n \in 1 .. N, t \in Values : step(n, t) \in Values
  OBVIOUS
<1>4. /\ kept \in [0 .. N -> Values]
      /\ kept[0] = none
      /\ \A n \in 1 .. N : kept[n] = step(n, kept[n - 1])
  <2> HIDE DEF N, Values, none, step
  <2>1. PICK f : Solves(f, N, Values, none, G)
    <3>1. G \in [1 .. N -> [Values -> Values]]
      BY <1>3
    <3> HIDE DEF G
    <3> QED
      BY <1>1, <3>1, Recursion
  <2>2. Is(f)
    BY <1>1, <2>1, Steps DEF Solves
  <2>3. Is(kept)
    <3> HIDE DEF Is
    <3> QED
      BY <2>2
  <2> HIDE DEF kept
  <2>4. kept[0] = none /\ \A n \in 1 .. N : kept[n] = step(n, kept[n - 1])
    BY <1>1, <2>3, Steps
  <2> DEFINE T == {n \in 0 .. N : kept[n] \in Values}
  <2>5. 0 \in T /\ \A n \in 0 .. N - 1 : n \in T => n + 1 \in T
    BY <1>1, <1>3, <2>4, Steps
  <2>6. \A n \in 0 .. N : n \in T
    <3> HIDE DEF T
    <3> QED
      BY <1>1, <2>5, Upwards
  <2> QED
    BY <2>3, <2>4, <2>6
<1> HIDE DEF kept
<1> QED
  BY <1>2, <1>4 DEF Keeps

(* Where the elements of a Picked sequence come from: from the positions,  *)
(* in their order, and from each of them.                                  *)
Places(place, t, s, P, n) ==
  /\ place \in [1 .. Len(t) -> P \cap (1 .. n)]
  /\ \A j \in 1 .. Len(t) : t[j] = s[place[j]]
  /\ \A j, k \in 1 .. Len(t) : j < k => place[j] < place[k]
  /\ \A i \in P \cap (1 .. n) : \E j \in 1 .. Len(t) : place[j] = i

LEMMA PickedPlaces ==
  ASSUME NEW S, NEW s \in Seq(S), NEW P
  PROVE  /\ Picked(s, P) \in Seq(S)
         /\ \E place : Places(place, Picked(s, P), s, P, Len(s))
<1>0. PICK kept : Keeps(kept, s, S, P)
  BY PickedRecursion
<1>1. /\ kept \in [0 .. Len(s) -> Seq(S)] /\ kept[0] = <<>>
      /\ \A n \in 1 .. Len(s) :
           kept[n] = IF n \in P THEN Append(kept[n - 1], s[n]) ELSE kept[n - 1]
      /\ Picked(s, P) = kept[Len(s)]
  BY <1>0 DEF Keeps
<1> DEFINE N == Len(s)
           T == {n \in 0 .. N : \E place : Places(place, kept[n], s, P, n)}
<1>2. N \in Nat
  OBVIOUS
<1>3. 0 \in T
  <2>1. Places([j \in 1 .. 0 |-> j], kept[0], s, P, 0)
    BY <1>1 DEF Places
  <2> QED
    BY <1>2, <2>1
<1>4. ASSUME NEW n \in 0 .. N - 1, n \in T
      PROVE  n + 1 \in T
  <2>1. PICK place : Places(place, kept[n], s, P, n)
    BY <1>4
  <2>2. n + 1 \in 1 .. N /\ n \in 0 .. N /\ n \in Nat /\ (n + 1) - 1 = n
    BY <1>2
  <2> DEFINE t == kept[n]
             L == Len(t)
  <2>3. t \in Seq(S) /\ L \in Nat
    BY <1>1, <2>2
  <2>4. CASE n + 1 \notin P
    <3>1. kept[n + 1] = t
      BY <1>1, <2>2, <2>4
    <3>2. P \cap (1 .. n + 1) = P \cap (1 .. n)
      BY <2>2, <2>4
    <3>3. Places(place, kept[n + 1], s, P, n + 1)
      BY <2>1, <3>1, <3>2 DEF Places
    <3> QED
      BY <2>2, <3>3
  <2>5. CASE n + 1 \in P
    <3> DEFINE u == kept[n + 1]
               longer == [j \in 1 .. L + 1 |-> IF j = L + 1 THEN n + 1 ELSE place[j]]
    <3>0. s[n + 1] \in S
      BY <2>2
    <3>1. u = Append(t, s[n + 1]) /\ s[n + 1] \in S
      BY <1>1, <2>2, <2>5, <3>0
    <3>2. /\ Len(u) = L + 1 /\ u[L + 1] = s[n + 1]
          /\ \A j \in 1 .. L : u[j] = t[j]
      BY <2>3, <3>1
    <3>3. P \cap (1 .. n + 1) = (P \cap (1 .. n)) \cup {n + 1}
      BY <2>2, <2>5
    <3> HIDE DEF t, u, L
    <3>4. /\ place \in [1 .. L -> P \cap (1 .. n)]
          /\ \A j \in 1 .. L : t[j] = s[place[j]]
          /\ \A j, k \in 1 .. L : j < k => place[j] < place[k]
          /\ \A i \in P \cap (1 .. n) : \E j \in 1 .. L : place[j] = i
      BY <2>1 DEF Places, t, L
    <3>5. longer \in [1 .. L + 1 -> P \cap (1 .. n + 1)]
      BY <2>3, <3>3, <3>4
    <3>6. \A j \in 1 .. L + 1 : u[j] = s[longer[j]]
      BY <2>3, <3>2, <3>4
    <3>7. \A j, k \in 1 .. L + 1 : j < k => longer[j] < longer[k]
      BY <2>2, <2>3, <3>4
    <3>8. \A i \in P \cap (1 .. n + 1) : \E j \in 1 .. L + 1 : longer[j] = i
      <4> SUFFICES ASSUME NEW i \in P \cap (1 .. n + 1)
                   PROVE  \E j \in 1 .. L + 1 : longer[j] = i
        OBVIOUS
      <4>1. CASE i = n + 1
        BY <2>3, <4>1
      <4>2. CASE i \in P \cap (1 .. n)
        <5>1. PICK j \in 1 .. L : place[j] = i
          BY <3>4, <4>2
        <5>2. j \in 1 .. L + 1 /\ j # L + 1
          BY <2>3
        <5> QED
          BY <5>1, <5>2
      <4> QED
        BY <3>3, <4>1, <4>2
    <3> HIDE DEF longer
    <3>9. Places(longer, u, s, P, n + 1)
      BY <3>2, <3>5, <3>6, <3>7, <3>8 DEF Places
    <3> QED
      BY <2>2, <3>9 DEF u
  <2> QED
    BY <2>4, <2>5
<1>5. N \in T
  <2>1. \A n \in 0 .. N - 1 : n \in T => n + 1 \in T
    BY <1>4
  <2> HIDE DEF T, N
  <2>2. \A n \in 0 .. N : n \in T
    BY <1>2, <1>3, <2>1, Upwards
  <2> QED
    BY <1>2, <2>2, Steps
<1> QED
  BY <1>1, <1>5

(* It has an element for each position that passes.                        *)
LEMMA PickedLength ==
  ASSUME NEW S, NEW s \in Seq(S), NEW P
  PROVE  Len(Picked(s, P)) = Cardinality(P \cap (1 .. Len(s)))
<1> DEFINE L == Len(Picked(s, P))
           Q == P \cap (1 .. Len(s))
<1>1. PICK place : Places(place, Picked(s, P), s, P, Len(s))
  BY PickedPlaces
<1>2. L \in Nat
  BY PickedPlaces
<1>3. /\ place \in [1 .. L -> Q]
      /\ \A j, k \in 1 .. L : j < k => place[j] < place[k]
      /\ \A i \in Q : \E j \in 1 .. L : place[j] = i
  BY <1>1 DEF Places
<1>4. Q \subseteq Nat
  OBVIOUS
<1> HIDE DEF L, Q
<1>5. place \in Bijection(1 .. L, Q)
  <2>1. \A j, k \in 1 .. L : place[j] = place[k] => j = k
    <3> TAKE j, k \in 1 .. L
    <3>1. place[j] \in Nat /\ place[k] \in Nat
      BY <1>3, <1>4
    <3>2. j < k \/ k < j \/ j = k
      BY <1>2
    <3> QED
      BY <1>3, <3>1, <3>2
  <2> QED
    BY <1>3, <2>1 DEF Bijection, Injection, Surjection, IsInjective
<1>6. Cardinality(Q) = L
  <2>1. ExistsBijection(1 .. L, Q)
    BY <1>5 DEF ExistsBijection
  <2> QED
    BY <1>2, <2>1, FS_CountingElements
<1> QED
  BY <1>6 DEF L, Q

(* Picked depends on the positions within the sequence only.               *)
LEMMA PickedAgree ==
  ASSUME NEW S, NEW s \in Seq(S), NEW t \in Seq(S), NEW P, NEW Q, NEW N \in Nat,
         Len(s) = N, Len(t) = N,
         \A n \in 1 .. N : s[n] = t[n] /\ (n \in P <=> n \in Q)
  PROVE  Picked(s, P) = Picked(t, Q)
<1>1. PICK f : Keeps(f, s, S, P)
  BY PickedRecursion
<1>2. PICK g : Keeps(g, t, S, Q)
  BY PickedRecursion
<1> DEFINE T == {n \in 0 .. N : f[n] = g[n]}
<1>3. 0 \in T /\ \A n \in 0 .. N - 1 : n \in T => n + 1 \in T
  <2>1. f[0] = g[0]
    BY <1>1, <1>2 DEF Keeps
  <2>2. ASSUME NEW n \in 0 .. N - 1, f[n] = g[n]
        PROVE  f[n + 1] = g[n + 1]
    <3>1. n + 1 \in 1 .. N /\ (n + 1) - 1 = n
      OBVIOUS
    <3>2. f[n + 1] = IF n + 1 \in P THEN Append(f[n], s[n + 1]) ELSE f[n]
      BY <1>1, <3>1 DEF Keeps
    <3>3. g[n + 1] = IF n + 1 \in Q THEN Append(g[n], t[n + 1]) ELSE g[n]
      BY <1>2, <3>1 DEF Keeps
    <3>4. s[n + 1] = t[n + 1] /\ (n + 1 \in P <=> n + 1 \in Q)
      BY <3>1
    <3> QED
      BY <2>2, <3>2, <3>3, <3>4
  <2> QED
    BY <2>1, <2>2
<1>4. \A n \in 0 .. N : n \in T
  <2> HIDE DEF T
  <2> QED
    BY <1>3, Upwards
<1> QED
  BY <1>1, <1>2, <1>4, Steps DEF Keeps

(* A sequence that grows by an element.                                    *)
LEMMA PickedAppend ==
  ASSUME NEW S, NEW s \in Seq(S), NEW e \in S, NEW P
  PROVE  Picked(Append(s, e), P) =
           IF Len(s) + 1 \in P THEN Append(Picked(s, P), e) ELSE Picked(s, P)
<1> DEFINE N == Len(s)
           t == Append(s, e)
<1>1. /\ N \in Nat /\ t \in Seq(S) /\ Len(t) = N + 1 /\ t[N + 1] = e
      /\ \A n \in 1 .. N : t[n] = s[n]
  OBVIOUS
<1>2. PICK f : Keeps(f, s, S, P)
  BY PickedRecursion
<1> HIDE DEF t
<1>3. PICK g : Keeps(g, t, S, P)
  BY <1>1, PickedRecursion
<1> HIDE DEF N
<1> DEFINE T == {n \in 0 .. N : f[n] = g[n]}
<1>4. 0 \in T /\ \A n \in 0 .. N - 1 : n \in T => n + 1 \in T
  <2>1. f[0] = g[0]
    BY <1>2, <1>3 DEF Keeps
  <2>2. ASSUME NEW n \in 0 .. N - 1, f[n] = g[n]
        PROVE  f[n + 1] = g[n + 1]
    <3>1. n + 1 \in 1 .. N /\ n + 1 \in 1 .. N + 1 /\ (n + 1) - 1 = n
      BY <1>1
    <3>2. f[n + 1] = IF n + 1 \in P THEN Append(f[n], s[n + 1]) ELSE f[n]
      BY <1>2, <3>1 DEF Keeps, N
    <3>3. g[n + 1] = IF n + 1 \in P THEN Append(g[n], t[n + 1]) ELSE g[n]
      BY <1>1, <1>3, <3>1 DEF Keeps
    <3> QED
      BY <1>1, <2>2, <3>1, <3>2, <3>3
  <2> QED
    BY <1>1, <2>1, <2>2
<1>5. \A n \in 0 .. N : n \in T
  <2> HIDE DEF T
  <2> QED
    BY <1>1, <1>4, Upwards
<1>6. f[N] = g[N] /\ N + 1 \in 1 .. N + 1 /\ (N + 1) - 1 = N
  BY <1>1, <1>5
<1> QED
  BY <1>1, <1>2, <1>3, <1>6 DEF t, N, Keeps
=============================================================================
