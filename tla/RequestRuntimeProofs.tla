------------------------- MODULE RequestRuntimeProofs -------------------------
(***************************************************************************)
(* Proofs about RequestRuntime, for every capacity, generation bound, set  *)
(* of clients and set of completions: the life of a request and the        *)
(* deadlines. The first part holds the facts that all proofs about         *)
(* RequestRuntime share: about sequences, where induction is by smallest   *)
(* counterexample, from the well-foundedness of Nat, and about slots, ids  *)
(* and table entries.                                                      *)
(***************************************************************************)
EXTENDS RequestInvariants, FiniteSetTheorems, TLAPS

-----------------------------------------------------------------------------
(* Sequences                                                               *)

\* A function on 1..n is a sequence.
LEMMA SeqTyped ==
    ASSUME NEW T, NEW n \in Nat, NEW s \in [1..n -> T]
    PROVE  s \in Seq(T) /\ Len(s) = n
OBVIOUS

\* The empty sequence has every type.
LEMMA SeqEmpty ==
    ASSUME NEW T
    PROVE  <<>> \in Seq(T) /\ Len(<<>>) = 0
OBVIOUS

\* A sequence of a smaller type.
LEMMA SeqWider ==
    ASSUME NEW T, NEW U, T \subseteq U
    PROVE  Seq(T) \subseteq Seq(U)
<1> SUFFICES ASSUME NEW s \in Seq(T) PROVE s \in Seq(U)
  OBVIOUS
<1>1. s \in [1..Len(s) -> T] /\ Len(s) \in Nat
  OBVIOUS
<1>2. s \in [1..Len(s) -> U]
  BY <1>1
<1> QED
  BY <1>1, <1>2, SeqTyped

\* The elements of a concatenation.
LEMMA SeqConcat ==
    ASSUME NEW T, NEW s \in Seq(T), NEW t \in Seq(T)
    PROVE  /\ s \o t \in Seq(T) /\ Len(s \o t) = Len(s) + Len(t)
           /\ \A n \in 1..(Len(s) + Len(t)) : (s \o t)[n] = IF n <= Len(s) THEN s[n] ELSE t[n - Len(s)]
OBVIOUS

\* Adding an element at the end.
LEMMA SeqAppend ==
    ASSUME NEW T, NEW s \in Seq(T), NEW x \in T
    PROVE  Append(s, x) \in Seq(T) /\ Len(Append(s, x)) = Len(s) + 1
OBVIOUS

\* Taking the first element.
LEMMA SeqFirst ==
    ASSUME NEW T, NEW s \in Seq(T), s # <<>>
    PROVE  Head(s) \in T /\ Tail(s) \in Seq(T)
OBVIOUS

\* Every non-empty set of naturals has a smallest element.
LEMMA NatMin ==
    ASSUME NEW T \in SUBSET Nat, T # {}
    PROVE  \E n \in T : \A m \in T : n <= m
<1>1. PICK n \in T : \A m \in T : ~(<<m, n>> \in OpToRel(<, Nat))
  BY NatLessThanWellFounded, WFMin, Zenon
<1>2. \A m \in T : ~(m < n)
  BY <1>1, Zenon DEF OpToRel
<1> QED
  BY <1>2

\* g is Concat's accumulator for the first n sequences.
Accumulates(g, seqs, n) ==
    \A i \in 0..n : g[i] = IF i = 0 THEN <<>> ELSE g[i - 1] \o seqs[i]

\* The accumulator of Concat exists, and is made of sequences over T.
LEMMA ConcatAccumulator ==
    ASSUME NEW T, NEW seqs \in Seq(Seq(T)), NEW n \in 0..Len(seqs)
    PROVE  \E g \in [0..n -> Seq(T)] : Accumulates(g, seqs, n)
<1> DEFINE Acc(k) == \E g \in [0..k -> Seq(T)] : Accumulates(g, seqs, k)
           Bad == {k \in 0..Len(seqs) : ~Acc(k)}
<1>0. Len(seqs) \in Nat /\ \A i \in 1..Len(seqs) : seqs[i] \in Seq(T)
  OBVIOUS
<1>1. ASSUME Bad # {} PROVE FALSE
  <2>1. Bad \in SUBSET Nat
    <3> HIDE DEF Acc
    <3> QED
      BY <1>0
  <2>2. PICK k \in Bad : \A m \in Bad : k <= m
    <3> HIDE DEF Bad
    <3> QED
      BY <1>1, <2>1, NatMin
  <2>3. k \in 0..Len(seqs) /\ ~Acc(k)
    <3> HIDE DEF Acc
    <3> QED
      OBVIOUS
  <2>4. CASE k = 0
    <3> DEFINE g == [i \in 0..0 |-> <<>>]
    <3>1. <<>> \in Seq(T)
      BY SeqEmpty
    <3>2. g \in [0..0 -> Seq(T)] /\ Accumulates(g, seqs, 0)
      BY <3>1 DEF Accumulates
    <3> HIDE DEF g
    <3> QED
      BY <2>3, <2>4, <3>2
  <2>5. CASE k # 0
    <3>1. k - 1 \in 0..Len(seqs) /\ k - 1 \notin Bad
      <4> HIDE DEF Bad, Acc
      <4> QED
        BY <1>0, <2>2, <2>3, <2>5
    <3>2. Acc(k - 1)
      <4> HIDE DEF Acc
      <4> QED
        BY <3>1
    <3>3. PICK g \in [0..(k - 1) -> Seq(T)] : Accumulates(g, seqs, k - 1)
      BY <3>2
    <3> DEFINE h == [i \in 0..k |-> IF i = k THEN g[k - 1] \o seqs[k] ELSE g[i]]
    <3>4. k \in 1..Len(seqs) /\ k \in Nat /\ k - 1 \in 0..(k - 1)
      BY <1>0, <2>3, <2>5
    <3>5. g[k - 1] \in Seq(T) /\ seqs[k] \in Seq(T)
      BY <1>0, <3>3, <3>4
    <3>6. g[k - 1] \o seqs[k] \in Seq(T)
      BY <3>5, SeqConcat
    <3>7. \A i \in 0..k : i # k => i \in 0..(k - 1)
      BY <3>4
    <3>8. h \in [0..k -> Seq(T)]
      BY <3>3, <3>6, <3>7
    <3>9. ASSUME NEW i \in 0..k
          PROVE  h[i] = IF i = 0 THEN <<>> ELSE h[i - 1] \o seqs[i]
      <4>1. CASE i = k
        <5>1. k \in 0..k /\ k - 1 \in 0..k /\ k - 1 # k
          BY <3>4
        <5>2. h[k] = g[k - 1] \o seqs[k] /\ h[k - 1] = g[k - 1]
          BY <5>1, Zenon
        <5> HIDE DEF h
        <5> QED
          BY <2>5, <4>1, <5>2, Zenon
      <4>2. CASE i # k
        <5>1. i \in 0..(k - 1) /\ (i # 0 => i - 1 \in 0..k /\ i - 1 # k)
          BY <3>4, <4>2
        <5>2. h[i] = g[i] /\ (i # 0 => h[i - 1] = g[i - 1])
          BY <4>2, <5>1
        <5> HIDE DEF h
        <5> QED
          BY <3>3, <5>1, <5>2, Zenon DEF Accumulates
      <4> QED
        BY <4>1, <4>2
    <3> HIDE DEF h
    <3>10. Accumulates(h, seqs, k)
      BY <3>9 DEF Accumulates
    <3> QED
      BY <2>3, <3>8, <3>10
  <2> QED
    BY <2>4, <2>5
<1>2. Acc(n)
  <2> HIDE DEF Acc
  <2> QED
    BY <1>1
<1> QED
  BY <1>2

\* Concat is the last value of such an accumulator.
LEMMA ConcatAccumulates ==
    ASSUME NEW T, NEW seqs \in Seq(Seq(T))
    PROVE  \E g \in [0..Len(seqs) -> Seq(T)] :
               Accumulates(g, seqs, Len(seqs)) /\ Concat(seqs) = g[Len(seqs)]
<1> DEFINE n == Len(seqs)
           body(g) == [i \in 0..n |-> IF i = 0 THEN <<>> ELSE g[i - 1] \o seqs[i]]
           f == CHOOSE g : g = body(g)
<1>1. n \in Nat /\ n \in 0..n /\ n \in 0..Len(seqs) /\ \A i \in 1..n : seqs[i] \in Seq(T)
  OBVIOUS
<1>2. PICK g \in [0..n -> Seq(T)] : Accumulates(g, seqs, n)
  <2> HIDE DEF n
  <2> QED
    BY <1>1, ConcatAccumulator
<1>3. g = body(g)
  BY <1>2 DEF Accumulates
<1>4. f = body(f)
  <2> HIDE DEF body
  <2> QED
    BY <1>3
<1>5. Concat(seqs) = f[n]
  BY DEF Concat
<1> HIDE DEF f
<1>6. \A i \in 0..n : f[i] = IF i = 0 THEN <<>> ELSE f[i - 1] \o seqs[i]
  BY <1>4, Zenon
<1>a. f = [i \in 0..n |-> f[i]]
  BY <1>4
<1> HIDE DEF body, n
<1> DEFINE Bad == {i \in 0..n : f[i] \notin Seq(T)}
<1>7. ASSUME Bad # {} PROVE FALSE
  <2>1. Bad \in SUBSET Nat
    BY <1>1
  <2>2. PICK k \in Bad : \A m \in Bad : k <= m
    <3> HIDE DEF Bad
    <3> QED
      BY <1>7, <2>1, NatMin, Zenon
  <2>3. k \in 0..n /\ f[k] \notin Seq(T)
    OBVIOUS
  <2>4. CASE k = 0
    BY <1>6, <2>3, <2>4, SeqEmpty, Zenon
  <2>5. CASE k # 0
    <3>1. k \in 1..n /\ k - 1 \in 0..n /\ ~(k <= k - 1)
      BY <1>1, <2>3, <2>5
    <3>2. f[k - 1] \in Seq(T)
      BY <2>2, <3>1
    <3>3. f[k] = f[k - 1] \o seqs[k] /\ seqs[k] \in Seq(T)
      BY <1>1, <1>6, <2>3, <2>5, <3>1, Zenon
    <3> QED
      BY <2>3, <3>2, <3>3, SeqConcat
  <2> QED
    BY <2>4, <2>5
<1>8. f \in [0..n -> Seq(T)]
  BY <1>a, <1>7, Zenon
<1>9. Accumulates(f, seqs, n)
  BY <1>6 DEF Accumulates
<1> QED
  BY <1>5, <1>8, <1>9 DEF n

\* Concatenating sequences over T gives a sequence over T.
LEMMA ConcatType ==
    ASSUME NEW T, NEW seqs \in Seq(Seq(T))
    PROVE  Concat(seqs) \in Seq(T)
<1>1. Len(seqs) \in 0..Len(seqs)
  OBVIOUS
<1> QED
  BY <1>1, ConcatAccumulates

\* The places of u are those of s, then those of t.
IsCat(u, s, t) ==
    /\ \A m \in DOMAIN u : \/ m \in DOMAIN s /\ u[m] = s[m]
                           \/ m - Len(s) \in DOMAIN t /\ u[m] = t[m - Len(s)]
    /\ \A m \in DOMAIN s : m \in DOMAIN u /\ u[m] = s[m]
    /\ \A m \in DOMAIN t : m + Len(s) \in DOMAIN u /\ u[m + Len(s)] = t[m]

\* The places of a concatenation.
LEMMA CatPlaces ==
    ASSUME NEW T, NEW s \in Seq(T), NEW t \in Seq(T)
    PROVE  s \o t \in Seq(T) /\ IsCat(s \o t, s, t)
  BY DEF IsCat

\* K separates the places of s.
Distinct(s, K) == \A m, n \in DOMAIN s : K[s[m]] = K[s[n]] => m = n
Apart(s, t, K) == \A m \in DOMAIN s, n \in DOMAIN t : K[s[m]] # K[t[n]]

\* Sequences separated by K that share no value of K stay separated when they
\* are put together.
LEMMA CatDistinct ==
    ASSUME NEW T, NEW s \in Seq(T), NEW t \in Seq(T), NEW K,
           Distinct(s, K), Distinct(t, K), Apart(s, t, K)
    PROVE  Distinct(s \o t, K)
<1> DEFINE u == s \o t
<1>0. u \in Seq(T) /\ IsCat(u, s, t)
  BY CatPlaces, Zenon
<1> HIDE DEF u
<1>1. SUFFICES ASSUME NEW m \in DOMAIN u, NEW n \in DOMAIN u, K[u[m]] = K[u[n]]
               PROVE  m = n
  BY Zenon DEF Distinct, u
<1>2. /\ \/ m \in DOMAIN s /\ u[m] = s[m]
         \/ m - Len(s) \in DOMAIN t /\ u[m] = t[m - Len(s)]
      /\ \/ n \in DOMAIN s /\ u[n] = s[n]
         \/ n - Len(s) \in DOMAIN t /\ u[n] = t[n - Len(s)]
  BY <1>0, Zenon DEF IsCat
<1>4. m \in Nat /\ n \in Nat /\ Len(s) \in Nat
  BY <1>0
<1>5. m - Len(s) = n - Len(s) => m = n
  BY <1>4
<1> QED
  BY <1>1, <1>2, <1>5, Zenon DEF Distinct, Apart

\* The elements of s are those of the first k sequences.
Gathers(s, seqs, k) ==
    /\ \A m \in DOMAIN s : \E i \in 1..k : \E a \in DOMAIN seqs[i] : s[m] = seqs[i][a]
    /\ \A i \in 1..k : \A a \in DOMAIN seqs[i] : \E m \in DOMAIN s : s[m] = seqs[i][a]

\* Gathering one more sequence.
LEMMA GathersMore ==
    ASSUME NEW T, NEW seqs \in Seq(Seq(T)), NEW k \in 1..Len(seqs), NEW s \in Seq(T),
           Gathers(s, seqs, k - 1), NEW u, u = s \o seqs[k]
    PROVE  Gathers(u, seqs, k)
<1> DEFINE t == seqs[k]
<1>1. t \in Seq(T) /\ k \in Nat \ {0} /\ u = s \o t
  OBVIOUS
<1> HIDE DEF t
<1>2. IsCat(u, s, t)
  BY <1>1, CatPlaces, Zenon
<1>3. k \in 1..k /\ \A i \in 1..k : i = k \/ i \in 1..(k - 1)
  BY <1>1
<1>4. \A i \in 1..(k - 1) : i \in 1..k
  BY <1>1
<1>5. ASSUME NEW m \in DOMAIN u
      PROVE  \E i \in 1..k : \E a \in DOMAIN seqs[i] : u[m] = seqs[i][a]
  <2>1. CASE m \in DOMAIN s /\ u[m] = s[m]
    BY <1>4, <2>1, Zenon DEF Gathers
  <2>2. CASE m - Len(s) \in DOMAIN t /\ u[m] = t[m - Len(s)]
    BY <1>3, <2>2, Zenon DEF t
  <2> QED
    BY <1>2, <2>1, <2>2, Zenon DEF IsCat
<1>6. ASSUME NEW i \in 1..k, NEW a \in DOMAIN seqs[i]
      PROVE  \E m \in DOMAIN u : u[m] = seqs[i][a]
  <2>1. CASE i = k
    <3>1. a \in DOMAIN t /\ seqs[i][a] = t[a]
      BY <2>1, Zenon DEF t
    <3>2. a + Len(s) \in DOMAIN u /\ u[a + Len(s)] = t[a]
      BY <1>2, <3>1, ZenonT(60) DEF IsCat
    <3> QED
      BY <3>1, <3>2, Zenon
  <2>2. CASE i \in 1..(k - 1)
    <3>1. PICK m \in DOMAIN s : s[m] = seqs[i][a]
      BY <2>2, Zenon DEF Gathers
    <3> QED
      BY <1>2, <3>1, ZenonT(60) DEF IsCat
  <2> QED
    BY <1>3, <2>1, <2>2, Zenon
<1> QED
  BY <1>5, <1>6, Zenon DEF Gathers

\* Concat gathers the elements of all its sequences.
LEMMA ConcatGathers ==
    ASSUME NEW T, NEW seqs \in Seq(Seq(T)), NEW g \in [0..Len(seqs) -> Seq(T)],
           Accumulates(g, seqs, Len(seqs)), NEW j \in 0..Len(seqs)
    PROVE  Gathers(g[j], seqs, j)
<1> DEFINE Bad == {k \in 0..Len(seqs) : ~Gathers(g[k], seqs, k)}
<1>0. Len(seqs) \in Nat /\ \A i \in 1..Len(seqs) : seqs[i] \in Seq(T)
  OBVIOUS
<1>1. ASSUME Bad # {} PROVE FALSE
  <2>1. Bad \in SUBSET Nat
    BY <1>0
  <2>2. PICK k \in Bad : \A m \in Bad : k <= m
    <3> HIDE DEF Bad
    <3> QED
      BY <1>1, <2>1, NatMin, Zenon
  <2>3. k \in 0..Len(seqs) /\ ~Gathers(g[k], seqs, k)
    OBVIOUS
  <2>4. CASE k = 0
    <3>1. g[k] = <<>>
      BY <2>3, <2>4, Zenon DEF Accumulates
    <3> QED
      BY <2>3, <2>4, <3>1 DEF Gathers
  <2>5. CASE k # 0
    <3>1. k \in 1..Len(seqs) /\ k - 1 \in 0..Len(seqs) /\ ~(k <= k - 1)
      BY <1>0, <2>3, <2>5
    <3>2. Gathers(g[k - 1], seqs, k - 1)
      BY <2>2, <3>1
    <3>3. /\ g[k] = g[k - 1] \o seqs[k]
          /\ g[k - 1] \in Seq(T) /\ seqs[k] \in Seq(T)
      BY <1>0, <2>3, <2>5, <3>1, Zenon DEF Accumulates
    <3> QED
      BY <2>3, <3>1, <3>2, <3>3, GathersMore, Zenon
  <2> QED
    BY <2>4, <2>5
<1> QED
  BY <1>1

\* The elements of Concat are the elements of its sequences.
LEMMA ConcatElements ==
    ASSUME NEW T, NEW seqs \in Seq(Seq(T))
    PROVE  Gathers(Concat(seqs), seqs, Len(seqs))
<1>1. Len(seqs) \in 0..Len(seqs)
  OBVIOUS
<1> QED
  BY <1>1, ConcatAccumulates, ConcatGathers

\* If K separates each sequence and they share no value of K, then K separates
\* all elements of Concat.
LEMMA ConcatDistinct ==
    ASSUME NEW T, NEW seqs \in Seq(Seq(T)), NEW K,
           \A i \in 1..Len(seqs) : Distinct(seqs[i], K),
           \A i, j \in 1..Len(seqs) : i # j => Apart(seqs[i], seqs[j], K)
    PROVE  Distinct(Concat(seqs), K)
<1>1. PICK g \in [0..Len(seqs) -> Seq(T)] :
          Accumulates(g, seqs, Len(seqs)) /\ Concat(seqs) = g[Len(seqs)]
  BY ConcatAccumulates
<1> DEFINE Bad == {k \in 0..Len(seqs) : ~Distinct(g[k], K)}
<1>0. /\ Len(seqs) \in Nat /\ Len(seqs) \in 0..Len(seqs)
      /\ \A i \in 1..Len(seqs) : seqs[i] \in Seq(T)
  OBVIOUS
<1>2. ASSUME Bad # {} PROVE FALSE
  <2>1. Bad \in SUBSET Nat
    BY <1>0
  <2>2. PICK k \in Bad : \A m \in Bad : k <= m
    <3> HIDE DEF Bad
    <3> QED
      BY <1>2, <2>1, NatMin, Zenon
  <2>3. k \in 0..Len(seqs) /\ ~Distinct(g[k], K)
    OBVIOUS
  <2>4. CASE k = 0
    <3>1. g[k] = <<>>
      BY <1>1, <2>3, <2>4, Zenon DEF Accumulates
    <3> QED
      BY <2>3, <3>1 DEF Distinct
  <2>5. CASE k # 0
    <3>1. k \in 1..Len(seqs) /\ k - 1 \in 0..Len(seqs) /\ ~(k <= k - 1)
      BY <1>0, <2>3, <2>5
    <3>2. Distinct(g[k - 1], K)
      BY <2>2, <3>1
    <3>3. /\ g[k] = g[k - 1] \o seqs[k]
          /\ g[k - 1] \in Seq(T) /\ seqs[k] \in Seq(T)
      BY <1>0, <1>1, <2>3, <2>5, <3>1, Zenon DEF Accumulates
    <3>4. Gathers(g[k - 1], seqs, k - 1)
      BY <1>1, <3>1, ConcatGathers, Zenon
    <3>5. ASSUME NEW m \in DOMAIN g[k - 1], NEW n \in DOMAIN seqs[k]
          PROVE  K[g[k - 1][m]] # K[seqs[k][n]]
      <4>1. PICK i \in 1..(k - 1) : \E a \in DOMAIN seqs[i] : g[k - 1][m] = seqs[i][a]
        BY <3>4, Zenon DEF Gathers
      <4>2. i \in 1..Len(seqs) /\ i # k
        BY <3>1
      <4>3. Apart(seqs[i], seqs[k], K)
        BY <3>1, <4>2, Zenon
      <4> QED
        BY <4>1, <4>3, Zenon DEF Apart
    <3>6. Distinct(seqs[k], K)
      BY <3>1
    <3> DEFINE t == seqs[k]
    <3>7. t \in Seq(T) /\ g[k] = g[k - 1] \o t /\ Distinct(t, K)
      BY <3>3, <3>6, Zenon
    <3>8. Apart(g[k - 1], t, K)
      BY <3>5, Zenon DEF Apart
    <3> HIDE DEF t
    <3>9. Distinct(g[k - 1] \o t, K)
      BY <3>2, <3>3, <3>7, <3>8, CatDistinct, Zenon
    <3> QED
      BY <2>3, <3>7, <3>9, Zenon
  <2> QED
    BY <2>4, <2>5
<1> QED
  BY <1>0, <1>1, <1>2

\* Without keeps the elements that are not in X, and no element twice.
LEMMA WithoutElements ==
    ASSUME NEW T, NEW s \in Seq(T), NEW X
    PROVE  /\ Without(s, X) \in Seq(T)
           /\ \A m \in DOMAIN Without(s, X) :
                 Without(s, X)[m] \notin X /\ \E n \in DOMAIN s : s[n] = Without(s, X)[m]
           /\ \A n \in DOMAIN s : s[n] \notin X =>
                 \E m \in DOMAIN Without(s, X) : Without(s, X)[m] = s[n]
           /\ (\A m, n \in DOMAIN s : s[m] = s[n] => m = n) =>
                 \A m, n \in DOMAIN Without(s, X) : Without(s, X)[m] = Without(s, X)[n] => m = n
<1> DEFINE pieces == [n \in DOMAIN s |-> IF s[n] \in X THEN <<>> ELSE <<s[n]>>]
           w == Concat(pieces)
           K == [x \in T |-> x]
<1>1. Without(s, X) = w
  BY DEF Without
<1>2. /\ pieces \in Seq(Seq(T)) /\ Len(pieces) = Len(s) /\ DOMAIN s = 1..Len(s)
      /\ \A n \in DOMAIN s : s[n] \in T
  <2>1. DOMAIN s = 1..Len(s) /\ Len(s) \in Nat /\ \A n \in DOMAIN s : s[n] \in T
    OBVIOUS
  <2>2. \A n \in DOMAIN s : (IF s[n] \in X THEN <<>> ELSE <<s[n]>>) \in Seq(T)
    BY <2>1
  <2>3. pieces \in [1..Len(s) -> Seq(T)]
    BY <2>1, <2>2, Zenon
  <2> HIDE DEF pieces
  <2> QED
    BY <2>1, <2>3
<1>3. \A n \in DOMAIN s : /\ \A a \in DOMAIN pieces[n] : pieces[n][a] = s[n] /\ s[n] \notin X /\ a = 1
                          /\ s[n] \notin X => 1 \in DOMAIN pieces[n] /\ pieces[n][1] = s[n]
  OBVIOUS
<1> HIDE DEF pieces
<1>4. w \in Seq(T) /\ Gathers(w, pieces, Len(s))
  BY <1>2, ConcatType, ConcatElements
<1>5. ASSUME \A m, n \in DOMAIN s : s[m] = s[n] => m = n
      PROVE  \A m, n \in DOMAIN w : w[m] = w[n] => m = n
  <2> HIDE DEF K, w
  <2>1. ASSUME NEW i \in 1..Len(pieces) PROVE Distinct(pieces[i], K)
    <3>1. i \in DOMAIN s
      BY <1>2, Zenon
    <3>2. \A a \in DOMAIN pieces[i] : a = 1
      BY <1>3, <3>1, Zenon
    <3> QED
      BY <3>2, Zenon DEF Distinct
  <2>2. ASSUME NEW i \in 1..Len(pieces), NEW j \in 1..Len(pieces), i # j
        PROVE  Apart(pieces[i], pieces[j], K)
    <3> SUFFICES ASSUME NEW a \in DOMAIN pieces[i], NEW b \in DOMAIN pieces[j]
                 PROVE  K[pieces[i][a]] # K[pieces[j][b]]
      BY DEF Apart
    <3>1. i \in DOMAIN s /\ j \in DOMAIN s
      BY <1>2, Zenon
    <3>2. pieces[i][a] = s[i] /\ pieces[j][b] = s[j] /\ s[i] # s[j] /\ s[i] \in T /\ s[j] \in T
      BY <1>2, <1>3, <1>5, <2>2, <3>1, Zenon
    <3> QED
      BY <3>2 DEF K
  <2>3. Distinct(w, K)
    BY <1>2, <2>1, <2>2, ConcatDistinct, Zenon DEF w
  <2>4. \A m \in DOMAIN w : K[w[m]] = w[m]
    BY <1>4 DEF K
  <2> QED
    BY <2>3, <2>4, Zenon DEF Distinct
<1> HIDE DEF w
<1>6. ASSUME NEW m \in DOMAIN w
      PROVE  w[m] \notin X /\ \E n \in DOMAIN s : s[n] = w[m]
  <2>1. PICK n \in 1..Len(s) : \E a \in DOMAIN pieces[n] : w[m] = pieces[n][a]
    BY <1>4, Zenon DEF Gathers
  <2>2. n \in DOMAIN s
    BY <1>2, Zenon
  <2> QED
    BY <1>3, <2>1, <2>2, Zenon
<1>7. ASSUME NEW n \in DOMAIN s, s[n] \notin X
      PROVE  \E m \in DOMAIN w : w[m] = s[n]
  <2>1. n \in 1..Len(s) /\ 1 \in DOMAIN pieces[n] /\ pieces[n][1] = s[n]
    BY <1>2, <1>3, <1>7, Zenon
  <2>2. PICK m \in DOMAIN w : w[m] = pieces[n][1]
    BY <1>4, <2>1, Zenon DEF Gathers
  <2> QED
    BY <2>1, <2>2, Zenon
<1> QED
  BY <1>1, <1>4, <1>5, <1>6, <1>7, Zenon

\* A sequence of at most one element (the pieces Emit puts together).
LEMMA OptionalSeq ==
    ASSUME NEW T, NEW x \in T, NEW B \in BOOLEAN
    PROVE  (IF B THEN <<x>> ELSE <<>>) \in Seq(T)
  OBVIOUS

\* The first element of a queue (what next_action pops) is one of its elements.
LEMMA HeadMember ==
    ASSUME NEW T, NEW s \in Seq(T), s # <<>>
    PROVE  Head(s) \in T
  OBVIOUS

\* A queue without its first element.
LEMMA TailPlaces ==
    ASSUME NEW T, NEW s \in Seq(T), s # <<>>
    PROVE  /\ Tail(s) \in Seq(T) /\ 1 \in DOMAIN s /\ Head(s) = s[1]
           /\ \A n \in DOMAIN Tail(s) : n + 1 \in DOMAIN s /\ Tail(s)[n] = s[n + 1] /\ n + 1 # 1
           /\ \A n \in DOMAIN s : n # 1 => n - 1 \in DOMAIN Tail(s) /\ Tail(s)[n - 1] = s[n]
           /\ \A m, n \in DOMAIN Tail(s) : m + 1 = n + 1 => m = n
  OBVIOUS

-----------------------------------------------------------------------------
(* Slots, ids and entries                                                  *)

\* There are as many slots as the table was made for.
LEMMA SlotsFinite == IsFiniteSet(Slots) /\ Cardinality(Slots) = Capacity
<1>1. Capacity \in Nat \ {0}
  BY SizeAssumption
<1> QED
  BY <1>1, FS_Interval, SMTT(30) DEF Slots

\* What a valid id tells about its slot.
LEMMA ValidFacts ==
    ASSUME SlotInv, NEW id, Valid(id)
    PROVE  /\ id.slot \in Slots
           /\ req[id.slot] \in Request
           /\ req[id.slot] # None
           /\ RequestOK(req[id.slot], IdOf(id.slot) \in held)
PROOF BY DEF SlotInv, SlotTypes, Valid

\* A valid id names a live slot.
LEMMA LiveFacts ==
    ASSUME SlotInv, NEW id, Valid(id)
    PROVE  id.slot \in LiveSlots /\ req[id.slot] \in Request
  BY ValidFacts, Zenon DEF LiveSlots

\* The id of a slot names the slot and its generation.
LEMMA IdFacts ==
    ASSUME SlotInv, NEW i \in Slots
    PROVE  IdOf(i) \in Id /\ IdOf(i) # None /\ IdOf(i).slot = i /\ IdOf(i).gen = gen[i]
  BY NoneAssumption DEF IdOf, Id, SlotInv, SlotTypes

\* A step after which the same slots hold requests under the same ids.
LEMMA SameIds ==
    ASSUME UNCHANGED <<gen, retired>>, \A i \in Slots : req'[i] = None <=> req[i] = None
    PROVE  /\ LiveSlots' = LiveSlots
           /\ Issued' = Issued
           /\ \A i \in Slots : IdOf(i)' = IdOf(i)
           /\ \A id \in Id : Valid(id)' <=> Valid(id)
<1>1. LiveSlots' = LiveSlots
  BY DEF LiveSlots
<1>2. \A id \in Id : id.slot \in Slots
  BY DEF Id
<1>3. \A id \in Id : /\ Valid(id)' <=> Valid(id)
                     /\ id \in Issued' <=> id \in Issued
  BY <1>2 DEF Valid, Issued
<1>4. Issued' = Issued
  BY <1>3 DEF Issued
<1> QED
  BY <1>1, <1>3, <1>4, Zenon DEF IdOf

\* The request of id is still there after the step, with its target.
StillValid(id) ==
    /\ id.slot \in Slots
    /\ ~retired'[id.slot]
    /\ gen'[id.slot] = id.gen
    /\ req'[id.slot] # None
    /\ req'[id.slot].target = req[id.slot].target

\* Entry e is q after the ids of X left its FIFO and those of Y stopped being
\* active; an entry that becomes idle is given back.
Shrinks(q, e, X, Y) ==
    /\ e \in Entry
    /\ e.target = q.target \/ Idle(e)
    /\ e.target \in {q.target, None}
    /\ e.active = IF q.active \in Y THEN None ELSE q.active
    /\ \A m \in DOMAIN e.queued :
          e.queued[m] \notin X /\ \E n \in DOMAIN q.queued : q.queued[n] = e.queued[m]
    /\ \A n \in DOMAIN q.queued : q.queued[n] \notin X =>
          \E m \in DOMAIN e.queued : e.queued[m] = q.queued[n]
    /\ (\A m, n \in DOMAIN q.queued : q.queued[m] = q.queued[n] => m = n) =>
          \A m, n \in DOMAIN e.queued : e.queued[m] = e.queued[n] => m = n

\* An entry no id leaves.
LEMMA KeptEntry ==
    ASSUME NEW q \in Entry PROVE Shrinks(q, q, {}, {})
  BY DEF Shrinks, Entry

-----------------------------------------------------------------------------
(* What every step does to finished requests, spent ids and devices        *)

\* The step keeps the state of finished requests.
TerminalKept ==
    \A i \in Slots : req[i] # None /\ IsTerminal(req[i]) =>
        req'[i] = None \/ req'[i].state = req[i].state

\* The step forgets no id and revives none.
IdsKept ==
    /\ Issued \subseteq Issued'
    /\ \A id \in Issued : Valid(id)' => Valid(id)

\* Devices get hold of unfinished requests only.
NoLateHold ==
    \A i \in Slots : IdOf(i) \in held' /\ IdOf(i) \notin held => ~IsTerminal(req[i])

StepFacts == SlotInv' /\ TerminalKept /\ IdsKept /\ NoLateHold

-----------------------------------------------------------------------------
(* The operators on one request                                            *)

\* A spent generation stays spent when its slot advances.
LEMMA GenerationsOrdered ==
    ASSUME NEW a \in 1..MaxGen, NEW b \in 1..MaxGen, NEW c \in 1..MaxGen,
           a < b \/ a = b, c > b
    PROVE  a < c
  BY SizeAssumption

\* The next generation is larger, unless the slot is retired (checked_add).
LEMMA AdvanceGrows ==
    ASSUME NEW g \in 1..MaxGen
    PROVE  /\ Advance(g).gen \in 1..MaxGen
           /\ Advance(g).gen > g \/ (Advance(g).gen = g /\ Advance(g).retired)
<1>1. g \in Nat /\ MaxGen \in Nat /\ g <= MaxGen
  BY SizeAssumption
<1> QED
  BY <1>1 DEF Advance

\* Finishing a request keeps it well formed and, if it was not finished, ends it
\* in the given state (finish_terminal).
LEMMA FinishTerminalOK ==
    ASSUME NEW r \in Request, NEW h, RequestOK(r, h), NEW st \in TerminalStates
    PROVE  /\ FinishTerminal(r, st) \in Request
           /\ RequestOK(FinishTerminal(r, st), h)
           /\ IsTerminal(FinishTerminal(r, st))
           /\ IsTerminal(r) => FinishTerminal(r, st) = r
<1>1. CASE IsTerminal(r)
  BY <1>1 DEF FinishTerminal
<1>2. CASE ~IsTerminal(r)
  <2> DEFINE e == [r EXCEPT !.state = st,
                            !.res = IF @ = "DeviceOwned" THEN "DrainPending" ELSE @,
                            !.publish = IF @ = "idle" THEN "queued" ELSE @]
  <2>1. FinishTerminal(r, st) = QueueRelease(e)
    BY <1>2 DEF FinishTerminal
  <2>a. r.release = "idle" /\ r.res \in {"KernelOwned", "DeviceOwned", "DrainPending"}
    BY <1>2 DEF RequestOK, Request, ResourceStates, IsTerminal, Draining
  <2>b. e \in Request
    <3>1. /\ st \in States
          /\ (IF r.res = "DeviceOwned" THEN "DrainPending" ELSE r.res) \in ResourceStates
          /\ (IF r.publish = "idle" THEN "queued" ELSE r.publish) \in Flags
      BY DEF Request, States, ResourceStates, Flags
    <3> QED
      BY <3>1, Zenon DEF Request
  <2>c. /\ e.state = st
        /\ e.release = r.release
        /\ e.res = IF r.res = "DeviceOwned" THEN "DrainPending" ELSE r.res
    BY DEF Request
  <2>2. /\ e \in Request
        /\ e.state \in TerminalStates
        /\ e.release = "idle"
        /\ e.res \in {"KernelOwned", "DrainPending"}
        /\ e.res = "DrainPending" <=> Draining(r)
    BY <2>a, <2>b, <2>c DEF Draining
  <2> HIDE DEF e
  <2>3. CASE e.res = "DrainPending"
    <3>1. QueueRelease(e) = e
      BY <2>3 DEF QueueRelease
    <3> QED
      BY <1>2, <2>1, <2>2, <2>3, <3>1 DEF RequestOK, IsTerminal, Draining
  <2>4. CASE e.res = "KernelOwned"
    <3>1. QueueRelease(e) = [e EXCEPT !.res = "ReleasePending", !.release = "queued"]
      BY <2>2, <2>4 DEF QueueRelease, IsTerminal
    <3> DEFINE f == [e EXCEPT !.res = "ReleasePending", !.release = "queued"]
    <3>2. f \in Request /\ f.res = "ReleasePending" /\ f.release = "queued" /\ f.state = e.state
      BY <2>2, ZenonT(40) DEF Request, ResourceStates, Flags
    <3> HIDE DEF f
    <3>3. ~Draining(r) /\ ~Draining(f) /\ IsTerminal(f)
      BY <2>2, <2>4, <3>2 DEF Draining, IsTerminal
    <3> QED
      BY <1>2, <2>1, <3>1, <3>2, <3>3 DEF RequestOK, f
  <2> QED
    BY <2>2, <2>3, <2>4
<1> QED
  BY <1>1, <1>2

\* Once the device let go, offering the release makes the request well formed
\* (the tail of acknowledge_drain and of a late completion).
LEMMA StopAndReleaseOK ==
    ASSUME NEW r \in Request, NEW h, RequestOK(r, h)
    PROVE  /\ QueueRelease(DeviceStopped(r)) \in Request
           /\ RequestOK(QueueRelease(DeviceStopped(r)), FALSE)
           /\ QueueRelease(DeviceStopped(r)).state = r.state
<1> DEFINE e == DeviceStopped(r)
<1>1. /\ e \in Request
      /\ e.state = r.state
      /\ e.release = r.release
      /\ e.res \in {"KernelOwned", "ReleasePending", "Released"}
      /\ e.res = "KernelOwned" <=> r.release = "idle"
      /\ r.release # "idle" => IsTerminal(r)
  BY DEF DeviceStopped, RequestOK, IsTerminal, Draining, Request, ResourceStates, Flags
<1> HIDE DEF e
<1>2. CASE IsTerminal(e) /\ e.res = "KernelOwned"
  <2>1. QueueRelease(e) = [e EXCEPT !.res = "ReleasePending", !.release = "queued"]
    BY <1>1, <1>2 DEF QueueRelease
  <2> QED
    BY <1>1, <1>2, <2>1, ZenonT(40) DEF e, RequestOK, IsTerminal, Draining, Request, ResourceStates, Flags
<1>3. CASE ~(IsTerminal(e) /\ e.res = "KernelOwned")
  BY <1>1, <1>3 DEF e, QueueRelease, RequestOK, IsTerminal, Draining
<1> QED
  BY <1>2, <1>3, Zenon

\* A device that stopped lets go of an unfinished request.
LEMMA StopLiveOK ==
    ASSUME NEW r \in Request, NEW h, RequestOK(r, h), ~IsTerminal(r)
    PROVE  /\ DeviceStopped(r) \in Request
           /\ RequestOK(DeviceStopped(r), FALSE)
           /\ DeviceStopped(r).state = r.state
PROOF BY DEF DeviceStopped, RequestOK, IsTerminal, Draining, Request,
             TerminalStates, States, ResourceStates, Flags

\* Offering a release again changes nothing.
LEMMA ReleaseAgainOK ==
    ASSUME NEW r \in Request, NEW h, RequestOK(r, h)
    PROVE  QueueRelease(r) = r
PROOF BY DEF QueueRelease, RequestOK, IsTerminal, Draining, Request,
             TerminalStates, States, ResourceStates, Flags

\* The cancellation flags are independent of the resource state.
LEMMA CancelFlagsOK ==
    ASSUME NEW r \in Request, NEW h, RequestOK(r, h)
    PROVE  /\ QueueCancel(r) \in Request /\ RequestOK(QueueCancel(r), h)
           /\ WithdrawCancel(r) \in Request /\ RequestOK(WithdrawCancel(r), h)
           /\ [r EXCEPT !.cancelRequested = TRUE] \in Request
           /\ RequestOK([r EXCEPT !.cancelRequested = TRUE], h)
           /\ QueueCancel(r).state = r.state
           /\ WithdrawCancel(r).state = r.state
           /\ [r EXCEPT !.cancelRequested = TRUE].state = r.state
PROOF BY ZenonT(60) DEF QueueCancel, WithdrawCancel, RequestOK, IsTerminal, Draining, Request, Flags

-----------------------------------------------------------------------------
(* Steps that change requests in place                                     *)

\* A step that keeps generations and the occupied slots keeps the ids.
LEMMA InPlaceIds ==
    ASSUME gen' = gen, retired' = retired,
           \A i \in Slots : req[i] = None <=> req'[i] = None
    PROVE  IdsKept
PROOF BY DEF IdsKept, Issued, Valid, Id

\* A step that touches neither slots nor devices.
LEMMA FrozenStep ==
    ASSUME SlotInv, gen' = gen, retired' = retired, req' = req, held' = held
    PROVE  StepFacts
<1>1. SlotInv'
  BY DEF SlotInv, SlotTypes, RequestOK, Valid, IdOf
<1>2. IdsKept
  BY InPlaceIds
<1> QED
  BY <1>1, <1>2 DEF StepFacts, TerminalKept, NoLateHold

\* A step that keeps the generations, keeps every request well formed and takes
\* a device's hands only off or onto live requests preserves the invariant.
LEMMA InPlaceStep ==
    ASSUME SlotInv,
           gen' = gen, retired' = retired,
           req' \in [Slots -> Request \cup {None}],
           \A i \in Slots : req[i] = None <=> req'[i] = None,
           \A i \in Slots : req[i] # None => RequestOK(req'[i], IdOf(i) \in held'),
           held' \subseteq Id,
           \A id \in held' : id.slot \in Slots /\ id = IdOf(id.slot) /\ req[id.slot] # None
    PROVE  SlotInv'
<1>1. SlotTypes'
  BY DEF SlotInv, SlotTypes
<1>2. \A i \in Slots : IdOf(i)' = IdOf(i)
  BY DEF IdOf
<1>3. \A i \in Slots : retired'[i] => req'[i] = None /\ gen'[i] = MaxGen
  BY DEF SlotInv
<1>4. \A i \in Slots : req'[i] # None => RequestOK(req'[i], IdOf(i)' \in held')
  BY <1>2
<1>5. ASSUME NEW id \in held' PROVE Valid(id)'
  <2>1. /\ id.slot \in Slots /\ req'[id.slot] # None
        /\ id = [slot |-> id.slot, gen |-> gen[id.slot]]
    BY DEF IdOf
  <2>2. ~retired[id.slot]
    BY <2>1 DEF SlotInv
  <2> QED
    BY <2>1, <2>2 DEF Valid
<1> QED
  BY <1>1, <1>3, <1>4, <1>5 DEF SlotInv, RequestOK

\* The same for a step that changes one request.
LEMMA OneRequestStep ==
    ASSUME SlotInv,
           NEW i \in Slots, req[i] # None,
           NEW r \in Request,
           gen' = gen, retired' = retired,
           req' = [req EXCEPT ![i] = r],
           held' \subseteq held \cup {IdOf(i)},
           held \ {IdOf(i)} \subseteq held',
           RequestOK(r, IdOf(i) \in held'),
           IsTerminal(req[i]) => r.state = req[i].state,
           IdOf(i) \in held' /\ IdOf(i) \notin held => ~IsTerminal(req[i])
    PROVE  StepFacts
<1>1. req \in [Slots -> Request \cup {None}] /\ held \subseteq Id /\ IdOf(i) \in Id
  BY DEF SlotInv, SlotTypes, IdOf, Id
<1>2. req' \in [Slots -> Request \cup {None}]
  BY <1>1
<1>3. \A j \in Slots : req[j] = None <=> req'[j] = None
  BY <1>1, NoneAssumption
<1>4. held' \subseteq Id
  BY <1>1
<1>5. \A j \in Slots : j # i => IdOf(j) # IdOf(i)
  BY DEF IdOf
<1>6. ASSUME NEW j \in Slots, req[j] # None PROVE RequestOK(req'[j], IdOf(j) \in held')
  <2>1. CASE j = i
    BY <1>1, <2>1
  <2>2. CASE j # i
    <3>1. req'[j] = req[j] /\ (IdOf(j) \in held' <=> IdOf(j) \in held)
      BY <1>1, <1>5, <2>2
    <3> QED
      BY <1>6, <3>1 DEF SlotInv, RequestOK
  <2> QED
    BY <2>1, <2>2
<1>7. \A id \in held' : id.slot \in Slots /\ id = IdOf(id.slot) /\ req[id.slot] # None
  <2>1. ASSUME NEW id \in held
        PROVE  id.slot \in Slots /\ id = IdOf(id.slot) /\ req[id.slot] # None
    BY <1>1 DEF SlotInv, Valid, IdOf, Id
  <2>2. IdOf(i).slot = i
    BY DEF IdOf
  <2> QED
    BY <2>1, <2>2
<1>8. SlotInv'
  BY <1>2, <1>3, <1>4, <1>6, <1>7, InPlaceStep
<1>9. IdsKept
  BY <1>3, InPlaceIds
<1>10. TerminalKept
  BY <1>1 DEF TerminalKept
<1>11. NoLateHold
  BY <1>5 DEF NoLateHold
<1> QED
  BY <1>8, <1>9, <1>10, <1>11 DEF StepFacts

-----------------------------------------------------------------------------
(* One lemma per action                                                    *)

\* submit_batch.
LEMMA SubmitKeeps ==
    ASSUME SlotInv, NEW b \in Batches, SubmitBatch(b)
    PROVE  StepFacts
<1> DEFINE taken == {i \in VacantSlots : Rank(i, VacantSlots) <= Len(b)}
           new(i) == b[Rank(i, VacantSlots)]
<1>1. PICK n \in 1..MaxBatch : b \in [1..n -> Submissions]
  BY DEF Batches
<1>2. n \in Nat /\ Len(b) = n
  BY <1>1, SizeAssumption
<1>3. VacantSlots \subseteq Slots /\ IsFiniteSet(Slots)
  BY SizeAssumption, FS_Interval DEF VacantSlots, Slots
<1>4. ASSUME NEW i \in taken PROVE new(i) \in Submission
  <2> DEFINE below == {m \in VacantSlots : m <= i}
  <2>1. IsFiniteSet(below)
    BY <1>3, FS_Subset
  <2>2. i \in below
    BY <1>3, SizeAssumption DEF Slots
  <2>3. Cardinality(below) \in Nat /\ Cardinality(below) # 0
    BY <2>1, <2>2, FS_CardinalityType, FS_EmptySet
  <2>4. Rank(i, VacantSlots) \in 1..n
    BY <1>2, <2>3 DEF Rank
  <2> QED
    BY <1>1, <2>4, InputAssumption
<1>5. \A s \in Submission : NewRequest(s) \in Request /\ RequestOK(NewRequest(s), FALSE)
  BY DEF Submission, NewRequest, Request, RequestOK, Draining, IsTerminal, States,
         TerminalStates, ResourceStates, Flags
<1>6. /\ req' = [i \in Slots |-> IF i \in taken THEN NewRequest(new(i)) ELSE req[i]]
      /\ gen' = gen /\ retired' = retired /\ held' = held
  BY Zenon DEF SubmitBatch
<1> HIDE DEF new
<1>7. SlotTypes'
  BY <1>4, <1>5, <1>6, Zenon DEF SlotInv, SlotTypes
<1>8. \A i \in taken : req[i] = None /\ ~retired[i]
  BY DEF VacantSlots
<1>9. \A i \in Slots : retired'[i] => req'[i] = None /\ gen'[i] = MaxGen
  BY <1>6, <1>8 DEF SlotInv
<1>10. ASSUME NEW i \in Slots, req'[i] # None PROVE RequestOK(req'[i], IdOf(i)' \in held')
  <2>1. IdOf(i)' = IdOf(i)
    BY <1>6 DEF IdOf
  <2>2. CASE i \in taken
    <3>1. IdOf(i) \notin held
      BY <1>8, <2>2 DEF SlotInv, Valid, IdOf
    <3> QED
      BY <1>4, <1>5, <1>6, <2>1, <2>2, <3>1 DEF RequestOK
  <2>3. CASE i \notin taken
    BY <1>6, <1>10, <2>1, <2>3 DEF SlotInv, RequestOK
  <2> QED
    BY <2>2, <2>3
<1>11. ASSUME NEW id \in held' PROVE Valid(id)'
  <2>1. Valid(id)
    BY <1>6 DEF SlotInv
  <2>2. req'[id.slot] = req[id.slot]
    BY <1>6, <1>8, <2>1 DEF Valid
  <2> QED
    BY <1>6, <2>1, <2>2 DEF Valid
<1>12. SlotInv'
  BY <1>7, <1>9, <1>10, <1>11 DEF SlotInv
<1>13. IdsKept
  <2>1. \A i \in Slots : req[i] # None => req'[i] # None
    BY <1>6, <1>8
  <2>2. Issued \subseteq Issued'
    BY <1>6, <2>1 DEF Issued, Id
  <2>3. ASSUME NEW id \in Issued, Valid(id)' PROVE Valid(id)
    <3>1. id.slot \in Slots /\ ~retired[id.slot] /\ gen[id.slot] = id.gen
      BY <1>6, <2>3 DEF Valid
    <3>2. id.slot \notin taken
      BY <1>8, <3>1, SizeAssumption DEF Issued, Id
    <3> QED
      BY <1>6, <2>3, <3>1, <3>2 DEF Valid
  <2> QED
    BY <2>2, <2>3 DEF IdsKept
<1>14. TerminalKept /\ NoLateHold
  BY <1>6, <1>8 DEF TerminalKept, NoLateHold
<1> QED
  BY <1>12, <1>13, <1>14 DEF StepFacts

\* next_dispatch.
LEMMA DispatchKeeps ==
    ASSUME SlotInv, NextDispatch
    PROVE  StepFacts
<1>1. PICK id : /\ Valid(id)
                /\ req[id.slot].state = "Pending"
                /\ req' = [req EXCEPT ![id.slot].state = "Active",
                                      ![id.slot].started = TRUE]
                /\ UNCHANGED <<gen, retired, held>>
  BY Zenon DEF NextDispatch, Dispatchable
<1> DEFINE i == id.slot
           r == [req[i] EXCEPT !.state = "Active", !.started = TRUE]
<1>2. i \in Slots /\ req[i] \in Request /\ req[i] # None
      /\ RequestOK(req[i], IdOf(i) \in held)
  BY <1>1, ValidFacts
<1>3. r \in Request /\ RequestOK(r, IdOf(i) \in held)
  BY <1>1, <1>2, Zenon DEF Request, RequestOK, IsTerminal, Draining, States, TerminalStates
<1>4. req' = [req EXCEPT ![i] = r]
  BY <1>1, <1>2, Zenon DEF SlotInv, SlotTypes
<1>5. ~IsTerminal(req[i])
  BY <1>1 DEF IsTerminal, TerminalStates
<1> QED
  BY <1>1, <1>2, <1>3, <1>4, <1>5, OneRequestStep, Zenon

\* requeue_active.
LEMMA RequeueKeeps ==
    ASSUME SlotInv, NEW id, RequeueActive(id)
    PROVE  StepFacts
<1> DEFINE i == id.slot
           r == [req[i] EXCEPT !.state = "Pending"]
<1>1. /\ i \in Slots /\ req[i] \in Request /\ req[i] # None
      /\ RequestOK(req[i], IdOf(i) \in held)
      /\ req[i].state = "Active"
      /\ UNCHANGED <<gen, retired, held>>
  BY ValidFacts DEF RequeueActive
<1>2. r \in Request /\ RequestOK(r, IdOf(i) \in held)
  BY <1>1 DEF Request, RequestOK, IsTerminal, Draining, States, TerminalStates
<1>3. req' = [req EXCEPT ![i] = r]
  BY <1>1 DEF RequeueActive, SlotInv, SlotTypes
<1>4. ~IsTerminal(req[i])
  BY <1>1 DEF IsTerminal, TerminalStates
<1> QED
  BY <1>1, <1>2, <1>3, <1>4, OneRequestStep, Zenon

\* mark_device_owned.
LEMMA MarkDeviceOwnedKeeps ==
    ASSUME SlotInv, NEW id, MarkDeviceOwned(id), id \in Id
    PROVE  StepFacts
<1> DEFINE i == id.slot
           r == [req[i] EXCEPT !.res = "DeviceOwned"]
<1>1. /\ i \in Slots /\ req[i] \in Request /\ req[i] # None
      /\ RequestOK(req[i], IdOf(i) \in held)
      /\ req[i].state \in {"Active", "CancelPending"}
      /\ req[i].res = "KernelOwned"
      /\ gen[i] = id.gen
  BY ValidFacts DEF MarkDeviceOwned, Valid
<1>2. id = IdOf(i)
  BY <1>1 DEF IdOf, Id
<1>3. /\ UNCHANGED <<gen, retired>>
      /\ held' = held \cup {IdOf(i)}
      /\ req' = [req EXCEPT ![i] = r]
  BY <1>2 DEF MarkDeviceOwned, ChangeOne, Change
<1>4. r \in Request /\ RequestOK(r, TRUE)
  BY <1>1 DEF Request, RequestOK, IsTerminal, Draining, ResourceStates, TerminalStates
<1>5. RequestOK(r, IdOf(i) \in held')
  BY <1>3, <1>4 DEF RequestOK
<1>6. ~IsTerminal(req[i])
  BY <1>1 DEF IsTerminal, TerminalStates
<1> QED
  BY <1>1, <1>3, <1>4, <1>5, <1>6, OneRequestStep, Zenon

\* What a completion does to its request (apply_completion).
LEMMA CompletedOK ==
    ASSUME NEW r \in Request, NEW h, RequestOK(r, h), NEW c \in Completion
    PROVE  /\ Completed(r, c) \in Request
           /\ RequestOK(Completed(r, c), h /\ ~c.released)
           /\ IsTerminal(r) => Completed(r, c).state = r.state
<1> DEFINE stopped == IF c.released THEN DeviceStopped(r) ELSE r
<1>1. CASE IsTerminal(r)
  <2>1. CASE c.released
    <3>1. Completed(r, c) = QueueRelease(DeviceStopped(r))
      BY <1>1, <2>1 DEF Completed
    <3> QED
      BY <2>1, <3>1, StopAndReleaseOK DEF RequestOK
  <2>2. CASE ~c.released
    BY <1>1, <2>2 DEF Completed, RequestOK
  <2> QED
    BY <2>1, <2>2
<1>2. CASE ~IsTerminal(r)
  <2> DEFINE s == IF r.state = "CancelPending" THEN WithdrawCancel(stopped) ELSE stopped
             st == IF c.ok THEN "Completed" ELSE "Failed"
  <2>1. stopped \in Request /\ RequestOK(stopped, h /\ ~c.released)
    <3>1. CASE c.released
      BY <1>2, <3>1, StopLiveOK DEF RequestOK
    <3>2. CASE ~c.released
      BY <3>2 DEF RequestOK
    <3> QED
      BY <3>1, <3>2
  <2>2. s \in Request /\ RequestOK(s, h /\ ~c.released)
    BY <2>1, CancelFlagsOK, Zenon
  <2>3. st \in TerminalStates
    BY DEF TerminalStates
  <2>4. Completed(r, c) = FinishTerminal(s, st)
    BY <1>2 DEF Completed
  <2> QED
    BY <1>2, <2>2, <2>3, <2>4, FinishTerminalOK
<1> QED
  BY <1>1, <1>2

\* run_worker applies a completion.
LEMMA ApplyCompletionKeeps ==
    ASSUME SlotInv, completions \in Seq(Completion), ApplyCompletion
    PROVE  StepFacts
<1> DEFINE c == Head(completions)
           i == c.id.slot
           r == Completed(req[i], c)
<1>1. c \in Completion
  BY DEF ApplyCompletion
<1>2. CASE Valid(c.id)
  <2>1. /\ i \in Slots /\ req[i] \in Request /\ req[i] # None
        /\ RequestOK(req[i], IdOf(i) \in held)
    BY <1>2, ValidFacts
  <2>2. c.id = IdOf(i)
    BY <1>1, <1>2 DEF Valid, IdOf, Id, Completion
  <2>3. /\ UNCHANGED <<gen, retired>>
        /\ held' = IF c.released THEN held \ {IdOf(i)} ELSE held
        /\ req' = [req EXCEPT ![i] = r]
    BY <1>2, <2>2, Zenon DEF ApplyCompletion, ChangeOne, Change
  <2>4. /\ r \in Request /\ RequestOK(r, IdOf(i) \in held /\ ~c.released)
        /\ IsTerminal(req[i]) => r.state = req[i].state
    BY <1>1, <2>1, CompletedOK, ZenonT(40)
  <2>5. RequestOK(r, IdOf(i) \in held')
    BY <2>3, <2>4 DEF RequestOK
  <2> HIDE DEF r, c
  <2> QED
    BY <2>1, <2>3, <2>4, <2>5, OneRequestStep, Zenon
<1>3. CASE ~Valid(c.id)
  <2>1. UNCHANGED <<gen, retired, req>> /\ held' \subseteq held
    BY <1>3 DEF ApplyCompletion, slotVars
  <2>2. c.id \notin held
    BY <1>3 DEF SlotInv
  <2>3. held' = held
    BY <2>2 DEF ApplyCompletion
  <2> QED
    BY <2>1, <2>3, FrozenStep
<1> QED
  BY <1>2, <1>3

\* run_worker expires a deadline.
LEMMA ApplyTimeoutKeeps ==
    ASSUME SlotInv, ApplyTimeout
    PROVE  StepFacts
<1> DEFINE i == First.id.slot
           applies == Valid(First.id) /\ ~IsTerminal(req[i])
           r == TimedOut(req[i])
<1>1. /\ UNCHANGED <<gen, retired, held>>
      /\ req' = [req EXCEPT ![i] = IF applies THEN r ELSE req[i]]
  BY Zenon DEF ApplyTimeout, Change
<1>2. CASE applies
  <2>1. /\ i \in Slots /\ req[i] \in Request /\ req[i] # None
        /\ RequestOK(req[i], IdOf(i) \in held)
    BY <1>2, ValidFacts
  <2> DEFINE asked == IF req[i].started
                      THEN QueueCancel([req[i] EXCEPT !.cancelRequested = TRUE])
                      ELSE req[i]
  <2>2. asked \in Request /\ RequestOK(asked, IdOf(i) \in held)
    BY <2>1, CancelFlagsOK
  <2>3. r = FinishTerminal(asked, "TimedOut") /\ "TimedOut" \in TerminalStates
    BY DEF TimedOut, TerminalStates
  <2>4. r \in Request /\ RequestOK(r, IdOf(i) \in held)
    BY <2>2, <2>3, FinishTerminalOK
  <2> QED
    BY <1>1, <1>2, <2>1, <2>4, OneRequestStep, Zenon
<1>3. CASE ~applies
  <2>1. req' = req
    BY <1>1, <1>3 DEF SlotInv, SlotTypes
  <2> QED
    BY <1>1, <2>1, FrozenStep
<1> QED
  BY <1>2, <1>3

\* What a request for cancellation does to one request.
LEMMA CancelRequestOK ==
    ASSUME NEW r \in Request, NEW h, RequestOK(r, h), r.state \in {"Pending", "Active"}
    PROVE  CancelRequest(r) \in Request /\ RequestOK(CancelRequest(r), h)
<1> DEFINE asked == [r EXCEPT !.cancelRequested = TRUE]
           s == [asked EXCEPT !.state = "CancelPending"]
<1>1. asked \in Request /\ RequestOK(asked, h) /\ asked.state = r.state
  BY CancelFlagsOK
<1>2. s \in Request /\ RequestOK(s, h)
  BY <1>1, Zenon DEF Request, RequestOK, IsTerminal, Draining, States, TerminalStates
<1>3. QueueCancel(s) \in Request /\ RequestOK(QueueCancel(s), h)
  BY <1>2, CancelFlagsOK, Zenon
<1>4. "Canceled" \in TerminalStates
  BY DEF TerminalStates
<1>5. FinishTerminal(asked, "Canceled") \in Request
      /\ RequestOK(FinishTerminal(asked, "Canceled"), h)
  BY <1>1, <1>4, FinishTerminalOK
<1> QED
  BY <1>3, <1>5 DEF CancelRequest

\* cancel.
LEMMA CancelKeeps ==
    ASSUME SlotInv, NEW id, Cancel(id)
    PROVE  StepFacts
<1> DEFINE i == id.slot
           r == CancelRequest(req[i])
<1>1. /\ i \in Slots /\ req[i] \in Request /\ req[i] # None
      /\ RequestOK(req[i], IdOf(i) \in held)
      /\ req[i].state \in {"Pending", "Active"}
  BY ValidFacts DEF Cancel, Cancelable
<1>2. UNCHANGED <<gen, retired, held>> /\ req' = [req EXCEPT ![i] = r]
  BY DEF Cancel, ChangeOne, Change
<1>3. r \in Request /\ RequestOK(r, IdOf(i) \in held)
  BY <1>1, CancelRequestOK
<1>4. ~IsTerminal(req[i])
  BY <1>1 DEF IsTerminal, TerminalStates
<1> HIDE DEF r
<1> QED
  BY <1>1, <1>2, <1>3, <1>4, OneRequestStep, Zenon

\* acknowledge_cancel.
LEMMA AcknowledgeCancelKeeps ==
    ASSUME SlotInv, NEW id \in Id, NEW stopped \in BOOLEAN, AcknowledgeCancel(id, stopped)
    PROVE  StepFacts
<1> DEFINE i == id.slot
           h == IdOf(i) \in held
           r2 == IF stopped THEN DeviceStopped(req[i]) ELSE req[i]
           r == IF req[i].state = "CancelPending"
                THEN FinishTerminal(r2, "Canceled") ELSE QueueRelease(r2)
<1>1. /\ i \in Slots /\ req[i] \in Request /\ req[i] # None
      /\ RequestOK(req[i], h)
      /\ id = IdOf(i)
  BY ValidFacts DEF AcknowledgeCancel, Valid, IdOf, Id
<1>2. /\ UNCHANGED <<gen, retired>> /\ req' = [req EXCEPT ![i] = r]
      /\ held' = IF stopped THEN held \ {IdOf(i)} ELSE held
  BY <1>1, ZenonT(60) DEF AcknowledgeCancel, ChangeOne, Change
<1>3. r \in Request /\ RequestOK(r, h /\ ~stopped)
  <2>1. CASE req[i].state = "CancelPending"
    <3>1. ~IsTerminal(req[i]) /\ "Canceled" \in TerminalStates
      BY <2>1 DEF IsTerminal, TerminalStates
    <3>2. r2 \in Request /\ RequestOK(r2, h /\ ~stopped)
      <4>1. CASE stopped
        BY <1>1, <3>1, <4>1, StopLiveOK DEF RequestOK
      <4>2. CASE ~stopped
        BY <1>1, <4>2, SMTT(30) DEF RequestOK
      <4> QED
        BY <4>1, <4>2
    <3> QED
      BY <2>1, <3>1, <3>2, FinishTerminalOK
  <2>2. CASE req[i].state # "CancelPending" /\ stopped
    <3>1. r = QueueRelease(DeviceStopped(req[i]))
      BY <2>2
    <3> HIDE DEF r
    <3>2. r \in Request /\ RequestOK(r, FALSE)
      BY <1>1, <3>1, StopAndReleaseOK, Zenon
    <3> QED
      BY <2>2, <3>2, Zenon DEF RequestOK
  <2>3. CASE req[i].state # "CancelPending" /\ ~stopped
    <3>1. r = QueueRelease(req[i])
      BY <2>3
    <3> HIDE DEF r
    <3>2. r = req[i]
      BY <1>1, <3>1, ReleaseAgainOK, Zenon
    <3> QED
      BY <1>1, <2>3, <3>2, Zenon DEF RequestOK
  <2> QED
    BY <2>1, <2>2, <2>3
<1>4. RequestOK(r, IdOf(i) \in held')
  BY <1>2, <1>3, Zenon DEF RequestOK
<1>5. IsTerminal(req[i]) => r.state = req[i].state
  <2>1. IsTerminal(req[i]) => req[i].state # "CancelPending"
    BY DEF IsTerminal, TerminalStates
  <2> QED
    BY <1>1, <2>1, StopAndReleaseOK, ReleaseAgainOK, Zenon
<1> HIDE DEF r
<1> QED
  BY <1>1, <1>2, <1>3, <1>4, <1>5, OneRequestStep, ZenonT(60)

\* acknowledge_drain.
LEMMA AcknowledgeDrainKeeps ==
    ASSUME SlotInv, NEW id \in Id, AcknowledgeDrain(id)
    PROVE  StepFacts
<1> DEFINE i == id.slot
           r == QueueRelease(DeviceStopped(req[i]))
<1>1. /\ i \in Slots /\ req[i] \in Request /\ req[i] # None
      /\ RequestOK(req[i], IdOf(i) \in held)
      /\ id = IdOf(i)
  BY ValidFacts, Zenon DEF AcknowledgeDrain, Valid, IdOf, Id
<1>2. /\ UNCHANGED <<gen, retired>> /\ req' = [req EXCEPT ![i] = r]
      /\ held' = held \ {IdOf(i)}
  BY <1>1, Zenon DEF AcknowledgeDrain, ChangeOne, Change
<1>3. r \in Request /\ RequestOK(r, FALSE) /\ r.state = req[i].state
  BY <1>1, StopAndReleaseOK, Zenon
<1>4. RequestOK(r, IdOf(i) \in held')
  BY <1>2, <1>3 DEF RequestOK
<1> HIDE DEF r
<1> QED
  BY <1>1, <1>2, <1>3, <1>4, OneRequestStep, ZenonT(40)

-----------------------------------------------------------------------------
(* Actions that change a set of requests                                   *)

\* Ids that a device holds name live slots.
LEMMA HeldFacts ==
    ASSUME SlotInv, NEW id \in held
    PROVE  id.slot \in Slots /\ id = IdOf(id.slot) /\ req[id.slot] # None
PROOF BY DEF SlotInv, SlotTypes, Valid, IdOf, Id

\* A step that rewrites the requests of a set of live slots and leaves the
\* devices alone preserves the invariant when each rewritten one is well formed.
LEMMA ManyRequestsStep ==
    ASSUME SlotInv, NEW S \in SUBSET Slots, NEW new,
           gen' = gen, retired' = retired, held' = held,
           req' = new, new \in [Slots -> Request \cup {None}],
           \A i \in Slots \ S : new[i] = req[i],
           \A i \in S : /\ req[i] # None
                       /\ new[i] \in Request
                       /\ RequestOK(new[i], IdOf(i) \in held)
                       /\ ~IsTerminal(req[i])
    PROVE  StepFacts
<1>1. \A i \in Slots : req[i] = None <=> req'[i] = None
  BY NoneAssumption
<1>2. \A i \in Slots : req[i] # None => RequestOK(req'[i], IdOf(i) \in held')
  BY DEF SlotInv
<1>3. held' \subseteq Id
  BY DEF SlotInv, SlotTypes
<1>4. \A id \in held' : id.slot \in Slots /\ id = IdOf(id.slot) /\ req[id.slot] # None
  BY HeldFacts
<1>5. SlotInv'
  BY <1>1, <1>2, <1>3, <1>4, InPlaceStep
<1>6. IdsKept
  BY <1>1, InPlaceIds
<1> QED
  BY <1>5, <1>6 DEF StepFacts, TerminalKept, NoLateHold

\* terminate_thread and terminate_process.
LEMMA TerminateKeeps ==
    ASSUME SlotInv, NEW M \in SUBSET LiveSlots, TerminateMatching(M)
    PROVE  StepFacts
<1> DEFINE S == {i \in M : ~IsTerminal(req[i])}
           new == [i \in Slots |-> IF i \in S THEN OwnerTerminated(req[i]) ELSE req[i]]
<1>1. req' = new /\ UNCHANGED <<gen, retired, held>>
  BY DEF TerminateMatching, Change
<1>2. S \in SUBSET Slots
  BY DEF LiveSlots
<1>3. ASSUME NEW i \in S
      PROVE  /\ req[i] # None
             /\ OwnerTerminated(req[i]) \in Request
             /\ RequestOK(OwnerTerminated(req[i]), IdOf(i) \in held)
             /\ ~IsTerminal(req[i])
  <2>1. req[i] \in Request /\ req[i] # None /\ RequestOK(req[i], IdOf(i) \in held)
    BY DEF LiveSlots, SlotInv, SlotTypes
  <2> DEFINE asked == [req[i] EXCEPT !.cancelRequested = TRUE]
             s == IF req[i].state = "Pending" THEN asked ELSE QueueCancel(asked)
  <2>2. asked \in Request /\ RequestOK(asked, IdOf(i) \in held)
    BY <2>1, CancelFlagsOK
  <2> HIDE DEF asked
  <2>3. s \in Request /\ RequestOK(s, IdOf(i) \in held)
    BY <2>2, CancelFlagsOK, Zenon
  <2>4. OwnerTerminated(req[i]) = FinishTerminal(s, "OwnerTerminated")
        /\ "OwnerTerminated" \in TerminalStates
    BY DEF OwnerTerminated, TerminalStates, asked
  <2> QED
    BY <2>1, <2>3, <2>4, FinishTerminalOK, SMTT(30)
<1>4. new \in [Slots -> Request \cup {None}]
  BY <1>3 DEF SlotInv, SlotTypes
<1>5. \A i \in Slots \ S : new[i] = req[i]
  OBVIOUS
<1>6. \A i \in S : new[i] = OwnerTerminated(req[i])
  BY <1>2
<1> HIDE DEF new, S
<1> QED
  BY <1>1, <1>2, <1>3, <1>4, <1>5, <1>6, ManyRequestsStep, SMTT(30)

\* begin_shutdown.
LEMMA ShutdownKeeps ==
    ASSUME SlotInv, BeginShutdown
    PROVE  StepFacts
<1> DEFINE S == {i \in Slots : Cancelable(i)}
           new == [i \in Slots |-> IF i \in S THEN CancelRequest(req[i]) ELSE req[i]]
<1>1. req' = new /\ UNCHANGED <<gen, retired, held>>
  BY DEF BeginShutdown, Change
<1>2. ASSUME NEW i \in S
      PROVE  /\ req[i] # None
             /\ CancelRequest(req[i]) \in Request
             /\ RequestOK(CancelRequest(req[i]), IdOf(i) \in held)
             /\ ~IsTerminal(req[i])
  <2>1. /\ req[i] \in Request /\ req[i] # None /\ RequestOK(req[i], IdOf(i) \in held)
        /\ req[i].state \in {"Pending", "Active"}
    BY DEF Cancelable, SlotInv, SlotTypes
  <2> QED
    BY <2>1, CancelRequestOK DEF IsTerminal, TerminalStates
<1>3. new \in [Slots -> Request \cup {None}]
  BY <1>2 DEF SlotInv, SlotTypes
<1>4. /\ S \in SUBSET Slots
      /\ \A i \in Slots \ S : new[i] = req[i]
      /\ \A i \in S : new[i] = CancelRequest(req[i])
  OBVIOUS
<1> HIDE DEF new, S
<1> QED
  BY <1>1, <1>2, <1>3, <1>4, ManyRequestsStep, SMTT(30)

\* What the loss or reset of its device does to one request (fail_device).
LEMMA DeviceFailedOK ==
    ASSUME NEW r \in Request, NEW h, RequestOK(r, h), NEW stopped \in BOOLEAN
    PROVE  /\ DeviceFailed(r, stopped) \in Request
           /\ RequestOK(DeviceFailed(r, stopped), h /\ ~stopped)
           /\ IsTerminal(r) => DeviceFailed(r, stopped).state = r.state
<1> DEFINE r1 == WithdrawCancel(r)
           r2 == IF stopped THEN DeviceStopped(r1) ELSE r1
<1>1. r1 \in Request /\ RequestOK(r1, h) /\ r1.state = r.state
  BY CancelFlagsOK, Zenon
<1>2. IsTerminal(r1) <=> IsTerminal(r)
  BY <1>1 DEF IsTerminal
<1> HIDE DEF r1
<1>3. CASE IsTerminal(r)
  <2>1. DeviceFailed(r, stopped) = QueueRelease(r2)
    BY <1>3 DEF DeviceFailed, r1
  <2>2. CASE stopped
    BY <1>1, <2>1, <2>2, StopAndReleaseOK DEF RequestOK
  <2>3. CASE ~stopped
    BY <1>1, <2>1, <2>3, ReleaseAgainOK DEF RequestOK
  <2> QED
    BY <2>2, <2>3
<1>4. CASE ~IsTerminal(r)
  <2>1. DeviceFailed(r, stopped) = FinishTerminal(r2, "Failed") /\ "Failed" \in TerminalStates
    BY <1>4 DEF DeviceFailed, r1, TerminalStates
  <2>2. r2 \in Request /\ RequestOK(r2, h /\ ~stopped)
    <3>1. CASE stopped
      BY <1>1, <1>2, <1>4, <3>1, StopLiveOK DEF RequestOK
    <3>2. CASE ~stopped
      BY <1>1, <3>2 DEF RequestOK
    <3> QED
      BY <3>1, <3>2
  <2> QED
    BY <1>4, <2>1, <2>2, FinishTerminalOK
<1> QED
  BY <1>3, <1>4

\* fail_device.
LEMMA RemoveDeviceKeeps ==
    ASSUME SlotInv, NEW d \in Devices, NEW stopped \in BOOLEAN, RemoveDevice(d, stopped)
    PROVE  StepFacts
<1> DEFINE S == {i \in LiveSlots : /\ req[i].device = d
                                   /\ ~IsTerminal(req[i]) \/ Draining(req[i])}
           new == [i \in Slots |-> IF i \in S THEN DeviceFailed(req[i], stopped) ELSE req[i]]
<1>1. /\ req' = new /\ UNCHANGED <<gen, retired>>
      /\ held' = IF stopped THEN {id \in held : req[id.slot].device # d} ELSE held
  BY Zenon DEF RemoveDevice, Change
<1>2. S \subseteq Slots
  BY DEF LiveSlots
<1>3. ASSUME NEW i \in Slots, req[i] # None
      PROVE  /\ new[i] \in Request
             /\ RequestOK(new[i], IdOf(i) \in held')
             /\ IsTerminal(req[i]) => new[i].state = req[i].state
  <2> DEFINE h == IdOf(i) \in held
  <2>1. req[i] \in Request /\ RequestOK(req[i], h)
    BY <1>3 DEF SlotInv, SlotTypes
  <2>2. IdOf(i).slot = i
    BY DEF IdOf
  <2>3. CASE i \in S
    <3>1. IdOf(i) \in held' <=> IdOf(i) \in held /\ ~stopped
      BY <1>1, <2>2, <2>3, Zenon
    <3>a. new[i] = DeviceFailed(req[i], stopped)
      BY <2>3
    <3> HIDE DEF new, S, h
    <3>2. RequestOK(new[i], h /\ ~stopped) /\ new[i] \in Request
          /\ (IsTerminal(req[i]) => new[i].state = req[i].state)
      BY <2>1, <3>a, DeviceFailedOK
    <3> QED
      BY <3>1, <3>2 DEF RequestOK, h
  <2>4. CASE i \notin S
    <3>1. req[i].device = d => ~Draining(req[i])
      BY <1>3, <2>4 DEF LiveSlots
    <3>2. req[i].device = d => IdOf(i) \notin held
      BY <2>1, <3>1 DEF RequestOK
    <3>3. IdOf(i) \in held' <=> IdOf(i) \in held
      BY <1>1, <2>2, <3>2
    <3> QED
      BY <2>1, <2>4, <3>3, Zenon DEF RequestOK
  <2> QED
    BY <2>3, <2>4
<1>a. \A i \in Slots : req[i] = None => new[i] = None
  BY DEF LiveSlots
<1>4. new \in [Slots -> Request \cup {None}]
  <2>1. \A i \in Slots : new[i] \in Request \cup {None}
    <3> HIDE DEF new
    <3> QED
      BY <1>3, <1>a
  <2> QED
    BY <2>1
<1>5. \A i \in Slots : req[i] = None <=> new[i] = None
  <2> HIDE DEF new
  <2> QED
    BY <1>3, <1>a, NoneAssumption
<1>6. held' \subseteq held
  BY <1>1
<1>7. held' \subseteq Id
  BY <1>6 DEF SlotInv, SlotTypes
<1>8. \A id \in held' : id.slot \in Slots /\ id = IdOf(id.slot) /\ req[id.slot] # None
  BY <1>6, HeldFacts
<1> HIDE DEF new, S
<1>9. SlotInv'
  BY <1>1, <1>3, <1>4, <1>5, <1>7, <1>8, InPlaceStep
<1>10. IdsKept
  BY <1>1, <1>5, InPlaceIds, SMTT(30)
<1>11. TerminalKept /\ NoLateHold
  BY <1>1, <1>3, <1>6, Zenon DEF TerminalKept, NoLateHold
<1> QED
  BY <1>9, <1>10, <1>11 DEF StepFacts

-----------------------------------------------------------------------------
(* Publishing, releasing, retiring                                         *)

\* Storing a well formed request and retiring it when it is done.
LEMMA StoreOrRetireKeeps ==
    ASSUME SlotInv, NEW i \in Slots, req[i] # None,
           NEW r \in Request, RequestOK(r, IdOf(i) \in held),
           r.state = req[i].state,
           StoreOrRetire(i, r), held' = held
    PROVE  StepFacts
<1>1. CASE ~Retires(r)
  BY <1>1, OneRequestStep, Zenon DEF StoreOrRetire
<1>2. CASE Retires(r)
  <2>1. /\ req' = [req EXCEPT ![i] = None]
        /\ gen' = [gen EXCEPT ![i] = Advance(gen[i]).gen]
        /\ retired' = [retired EXCEPT ![i] = Advance(gen[i]).retired]
    BY <1>2, Zenon DEF StoreOrRetire
  <2>2. IdOf(i) \notin held
    BY <1>2, Zenon DEF Retires, RequestOK, Draining
  <2>3. SlotTypes
    BY DEF SlotInv
  <2>4. /\ Advance(gen[i]).gen \in 1..MaxGen
        /\ Advance(gen[i]).retired \in BOOLEAN
        /\ Advance(gen[i]).retired => Advance(gen[i]).gen = MaxGen
    BY <2>3, SizeAssumption DEF SlotTypes, Advance
  <2>5. SlotTypes'
    BY <2>1, <2>3, <2>4 DEF SlotTypes
  <2>6. \A j \in Slots : retired'[j] => req'[j] = None /\ gen'[j] = MaxGen
    BY <2>1, <2>3, <2>4, SMTT(30) DEF SlotInv, SlotTypes
  <2>7. ASSUME NEW j \in Slots, req'[j] # None PROVE RequestOK(req'[j], IdOf(j)' \in held')
    <3>1. j # i /\ req'[j] = req[j] /\ gen'[j] = gen[j]
      BY <2>1, <2>3, <2>7 DEF SlotTypes
    <3> QED
      BY <2>7, <3>1, Zenon DEF SlotInv, IdOf, RequestOK
  <2>8. ASSUME NEW id \in held' PROVE Valid(id)'
    <3>1. Valid(id) /\ id.slot # i
      BY <2>2, HeldFacts, Zenon DEF SlotInv
    <3> QED
      BY <2>1, <2>3, <3>1, SMTT(30) DEF Valid, SlotTypes
  <2>9. SlotInv'
    BY <2>5, <2>6, <2>7, <2>8, ZenonT(60) DEF SlotInv
  <2>10. TerminalKept /\ NoLateHold
    BY <2>1, <2>3 DEF TerminalKept, NoLateHold, SlotTypes
  <2>11. IdsKept
    <3>1. \A j \in Slots : j # i => gen'[j] = gen[j] /\ retired'[j] = retired[j] /\ req'[j] = req[j]
      BY <2>1, <2>3 DEF SlotTypes
    <3>2. /\ gen'[i] = Advance(gen[i]).gen /\ retired'[i] = Advance(gen[i]).retired
          /\ req'[i] = None /\ gen[i] \in 1..MaxGen
      BY <2>1, <2>3, SMTT(30) DEF SlotTypes
    <3>3. /\ gen'[i] \in 1..MaxGen
          /\ gen'[i] > gen[i] \/ (gen'[i] = gen[i] /\ retired'[i])
      BY <3>2, AdvanceGrows, Zenon
    <3>4. ASSUME NEW id \in Issued PROVE id \in Issued' /\ (Valid(id)' => Valid(id))
      <4>1. id \in Id /\ id.slot \in Slots /\ id.gen \in 1..MaxGen
        BY SMTT(30) DEF Issued, Id
      <4>2. CASE id.slot = i
        <5>1. id.gen < gen[i] \/ id.gen = gen[i]
          BY <4>2, Zenon DEF Issued
        <5>2. id \in Issued'
          <6>1. id.gen < gen'[i] \/ (id.gen = gen'[i] /\ retired'[i])
            <7>1. CASE gen'[i] > gen[i]
              BY <3>2, <3>3, <4>1, <5>1, <7>1, GenerationsOrdered, ZenonT(40)
            <7>2. CASE gen'[i] = gen[i] /\ retired'[i]
              BY <5>1, <7>2, SMTT(30)
            <7> QED
              BY <3>3, <7>1, <7>2, Zenon
          <6> QED
            BY <4>1, <4>2, <6>1, Zenon DEF Issued
        <5> QED
          BY <3>2, <4>2, <5>2, Zenon DEF Valid
      <4>3. CASE id.slot # i
        BY <3>1, <4>1, <4>3, Zenon DEF Issued, Valid
      <4> QED
        BY <4>2, <4>3
    <3> QED
      BY <3>4 DEF IdsKept
  <2> QED
    BY <2>9, <2>10, <2>11, SMTT(30) DEF StepFacts
<1> QED
  BY <1>1, <1>2

\* next_action.
LEMMA NextActionKeeps ==
    ASSUME IInv, NextAction
    PROVE  StepFacts
<1> DEFINE a == Head(actions)
           i == a.id.slot
           r == Dispatched(req[i], a.kind)
<1>1. held' = held /\ SlotInv
  BY Zenon DEF NextAction, IInv
<1>2. a \in Offered
  <2>1. actions \in Seq(Offered) /\ actions # <<>>
    BY Zenon DEF NextAction, IInv
  <2> QED
    BY <2>1, HeadMember, SMTT(30)
<1>3. CASE Valid(a.id)
  <2>1. /\ i \in Slots /\ req[i] \in Request /\ req[i] # None
        /\ RequestOK(req[i], IdOf(i) \in held)
    BY <1>1, <1>3, ValidFacts, ZenonT(60)
  <2>2. a.kind \in {"cancel", "publish"} \/ req[i].release # "idle"
    BY <1>2, <1>3, SMTT(30) DEF Offered, Action
  <2>3. r \in Request
    BY <2>1, Zenon DEF Dispatched, Request, Flags
  <2>4. r.res = req[i].res /\ r.state = req[i].state
        /\ (r.release # "idle" <=> req[i].release # "idle")
    BY <2>1, <2>2 DEF Dispatched, Request
  <2>5. RequestOK(r, IdOf(i) \in held)
    <3> HIDE DEF r
    <3> QED
      BY <2>1, <2>4, Zenon DEF RequestOK, IsTerminal, Draining
  <2> QED
    BY <1>1, <1>3, <2>1, <2>3, <2>4, <2>5, StoreOrRetireKeeps, ZenonT(40) DEF NextAction
<1>4. CASE ~Valid(a.id)
  <2>1. UNCHANGED <<gen, retired, req>>
    BY <1>4 DEF NextAction, slotVars
  <2> QED
    BY <1>1, <2>1, FrozenStep
<1> QED
  BY <1>3, <1>4, SMTT(30)

\* acknowledge_resource_release.
LEMMA AcknowledgeReleaseKeeps ==
    ASSUME SlotInv, NEW id, AcknowledgeResourceRelease(id)
    PROVE  StepFacts
<1> DEFINE i == id.slot
           r == [req[i] EXCEPT !.res = "Released"]
<1>1. /\ i \in Slots /\ req[i] \in Request /\ req[i] # None
      /\ RequestOK(req[i], IdOf(i) \in held)
      /\ req[i].release = "dispatched"
  BY ValidFacts DEF AcknowledgeResourceRelease
<1>2. r \in Request /\ RequestOK(r, IdOf(i) \in held) /\ r.state = req[i].state
  BY <1>1 DEF Request, RequestOK, IsTerminal, Draining, ResourceStates
<1>3. StoreOrRetire(i, r) /\ held' = held
  BY DEF AcknowledgeResourceRelease
<1> HIDE DEF r
<1> QED
  BY <1>1, <1>2, <1>3, StoreOrRetireKeeps

-----------------------------------------------------------------------------
(* The action queue                                                        *)

\* The queue stays well formed when the step only drops or adds such actions.
LEMMA OfferedKept ==
    ASSUME SlotInv, SlotInv', IdsKept, TerminalKept, NoLateHold
    PROVE  Offered \subseteq Offered'
<1> SUFFICES ASSUME NEW a \in Offered PROVE a \in Offered'
  OBVIOUS
<1>1. a \in Action /\ a.id \in Issued /\ a.id \in Issued'
  BY DEF Offered, IdsKept
<1>2. ASSUME a.kind = "release", Valid(a.id)' PROVE req'[a.id.slot].release # "idle"
  <2> DEFINE i == a.id.slot
  <2>1. Valid(a.id)
    BY <1>1, <1>2 DEF IdsKept
  <2>2. /\ i \in Slots /\ req[i] # None /\ req'[i] # None
        /\ gen'[i] = a.id.gen /\ gen[i] = a.id.gen
    BY <1>2, <2>1 DEF Valid
  <2>3. req[i].release # "idle"
    BY <1>2, <2>1, SMTT(30) DEF Offered
  <2>4. IsTerminal(req[i]) /\ IdOf(i) \notin held
    <3>1. RequestOK(req[i], IdOf(i) \in held)
      BY <2>2, ZenonT(60) DEF SlotInv
    <3> QED
      BY <2>3, <3>1, ZenonT(60) DEF RequestOK
  <2>5. IdOf(i)' = IdOf(i)
    BY <2>2 DEF IdOf
  <2>6. IdOf(i)' \notin held' /\ IsTerminal(req'[i])
    BY <2>2, <2>4, <2>5 DEF TerminalKept, NoLateHold, IsTerminal
  <2>7. RequestOK(req'[i], IdOf(i)' \in held')
    BY <2>2, Zenon DEF SlotInv
  <2> QED
    BY <2>6, <2>7 DEF RequestOK
<1> QED
  BY <1>1, <1>2 DEF Offered, Action

\* Change keeps the queue well formed: what it keeps was well formed, and a
\* release it adds is under way.
LEMMA ChangeActions ==
    ASSUME SlotInv, SlotInv', actions \in Seq(Offered), Offered \subseteq Offered',
           NEW new, NEW S, Change(new, S)
    PROVE  actions' \in Seq(Offered')
<1> DEFINE kept == [n \in DOMAIN actions |-> Kept(actions[n], new)]
           added == [i \in Slots |-> Emit(i, req[i], new[i])]
           T == Offered'
<1>1. /\ actions' = Concat(kept) \o Concat(added)
      /\ req' = new /\ gen' = gen /\ retired' = retired
  BY Zenon DEF Change
<1>2. kept \in Seq(Seq(T))
  <2>1. DOMAIN actions = 1..Len(actions) /\ Len(actions) \in Nat
    OBVIOUS
  <2>2. \A n \in 1..Len(actions) : actions[n] \in T
    OBVIOUS
  <2>3. \A n \in 1..Len(actions) : Kept(actions[n], new) \in Seq(T)
    BY <2>2 DEF Kept
  <2> HIDE DEF T
  <2> QED
    BY <2>1, <2>3, SeqTyped
<1>3. added \in Seq(Seq(T))
  <2>1. ASSUME NEW i \in Slots PROVE Emit(i, req[i], new[i]) \in Seq(T)
    <3> DEFINE r == new[i]
               act(kind, st) == [kind |-> kind, id |-> IdOf(i), state |-> st]
    <3>1. CASE r = None \/ req[i] = None
      BY <3>1, SeqEmpty, SMTT(30) DEF Emit
    <3>2. CASE r # None /\ req[i] # None
      <4>1. r \in Request /\ IdOf(i) \in Id /\ IdOf(i) \in Issued'
        BY <1>1, <3>2 DEF SlotInv, SlotTypes, IdOf, Id, Issued
      <4>2. IdOf(i).slot = i
        BY DEF IdOf
      <4>3. act("cancel", None) \in T /\ act("publish", r.state) \in T
        BY <4>1, Zenon DEF Offered, Action, Request
      <4>4. r.release = "queued" => act("release", None) \in T
        BY <1>1, <4>1, <4>2, ZenonT(40) DEF Offered, Action
      <4> DEFINE cq == req[i].cancel # "queued" /\ r.cancel = "queued"
                 pq == req[i].publish # "queued" /\ r.publish = "queued"
                 rq == req[i].release # "queued" /\ r.release = "queued"
                 c == IF cq THEN <<act("cancel", None)>> ELSE <<>>
                 p == IF pq THEN <<act("publish", r.state)>> ELSE <<>>
                 q == IF rq THEN <<act("release", None)>> ELSE <<>>
      <4>5. Emit(i, req[i], r) = (c \o p) \o q
        BY <3>2, ZenonT(60) DEF Emit
      <4> HIDE DEF T, act
      <4>6. c \in Seq(T)
        BY <4>3, OptionalSeq, Zenon
      <4>7. p \in Seq(T)
        BY <4>3, OptionalSeq
      <4>8. q \in Seq(T)
        <5>1. CASE rq
          BY <4>4, <5>1, OptionalSeq
        <5>2. CASE ~rq
          BY <5>2, SeqEmpty
        <5> QED
          BY <5>1, <5>2
      <4> HIDE DEF c, p, q
      <4> QED
        BY <4>5, <4>6, <4>7, <4>8, SeqConcat, SMTT(30)
    <3> QED
      BY <3>1, <3>2
  <2> HIDE DEF T
  <2> QED
    BY <2>1, SizeAssumption, SeqTyped DEF Slots
<1> HIDE DEF kept, added, T
<1>4. Concat(kept) \in Seq(T) /\ Concat(added) \in Seq(T)
  BY <1>2, <1>3, ConcatType
<1>5. actions' \in Seq(T)
  BY <1>1, <1>4, SeqConcat
<1> QED
  BY <1>5, SMTT(30) DEF T

\* A step with StepFacts that leaves the queue alone or applies Change to it.
LEMMA QueueStep ==
    ASSUME IInv, StepFacts,
           actions' = actions \/ \E new, S : Change(new, S)
    PROVE  actions' \in Seq(Offered')
<1>1. Offered \subseteq Offered'
  BY OfferedKept DEF IInv, StepFacts
<1>2. CASE actions' = actions
  BY <1>1, <1>2, SeqWider DEF IInv
<1>3. CASE \E new, S : Change(new, S)
  BY <1>1, <1>3, ChangeActions, SMTT(30) DEF IInv, StepFacts
<1> QED
  BY <1>2, <1>3

\* Every step preserves the invariant and keeps finished requests and spent ids.
LEMMA NextKeeps ==
    ASSUME IInv, [Next]_vars
    PROVE  IInv' /\ TerminalKept /\ IdsKept
<1> SUFFICES /\ StepFacts
             /\ actions' \in Seq(Offered')
             /\ completions' \in Seq(Completion)
  BY DEF StepFacts, IInv
<1> DEFINE Goal == /\ StepFacts
                   /\ actions' \in Seq(Offered')
                   /\ completions' \in Seq(Completion)
<1>0. /\ SlotInv /\ actions \in Seq(Offered) /\ completions \in Seq(Completion)
      /\ \A id \in Issued : id \in Id
  BY DEF IInv, Issued
<1>1. CASE \E b \in Batches : SubmitBatch(b)
  <2>1. StepFacts /\ actions' = actions /\ completions' = completions
    BY <1>0, <1>1, SubmitKeeps, ZenonT(60) DEF SubmitBatch, Between
  <2> QED
    BY <1>0, <2>1, QueueStep
<1>2. CASE \E id \in Issued : Cancel(id)
  <2>1. StepFacts /\ (\E new, S : Change(new, S)) /\ completions' = completions
    BY <1>0, <1>2, CancelKeeps, ZenonT(60) DEF Cancel, ChangeOne, Between
  <2> QED
    BY <1>0, <2>1, QueueStep
<1>3. CASE \E o \in Owners : TerminateThread(o)
  <2>1. PICK o \in Owners : TerminateThread(o)
    BY <1>3
  <2>2. OwnerSlots(o) \in SUBSET LiveSlots
    BY DEF OwnerSlots
  <2>3. TerminateMatching(OwnerSlots(o)) /\ completions' = completions
    BY <2>1 DEF TerminateThread, Between
  <2>4. \E new, S : Change(new, S)
    BY <2>3 DEF TerminateMatching
  <2> QED
    BY <1>0, <2>2, <2>3, <2>4, TerminateKeeps, QueueStep
<1>4. CASE \E p \in Processes : TerminateProcess(p)
  <2>1. PICK p \in Processes : TerminateProcess(p)
    BY <1>4
  <2> DEFINE M == {i \in LiveSlots : req[i].owner.process = p}
  <2>2. M \in SUBSET LiveSlots
    OBVIOUS
  <2>3. TerminateMatching(M) /\ completions' = completions
    BY <2>1 DEF TerminateProcess, Between
  <2> HIDE DEF M
  <2>4. \E new, S : Change(new, S)
    BY <2>3, SMTT(30) DEF TerminateMatching
  <2> QED
    BY <1>0, <2>2, <2>3, <2>4, TerminateKeeps, QueueStep, SMTT(30)
<1>5. CASE NextDispatch
  <2>1. StepFacts /\ actions' = actions /\ completions' = completions
    BY <1>0, <1>5, DispatchKeeps, Zenon DEF NextDispatch, Between
  <2> QED
    BY <1>0, <2>1, QueueStep
<1>6. CASE \E id \in Issued : RequeueActive(id)
  <2>1. StepFacts /\ actions' = actions /\ completions' = completions
    BY <1>0, <1>6, RequeueKeeps, Zenon DEF RequeueActive, Between
  <2> QED
    BY <1>0, <2>1, QueueStep
<1>7. CASE \E id \in Issued : MarkDeviceOwned(id)
  <2>1. StepFacts /\ (\E new, S : Change(new, S)) /\ completions' = completions
    BY <1>0, <1>7, MarkDeviceOwnedKeeps DEF MarkDeviceOwned, ChangeOne, Between
  <2> QED
    BY <1>0, <2>1, QueueStep
<1>8. CASE \E id \in Issued, o \in Outcomes :
              RecordCompletion([id |-> id, ok |-> o.ok, released |-> o.released])
  <2>1. PICK id \in Issued, o \in Outcomes :
            RecordCompletion([id |-> id, ok |-> o.ok, released |-> o.released])
    BY <1>8
  <2>2. [id |-> id, ok |-> o.ok, released |-> o.released] \in Completion
    BY <1>0, InputAssumption, SMTT(30) DEF Completion
  <2>3. completions' \in Seq(Completion)
    BY <1>0, <2>1, <2>2, SeqAppend, SMTT(30) DEF RecordCompletion
  <2>4. actions' = actions /\ UNCHANGED <<gen, retired, req, held>>
    BY <2>1 DEF RecordCompletion, slotVars
  <2> QED
    BY <1>0, <2>3, <2>4, FrozenStep, QueueStep
<1>9. CASE \E id \in Issued, stopped \in BOOLEAN : AcknowledgeCancel(id, stopped)
  <2>1. StepFacts /\ (\E new, S : Change(new, S)) /\ completions' = completions
    BY <1>0, <1>9, AcknowledgeCancelKeeps, Zenon DEF AcknowledgeCancel, ChangeOne, Between
  <2> QED
    BY <1>0, <2>1, QueueStep
<1>10. CASE \E id \in Issued : AcknowledgeDrain(id)
  <2>1. StepFacts /\ (\E new, S : Change(new, S)) /\ completions' = completions
    BY <1>0, <1>10, AcknowledgeDrainKeeps, Zenon DEF AcknowledgeDrain, ChangeOne, Between
  <2> QED
    BY <1>0, <2>1, QueueStep
<1>11. CASE \E d \in Devices, stopped \in BOOLEAN : RemoveDevice(d, stopped)
  <2>1. StepFacts /\ (\E new, S : Change(new, S)) /\ completions' = completions
    BY <1>0, <1>11, RemoveDeviceKeeps, Zenon DEF RemoveDevice, Between
  <2> QED
    BY <1>0, <2>1, QueueStep
<1>12. CASE ApplyCompletion
  <2>1. StepFacts
    BY <1>0, <1>12, ApplyCompletionKeeps
  <2>2. (\E new, S : Change(new, S)) \/ actions' = actions
    BY <1>12 DEF ApplyCompletion, ChangeOne
  <2>3. completions' \in Seq(Completion)
    BY <1>0, <1>12, SeqFirst DEF ApplyCompletion
  <2> QED
    BY <2>1, <2>2, <2>3, QueueStep
<1>13. CASE ApplyTimeout
  <2>1. StepFacts /\ (\E new, S : Change(new, S)) /\ completions' = completions
    BY <1>0, <1>13, ApplyTimeoutKeeps DEF ApplyTimeout
  <2> QED
    BY <1>0, <2>1, QueueStep
<1>14. CASE NextAction
  <2>1. StepFacts /\ completions' = completions
    BY <1>14, NextActionKeeps, Zenon DEF NextAction, Between
  <2>2. Offered \subseteq Offered'
    BY <1>0, <2>1, OfferedKept DEF StepFacts
  <2>3. actions' = Tail(actions) /\ actions # <<>>
    BY <1>14, Zenon DEF NextAction
  <2>4. actions' \in Seq(Offered)
    BY <1>0, <2>3, SeqFirst, SMTT(30)
  <2> QED
    BY <1>0, <2>1, <2>2, <2>4, SeqWider
<1>15. CASE \E id \in Issued : AcknowledgeResourceRelease(id)
  <2>1. StepFacts /\ actions' = actions /\ completions' = completions
    BY <1>0, <1>15, AcknowledgeReleaseKeeps, SMTT(30) DEF AcknowledgeResourceRelease, Between
  <2> QED
    BY <1>0, <2>1, QueueStep
<1>16. CASE BeginShutdown
  <2>1. StepFacts /\ (\E new, S : Change(new, S)) /\ completions' = completions
    BY <1>0, <1>16, ShutdownKeeps, ZenonT(60) DEF BeginShutdown
  <2> QED
    BY <1>0, <2>1, QueueStep
<1>17. CASE RunWorker \/ CompletionsDone \/ WorkerReturns \/ ResumeAfterShutdownCancel
            \/ Tick \/ UNCHANGED vars
  <2>1. /\ actions' = actions /\ completions' = completions
        /\ UNCHANGED <<gen, retired, req, held>>
    BY <1>17, ZenonT(60) DEF RunWorker, CompletionsDone, WorkerReturns, ResumeAfterShutdownCancel,
                 Tick, Between, slotVars, vars
  <2> QED
    BY <1>0, <2>1, FrozenStep, QueueStep, SMTT(30)
<1> QED
  BY <1>1, <1>2, <1>3, <1>4, <1>5, <1>6, <1>7, <1>8, <1>9, <1>10, <1>11, <1>12, <1>13,
     <1>14, <1>15, <1>16, <1>17, SMTT(90)
  DEF Next, ClientNext, ServiceNext, KernelNext

-----------------------------------------------------------------------------
(* Theorems                                                                *)

\* try_new_with_limits.
LEMMA InitOK == Init => IInv
<1> SUFFICES ASSUME Init PROVE IInv
  BY SMTT(30)
<1>1. SlotTypes
  BY SizeAssumption, SMTT(30) DEF Init, SlotTypes
<1>2. SlotInv
  BY <1>1, SMTT(30) DEF Init, SlotInv
<1>3. actions = <<>> /\ completions = <<>>
  BY DEF Init
<1> QED
  BY <1>2, <1>3, SeqEmpty DEF IInv

\* The strengthened invariant holds of every reachable state of the runtime.
THEOREM Invariance == Spec => []IInv
<1>1. Init => IInv
  BY InitOK
<1>2. IInv /\ [Next]_vars => IInv'
  BY NextKeeps
<1> QED
  BY <1>1, <1>2, PTL DEF Spec

\* No release is offered and no slot retired while a device may touch the
\* buffers of the request, and a finished request that is out of the device's
\* hands always has its release under way: whatever the capacity, the clients,
\* and the order of completions, timeouts, cancellations and device resets.
THEOREM ReleaseSafe == Spec => []ReleaseAfterDrain
<1>1. IInv => ReleaseAfterDrain
  <2> SUFFICES ASSUME IInv PROVE ReleaseAfterDrain
    BY SMTT(30)
  <2>1. ASSUME NEW i \in LiveSlots
        PROVE  req[i].release # "idle" <=> IsTerminal(req[i]) /\ IdOf(i) \notin held
    BY DEF IInv, SlotInv, LiveSlots, RequestOK
  <2>2. ASSUME NEW id \in held PROVE Valid(id) /\ req[id.slot].release = "idle"
    <3>1. Valid(id) /\ id.slot \in LiveSlots /\ IdOf(id.slot) = id
      BY HeldFacts, ZenonT(60) DEF IInv, SlotInv, LiveSlots
    <3> QED
      BY <2>1, <3>1, SMTT(30)
  <2> QED
    BY <2>1, <2>2 DEF ReleaseAfterDrain
<1> QED
  BY <1>1, Invariance, PTL

\* A finished request keeps its result until it leaves the table, and a spent
\* id never names a request again (generations, including the last one).
THEOREM ResultsFinal == Spec => TerminalIsFinal
<1>1. IInv /\ [Next]_vars => [FinalStep]_vars
  <2> SUFFICES ASSUME IInv, [Next]_vars PROVE FinalStep
    OBVIOUS
  <2>1. TerminalKept /\ IdsKept
    BY NextKeeps
  <2> QED
    BY <2>1, Zenon DEF TerminalKept, IdsKept, FinalStep, LiveSlots
<1> QED
  BY <1>1, Invariance, PTL DEF Spec, TerminalIsFinal

-----------------------------------------------------------------------------
(* Completions beat deadlines: run_worker goes through the deadlines only  *)
(* when no completion is left, and nothing else times a request out.       *)

\* While the worker handles deadlines, no completion waits.
WorkerInv == worker.phase = "deadlines" => completions = <<>>

\* The step times no request out.
NoneExpires == \A i \in LiveSlots : ~ExpiresNow(i)

-----------------------------------------------------------------------------
(* What the operators on one request do to its state                       *)

\* A request whose state is r's own, or s, is not timed out unless s says so.
LEMMA StateKept ==
    ASSUME NEW r \in Request
    PROVE  /\ QueueCancel(r) \in Request /\ QueueCancel(r).state = r.state
           /\ WithdrawCancel(r) \in Request /\ WithdrawCancel(r).state = r.state
           /\ DeviceStopped(r) \in Request /\ DeviceStopped(r).state = r.state
           /\ [r EXCEPT !.cancelRequested = TRUE] \in Request
           /\ [r EXCEPT !.cancelRequested = TRUE].state = r.state
<1>1. /\ QueueCancel(r) \in Request /\ QueueCancel(r).state = r.state
      /\ WithdrawCancel(r) \in Request /\ WithdrawCancel(r).state = r.state
  BY Zenon DEF QueueCancel, WithdrawCancel, Request, Flags
<1>2. DeviceStopped(r) \in Request /\ DeviceStopped(r).state = r.state
  BY DEF DeviceStopped, Draining, Request, ResourceStates
<1>3. /\ [r EXCEPT !.cancelRequested = TRUE] \in Request
      /\ [r EXCEPT !.cancelRequested = TRUE].state = r.state
  BY Zenon DEF Request
<1> QED
  BY <1>1, <1>2, <1>3

\* queue_release_if_possible.
LEMMA ReleaseState ==
    ASSUME NEW r \in Request
    PROVE  QueueRelease(r).state = r.state
PROOF BY DEF QueueRelease, Request

\* finish_terminal.
LEMMA FinishState ==
    ASSUME NEW r \in Request, NEW st \in TerminalStates
    PROVE  FinishTerminal(r, st).state \in {r.state, st}
<1> DEFINE e == [r EXCEPT !.state = st,
                          !.res = IF @ = "DeviceOwned" THEN "DrainPending" ELSE @,
                          !.publish = IF @ = "idle" THEN "queued" ELSE @]
<1>1. e \in Request
  <2>1. /\ st \in States
        /\ (IF r.res = "DeviceOwned" THEN "DrainPending" ELSE r.res) \in ResourceStates
        /\ (IF r.publish = "idle" THEN "queued" ELSE r.publish) \in Flags
    BY DEF Request, States, ResourceStates, Flags
  <2> QED
    BY <2>1, Zenon DEF Request
<1>2. e.state = st
  BY DEF Request
<1>3. FinishTerminal(r, st) \in {r, QueueRelease(e)}
  BY DEF FinishTerminal
<1> HIDE DEF e
<1> QED
  BY <1>1, <1>2, <1>3, ReleaseState

\* apply_completion.
LEMMA CompletedState ==
    ASSUME NEW r \in Request, NEW c \in Completion
    PROVE  Completed(r, c).state \in {r.state, "Completed", "Failed"}
<1> DEFINE stopped == IF c.released THEN DeviceStopped(r) ELSE r
           s == IF r.state = "CancelPending" THEN WithdrawCancel(stopped) ELSE stopped
           st == IF c.ok THEN "Completed" ELSE "Failed"
<1>1. stopped \in Request /\ stopped.state = r.state
  BY StateKept, Zenon
<1>2. s \in Request /\ s.state = r.state
  BY <1>1, StateKept, Zenon
<1>3. st \in {"Completed", "Failed"} /\ st \in TerminalStates
  BY DEF TerminalStates
<1>4. Completed(r, c) \in {QueueRelease(stopped), r, FinishTerminal(s, st)}
  BY DEF Completed
<1> HIDE DEF stopped, s, st
<1>5. QueueRelease(stopped).state = r.state
  BY <1>1, ReleaseState
<1>6. FinishTerminal(s, st).state \in {r.state, st}
  BY <1>2, <1>3, FinishState
<1> QED
  BY <1>3, <1>4, <1>5, <1>6

\* request_cancel.
LEMMA CancelState ==
    ASSUME NEW r \in Request
    PROVE  CancelRequest(r).state \in {r.state, "Canceled", "CancelPending"}
<1> DEFINE asked == [r EXCEPT !.cancelRequested = TRUE]
           s == [asked EXCEPT !.state = "CancelPending"]
<1>1. asked \in Request /\ asked.state = r.state
  BY StateKept
<1>2. s \in Request /\ s.state = "CancelPending"
  BY <1>1, Zenon DEF Request, States
<1>3. "Canceled" \in TerminalStates
  BY DEF TerminalStates
<1>4. CancelRequest(r) \in {FinishTerminal(asked, "Canceled"), QueueCancel(s)}
  BY DEF CancelRequest
<1> HIDE DEF asked, s
<1>5. FinishTerminal(asked, "Canceled").state \in {r.state, "Canceled"}
  BY <1>1, <1>3, FinishState
<1>6. QueueCancel(s).state = "CancelPending"
  BY <1>2, StateKept, Zenon
<1> QED
  BY <1>4, <1>5, <1>6

\* terminate_matching.
LEMMA TerminatedState ==
    ASSUME NEW r \in Request
    PROVE  OwnerTerminated(r).state \in {r.state, "OwnerTerminated"}
<1> DEFINE asked == [r EXCEPT !.cancelRequested = TRUE]
           s == IF r.state = "Pending" THEN asked ELSE QueueCancel(asked)
<1>1. asked \in Request /\ asked.state = r.state
  BY StateKept
<1> HIDE DEF asked
<1>2. s \in Request /\ s.state = r.state
  BY <1>1, StateKept, Zenon
<1>3. "OwnerTerminated" \in TerminalStates
  BY DEF TerminalStates
<1>4. OwnerTerminated(r) = FinishTerminal(s, "OwnerTerminated")
  BY DEF OwnerTerminated, asked
<1> HIDE DEF s
<1> QED
  BY <1>2, <1>3, <1>4, FinishState

\* fail_device.
LEMMA FailedState ==
    ASSUME NEW r \in Request, NEW stopped \in BOOLEAN
    PROVE  DeviceFailed(r, stopped).state \in {r.state, "Failed"}
<1> DEFINE r1 == WithdrawCancel(r)
           r2 == IF stopped THEN DeviceStopped(r1) ELSE r1
<1>1. r1 \in Request /\ r1.state = r.state
  BY StateKept, Zenon
<1> HIDE DEF r1
<1>2. r2 \in Request /\ r2.state = r.state
  BY <1>1, StateKept, Zenon
<1>3. "Failed" \in TerminalStates
  BY DEF TerminalStates
<1>4. DeviceFailed(r, stopped) \in {QueueRelease(r2), FinishTerminal(r2, "Failed")}
  BY DEF DeviceFailed, r1
<1> HIDE DEF r2
<1>5. QueueRelease(r2).state = r.state
  BY <1>2, ReleaseState
<1>6. FinishTerminal(r2, "Failed").state \in {r.state, "Failed"}
  BY <1>2, <1>3, FinishState, SMTT(30)
<1> QED
  BY <1>4, <1>5, <1>6

-----------------------------------------------------------------------------
(* Steps other than a timeout                                              *)

\* The step leaves the request of slot i in its state or does not time it out.
Undisturbed(i) == req'[i].state \in {req[i].state} \cup (States \ {"TimedOut"})

\* A step that times out no request that is live before and after it.
LEMMA NoneExpiresIf ==
    ASSUME \A i \in LiveSlots : req'[i] = None \/ Undisturbed(i)
    PROVE  NoneExpires
<1> SUFFICES ASSUME NEW i \in LiveSlots, ExpiresNow(i) PROVE FALSE
  BY DEF NoneExpires
<1>1. req[i].state # "TimedOut"
  BY DEF ExpiresNow, IsTerminal, TerminalStates
<1> QED
  BY <1>1 DEF Undisturbed, ExpiresNow

\* The same for a step that changes one request.
LEMMA OneUndisturbed ==
    ASSUME SlotTypes, NEW i \in Slots, NEW r, req' = [req EXCEPT ![i] = r],
           r = None \/ r.state \in {req[i].state} \cup (States \ {"TimedOut"})
    PROVE  NoneExpires
<1> SUFFICES ASSUME NEW j \in LiveSlots PROVE req'[j] = None \/ Undisturbed(j)
  BY NoneExpiresIf
<1>1. j \in Slots /\ req'[j] = IF j = i THEN r ELSE req[j]
  BY DEF SlotTypes, LiveSlots
<1> QED
  BY <1>1 DEF Undisturbed

\* try_retire.
LEMMA StoreUndisturbed ==
    ASSUME SlotTypes, NEW i \in Slots, NEW r, r.state = req[i].state, StoreOrRetire(i, r)
    PROVE  NoneExpires
<1>1. CASE Retires(r)
  <2>1. req' = [req EXCEPT ![i] = None]
    BY <1>1, Zenon DEF StoreOrRetire
  <2> QED
    BY <2>1, OneUndisturbed, Zenon
<1>2. CASE ~Retires(r)
  <2>1. req' = [req EXCEPT ![i] = r]
    BY <1>2, Zenon DEF StoreOrRetire
  <2> QED
    BY <2>1, OneUndisturbed, Zenon
<1> QED
  BY <1>1, <1>2

\* The calls of the clients time nothing out.
LEMMA ClientUndisturbed ==
    ASSUME IInv, ClientNext
    PROVE  NoneExpires
<1>0. SlotInv /\ SlotTypes
  BY DEF IInv, SlotInv
<1>t. {"Canceled", "CancelPending", "OwnerTerminated"} \subseteq States \ {"TimedOut"}
  BY DEF States, TerminalStates
<1>1. CASE \E b \in Batches : SubmitBatch(b)
  <2>1. PICK b \in Batches : SubmitBatch(b)
    BY <1>1
  <2> DEFINE taken == {i \in VacantSlots : Rank(i, VacantSlots) <= Len(b)}
             new(i) == b[Rank(i, VacantSlots)]
  <2>2. req' = [i \in Slots |-> IF i \in taken THEN NewRequest(new(i)) ELSE req[i]]
    BY <2>1, ZenonT(60) DEF SubmitBatch
  <2>3. \A i \in LiveSlots : i \in Slots /\ i \notin taken
    BY DEF LiveSlots, VacantSlots
  <2> HIDE DEF taken, new
  <2> QED
    BY <2>2, <2>3, NoneExpiresIf DEF Undisturbed
<1>2. CASE \E id \in Issued : Cancel(id)
  <2>1. PICK id \in Issued : Cancel(id)
    BY <1>2
  <2>2. /\ Valid(id)
        /\ req' = [req EXCEPT ![id.slot] = CancelRequest(req[id.slot])]
    BY <2>1, Zenon DEF Cancel, ChangeOne, Change
  <2>3. id.slot \in Slots /\ req[id.slot] \in Request
    BY <1>0, <2>2, ValidFacts, SMTT(30)
  <2>4. CancelRequest(req[id.slot]).state \in {req[id.slot].state, "Canceled", "CancelPending"}
    BY <2>3, CancelState, Zenon
  <2> QED
    BY <1>0, <1>t, <2>2, <2>3, <2>4, OneUndisturbed, Zenon
<1>3. ASSUME NEW M \in SUBSET LiveSlots, TerminateMatching(M)
      PROVE  NoneExpires
  <2> DEFINE S == {i \in M : ~IsTerminal(req[i])}
  <2>1. req' = [i \in Slots |-> IF i \in S THEN OwnerTerminated(req[i]) ELSE req[i]]
    BY <1>3, ZenonT(60) DEF TerminateMatching, Change
  <2>2. ASSUME NEW i \in LiveSlots PROVE Undisturbed(i)
    <3>1. i \in Slots /\ req[i] \in Request
      BY <1>0 DEF LiveSlots, SlotTypes
    <3>2. OwnerTerminated(req[i]).state \in {req[i].state, "OwnerTerminated"}
      BY <3>1, TerminatedState
    <3>3. req'[i] \in {OwnerTerminated(req[i]), req[i]}
      BY <2>1, <3>1
    <3> QED
      BY <1>t, <3>2, <3>3 DEF Undisturbed
  <2> QED
    BY <2>2, NoneExpiresIf
<1>4. CASE \E o \in Owners : TerminateThread(o)
  <2>1. PICK o \in Owners : TerminateThread(o)
    BY <1>4
  <2>2. OwnerSlots(o) \in SUBSET LiveSlots /\ TerminateMatching(OwnerSlots(o))
    BY <2>1 DEF TerminateThread, OwnerSlots
  <2> QED
    BY <1>3, <2>2
<1>5. CASE \E p \in Processes : TerminateProcess(p)
  <2>1. PICK p \in Processes : TerminateProcess(p)
    BY <1>5
  <2> DEFINE M == {i \in LiveSlots : req[i].owner.process = p}
  <2>2. M \in SUBSET LiveSlots /\ TerminateMatching(M)
    BY <2>1 DEF TerminateProcess
  <2> HIDE DEF M
  <2> QED
    BY <1>3, <2>2
<1> QED
  BY <1>1, <1>2, <1>4, <1>5, SMTT(30) DEF ClientNext

\* Nor do those of the service.
LEMMA ServiceUndisturbed ==
    ASSUME IInv, ServiceNext
    PROVE  NoneExpires
<1>0. SlotInv /\ SlotTypes
  BY DEF IInv, SlotInv
<1>t. {"Active", "Pending", "Canceled", "Failed"} \subseteq States \ {"TimedOut"}
  BY DEF States, TerminalStates
\* An action that changes the request of a valid id only.
<1>a. ASSUME NEW id, Valid(id), NEW r, req' = [req EXCEPT ![id.slot] = r],
             r.state \in {req[id.slot].state} \cup (States \ {"TimedOut"})
      PROVE  NoneExpires
  BY <1>0, <1>a, ValidFacts, OneUndisturbed, Zenon
<1>1. CASE NextDispatch
  <2>1. PICK id : /\ Valid(id)
                  /\ req' = [req EXCEPT ![id.slot].state = "Active", ![id.slot].started = TRUE]
    BY <1>1, Zenon DEF NextDispatch, Dispatchable
  <2> DEFINE r == [[req[id.slot] EXCEPT !.state = "Active"] EXCEPT !.started = TRUE]
  <2>2. id.slot \in Slots /\ req[id.slot] \in Request
    BY <1>0, <2>1, ValidFacts
  <2>3. r.state = "Active"
    BY <2>2 DEF Request
  <2>4. req' = [req EXCEPT ![id.slot] = r]
    BY <1>0, <2>1, <2>2, Zenon DEF SlotTypes
  <2>5. r.state \in {req[id.slot].state} \cup (States \ {"TimedOut"})
    BY <1>t, <2>3
  <2> HIDE DEF r
  <2> QED
    BY <1>a, <2>1, <2>4, <2>5, Zenon
<1>2. CASE \E id \in Issued : RequeueActive(id)
  <2>1. PICK id \in Issued : RequeueActive(id)
    BY <1>2
  <2>2. Valid(id) /\ req' = [req EXCEPT ![id.slot].state = "Pending"]
    BY <2>1, Zenon DEF RequeueActive
  <2> DEFINE r == [req[id.slot] EXCEPT !.state = "Pending"]
  <2>3. req[id.slot] \in Request
    BY <1>0, <2>2, ValidFacts
  <2>4. r.state = "Pending"
    BY <2>3 DEF Request
  <2>5. req' = [req EXCEPT ![id.slot] = r]
    BY <2>2
  <2> HIDE DEF r
  <2> QED
    BY <1>a, <1>t, <2>2, <2>4, <2>5, Zenon
<1>3. CASE \E id \in Issued : MarkDeviceOwned(id)
  <2>1. PICK id \in Issued : MarkDeviceOwned(id)
    BY <1>3
  <2> DEFINE r == [req[id.slot] EXCEPT !.res = "DeviceOwned"]
  <2>2. Valid(id) /\ req' = [req EXCEPT ![id.slot] = r]
    BY <2>1, Zenon DEF MarkDeviceOwned, ChangeOne, Change
  <2>3. req[id.slot] \in Request
    BY <1>0, <2>2, ValidFacts
  <2>4. r.state = req[id.slot].state
    BY <2>3 DEF Request
  <2> HIDE DEF r
  <2> QED
    BY <1>a, <2>2, <2>4, Zenon
<1>4. CASE \E id \in Issued, o \in Outcomes :
              RecordCompletion([id |-> id, ok |-> o.ok, released |-> o.released])
  <2>1. req' = req
    BY <1>4, Zenon DEF RecordCompletion, slotVars
  <2> QED
    BY <2>1, NoneExpiresIf DEF Undisturbed
<1>5. CASE \E id \in Issued, stopped \in BOOLEAN : AcknowledgeCancel(id, stopped)
  <2>1. PICK id \in Issued, stopped \in BOOLEAN : AcknowledgeCancel(id, stopped)
    BY <1>5
  <2> DEFINE r == req[id.slot]
             r2 == IF stopped THEN DeviceStopped(r) ELSE r
             new == IF r.state = "CancelPending" THEN FinishTerminal(r2, "Canceled")
                    ELSE QueueRelease(r2)
  <2>2. Valid(id) /\ req' = [req EXCEPT ![id.slot] = new]
    BY <2>1, Zenon DEF AcknowledgeCancel, ChangeOne, Change
  <2>3. r \in Request
    BY <1>0, <2>2, ValidFacts
  <2>4. r2 \in Request /\ r2.state = r.state
    BY <2>3, StateKept, Zenon
  <2>5. "Canceled" \in TerminalStates
    BY SMTT(30) DEF TerminalStates
  <2> HIDE DEF r2
  <2>6. new.state \in {r.state, "Canceled"}
    BY <2>4, <2>5, FinishState, ReleaseState, Zenon
  <2> HIDE DEF new
  <2> QED
    BY <1>a, <1>t, <2>2, <2>6, Zenon
<1>6. CASE \E id \in Issued : AcknowledgeDrain(id)
  <2>1. PICK id \in Issued : AcknowledgeDrain(id)
    BY <1>6
  <2> DEFINE new == QueueRelease(DeviceStopped(req[id.slot]))
  <2>2. Valid(id) /\ req' = [req EXCEPT ![id.slot] = new]
    BY <2>1, Zenon DEF AcknowledgeDrain, ChangeOne, Change
  <2>3. req[id.slot] \in Request
    BY <1>0, <2>2, ValidFacts
  <2>4. new.state = req[id.slot].state
    BY <2>3, StateKept, ReleaseState, Zenon
  <2> HIDE DEF new
  <2> QED
    BY <1>a, <2>2, <2>4, Zenon
<1>7. CASE \E d \in Devices, stopped \in BOOLEAN : RemoveDevice(d, stopped)
  <2>1. PICK d \in Devices, stopped \in BOOLEAN : RemoveDevice(d, stopped)
    BY <1>7
  <2> DEFINE S == {i \in LiveSlots : /\ req[i].device = d
                                     /\ ~IsTerminal(req[i]) \/ Draining(req[i])}
  <2>2. req' = [i \in Slots |-> IF i \in S THEN DeviceFailed(req[i], stopped) ELSE req[i]]
    BY <2>1, Zenon DEF RemoveDevice, Change
  <2> HIDE DEF S
  <2>3. ASSUME NEW i \in LiveSlots PROVE Undisturbed(i)
    <3>1. i \in Slots /\ req[i] \in Request
      BY <1>0 DEF LiveSlots, SlotTypes
    <3>2. DeviceFailed(req[i], stopped).state \in {req[i].state, "Failed"}
      BY <3>1, FailedState
    <3>3. req'[i] \in {DeviceFailed(req[i], stopped), req[i]}
      BY <2>2, <3>1
    <3> QED
      BY <1>t, <3>2, <3>3 DEF Undisturbed
  <2> QED
    BY <2>3, NoneExpiresIf
<1> QED
  BY <1>1, <1>2, <1>3, <1>4, <1>5, <1>6, <1>7, SMTT(30) DEF ServiceNext

\* A step of the kernel times a request out only in ApplyTimeout.
LEMMA KernelUndisturbed ==
    ASSUME IInv, KernelNext
    PROVE  NoneExpires \/ ApplyTimeout
<1>0. SlotInv /\ SlotTypes
  BY DEF IInv, SlotInv
<1>t. {"Completed", "Failed", "Canceled", "CancelPending"} \subseteq States \ {"TimedOut"}
  BY DEF States, TerminalStates
<1>a. ASSUME req' = req PROVE NoneExpires
  BY <1>a, NoneExpiresIf DEF Undisturbed
<1>1. CASE RunWorker \/ CompletionsDone \/ WorkerReturns \/ ResumeAfterShutdownCancel \/ Tick
  <2>1. req' = req
    BY <1>1, Zenon DEF RunWorker, CompletionsDone, WorkerReturns, ResumeAfterShutdownCancel,
                       Tick, slotVars
  <2> QED
    BY <1>a, <2>1
<1>2. CASE ApplyCompletion
  <2> DEFINE c == Head(completions)
             i == c.id.slot
  <2>1. CASE Valid(c.id)
    <3>1. req' = [req EXCEPT ![i] = Completed(req[i], c)]
      BY <1>2, <2>1, Zenon DEF ApplyCompletion, ChangeOne, Change
    <3>2. completions \in Seq(Completion) /\ completions # <<>>
      BY <1>2 DEF IInv, ApplyCompletion
    <3>3. c \in Completion
      BY <3>2, SeqFirst, SMTT(30)
    <3> HIDE DEF c
    <3>4. i \in Slots /\ req[i] \in Request
      BY <1>0, <2>1, ValidFacts, SMTT(30)
    <3>5. Completed(req[i], c).state \in {req[i].state, "Completed", "Failed"}
      BY <3>3, <3>4, CompletedState
    <3> QED
      BY <1>0, <1>t, <3>1, <3>4, <3>5, OneUndisturbed, Zenon
  <2>2. CASE ~Valid(c.id)
    <3>1. req' = req
      BY <1>2, <2>2, ZenonT(60) DEF ApplyCompletion, slotVars
    <3> QED
      BY <1>a, <3>1
  <2> QED
    BY <2>1, <2>2
<1>3. CASE NextAction
  <2> DEFINE a == Head(actions)
             i == a.id.slot
             r == Dispatched(req[i], a.kind)
  <2>1. CASE Valid(a.id)
    <3>1. StoreOrRetire(i, r)
      BY <1>3, <2>1, ZenonT(60) DEF NextAction
    <3>2. i \in Slots /\ req[i] \in Request
      BY <1>0, <2>1, ValidFacts, SMTT(30)
    <3>3. r.state = req[i].state
      BY <3>2 DEF Dispatched, Request
    <3> HIDE DEF r, i
    <3> QED
      BY <1>0, <3>1, <3>2, <3>3, StoreUndisturbed
  <2>2. CASE ~Valid(a.id)
    <3>1. req' = req
      BY <1>3, <2>2, ZenonT(60) DEF NextAction, slotVars
    <3> QED
      BY <1>a, <3>1
  <2> QED
    BY <2>1, <2>2
<1>4. CASE \E id \in Issued : AcknowledgeResourceRelease(id)
  <2>1. PICK id \in Issued : AcknowledgeResourceRelease(id)
    BY <1>4
  <2> DEFINE r == [req[id.slot] EXCEPT !.res = "Released"]
  <2>2. Valid(id) /\ StoreOrRetire(id.slot, r)
    BY <2>1, Zenon DEF AcknowledgeResourceRelease
  <2>3. id.slot \in Slots /\ req[id.slot] \in Request
    BY <1>0, <2>2, ValidFacts
  <2>4. r.state = req[id.slot].state
    BY <2>3 DEF Request
  <2> HIDE DEF r
  <2> QED
    BY <1>0, <2>2, <2>3, <2>4, StoreUndisturbed
<1>5. CASE BeginShutdown
  <2> DEFINE S == {i \in Slots : Cancelable(i)}
  <2>1. req' = [i \in Slots |-> IF i \in S THEN CancelRequest(req[i]) ELSE req[i]]
    BY <1>5, ZenonT(60) DEF BeginShutdown, Change
  <2> HIDE DEF S
  <2>2. ASSUME NEW i \in LiveSlots PROVE Undisturbed(i)
    <3>1. i \in Slots /\ req[i] \in Request
      BY <1>0 DEF LiveSlots, SlotTypes
    <3>2. CancelRequest(req[i]).state \in {req[i].state, "Canceled", "CancelPending"}
      BY <3>1, CancelState
    <3>3. req'[i] \in {CancelRequest(req[i]), req[i]}
      BY <2>1, <3>1
    <3> QED
      BY <1>t, <3>2, <3>3 DEF Undisturbed
  <2> QED
    BY <2>2, NoneExpiresIf
<1> QED
  BY <1>1, <1>2, <1>3, <1>4, <1>5 DEF KernelNext

-----------------------------------------------------------------------------
(* The worker's phases                                                     *)

\* run_worker reaches the deadlines only without completions left.
LEMMA WorkerStep ==
    ASSUME WorkerInv, [Next]_vars
    PROVE  WorkerInv'
<1>1. CASE completions' = completions /\ worker' = worker
  BY <1>1 DEF WorkerInv
<1>2. CASE Between
  BY <1>1, <1>2 DEF Between
<1>3. CASE \E id \in Issued, o \in Outcomes :
              RecordCompletion([id |-> id, ok |-> o.ok, released |-> o.released])
  <2>1. worker.phase = "idle" /\ worker' = worker
    BY <1>3, ZenonT(60) DEF RecordCompletion, Ready
  <2> QED
    BY <2>1 DEF WorkerInv
<1>4. CASE RunWorker
  BY <1>4 DEF RunWorker, FirstPhase, WorkerInv
<1>5. CASE ApplyCompletion
  <2>1. worker.phase = "completions" /\ worker' = [worker EXCEPT !.left = @ - 1]
    BY <1>5, Zenon DEF ApplyCompletion
  <2>2. worker'.phase # "deadlines"
    BY <2>1, SMTT(30)
  <2> QED
    BY <2>2 DEF WorkerInv
<1>6. CASE CompletionsDone
  <2>1. worker' = AfterCompletions /\ completions' = completions
    BY <1>6, Zenon DEF CompletionsDone
  <2> QED
    BY <2>1 DEF WorkerInv, AfterCompletions
<1>7. CASE ApplyTimeout
  <2>1. worker.phase = "deadlines" /\ completions' = completions
    BY <1>7, ZenonT(60) DEF ApplyTimeout
  <2> QED
    BY <2>1 DEF WorkerInv
<1>8. CASE WorkerReturns
  BY <1>8, SMTT(30) DEF WorkerReturns, WorkerInv
<1>9. CASE BeginShutdown \/ ResumeAfterShutdownCancel \/ UNCHANGED vars
  BY <1>1, <1>9 DEF BeginShutdown, ResumeAfterShutdownCancel, vars
<1>10. CASE ClientNext
  BY <1>2, <1>10, Zenon DEF ClientNext, SubmitBatch, Cancel, TerminateThread, TerminateProcess
<1>11. CASE ServiceNext
  BY <1>2, <1>3, <1>11, Zenon
  DEF ServiceNext, NextDispatch, RequeueActive, MarkDeviceOwned, AcknowledgeCancel,
      AcknowledgeDrain, RemoveDevice
<1>12. CASE NextAction \/ Tick \/ \E id \in Issued : AcknowledgeResourceRelease(id)
  BY <1>2, <1>12, Zenon DEF NextAction, Tick, AcknowledgeResourceRelease
<1> QED
  BY <1>4, <1>5, <1>6, <1>7, <1>8, <1>9, <1>10, <1>11, <1>12, SMTT(30) DEF Next, KernelNext

\* Whatever the budgets, the queue of completions and the order of events: a
\* request whose completion was recorded is never timed out (run_worker applies
\* the completions first and returns early while some are left).
THEOREM CompletionWins == Spec => CompletionBeatsDeadline
<1>1. Init => WorkerInv
  BY DEF Init, WorkerInv
<1>2. WorkerInv /\ [Next]_vars => WorkerInv'
  BY WorkerStep
<1>3. IInv /\ WorkerInv /\ [Next]_vars => [CompletionFirst]_vars
  <2> SUFFICES ASSUME IInv, WorkerInv, Next PROVE CompletionFirst
    OBVIOUS
  <2>1. CASE NoneExpires
    BY <2>1 DEF NoneExpires, CompletionFirst
  <2>2. CASE ApplyTimeout
    <3>1. completions = <<>>
      BY <2>2 DEF ApplyTimeout, WorkerInv
    <3>2. DOMAIN completions = {}
      BY <3>1
    <3> QED
      BY <3>2 DEF CompletionFirst
  <2> QED
    BY <2>1, <2>2, ClientUndisturbed, ServiceUndisturbed, KernelUndisturbed, SMTT(30) DEF Next
<1> QED
  BY <1>1, <1>2, <1>3, Invariance, PTL DEF Spec, CompletionBeatsDeadline
=============================================================================
