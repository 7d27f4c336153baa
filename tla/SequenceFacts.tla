--------------------------- MODULE SequenceFacts ---------------------------
(***************************************************************************)
(* Facts about sequences, in the form in which the proofs of the queues    *)
(* use them, induction on numbers, and recursive functions.                *)
(***************************************************************************)
EXTENDS Naturals, Sequences, WellFoundedInduction, TLAPS

\* Every set of numbers has a least one.
LEMMA LeastNumber ==
    ASSUME NEW T, T \subseteq Nat, T # {}
    PROVE  \E n \in T : \A m \in T : n <= m
<1> DEFINE R == OpToRel(<, Nat)
<1>1. IsWellFoundedOn(R, Nat)
    BY NatLessThanWellFounded
<1>2. \A p, q \in Nat : p < q => <<p, q>> \in R
    BY DEF OpToRel
<1> HIDE DEF R
<1>3. PICK n \in T : \A m \in T : ~(<<m, n>> \in R)
    BY <1>1, WFMin
<1>4. \A m \in T : ~(m < n)
    BY <1>2, <1>3
<1>5. \A m \in T : n <= m
    BY <1>4
<1> QED BY <1>3, <1>5

\* Induction, for the set of the numbers with the property to prove.
LEMMA CountingUp ==
    ASSUME NEW T, 0 \in T, \A n \in Nat : n \in T => n + 1 \in T
    PROVE  Nat \subseteq T
<1> SUFFICES ASSUME Nat \ T # {} PROVE FALSE
    OBVIOUS
<1>1. PICK n \in Nat \ T : \A m \in Nat \ T : n <= m
    BY LeastNumber
<1>2. n # 0 /\ n \in Nat
    OBVIOUS
<1>3. n - 1 \in Nat /\ (n - 1) + 1 = n /\ ~(n <= n - 1)
    BY <1>2
<1>4. n - 1 \in T
    BY <1>1, <1>3
<1> QED BY <1>3, <1>4

\* Unfold[f] is what a recursive equation makes of f; at d it needs f only where
\* the measure is less.
Recursive(D, V, M, measure, Unfold) ==
    /\ M \in Nat /\ measure \in [D -> 0..M] /\ [D -> V] # {}
    /\ Unfold \in [[D -> V] -> [D -> V]]
    /\ \A f, g \in [D -> V], d \in D :
           (\A e \in D : measure[e] < measure[d] => f[e] = g[e])
               => Unfold[f][d] = Unfold[g][d]

\* A recursive equation has a solution.
LEMMA Recursion ==
    ASSUME NEW D, NEW V, NEW M, NEW measure, NEW Unfold,
           Recursive(D, V, M, measure, Unfold)
    PROVE  \E f \in [D -> V] : f = Unfold[f]
<1> USE DEF Recursive
<1> DEFINE Upto(f, n) == \A d \in D : measure[d] < n => Unfold[f][d] = f[d]
           T == {n \in Nat : \E f \in [D -> V] : Upto(f, n)}
<1>1. 0 \in T
    OBVIOUS
<1>2. ASSUME NEW n \in Nat, n \in T PROVE n + 1 \in T
  <2>1. PICK f \in [D -> V] : Upto(f, n)
      BY <1>2
  <2> DEFINE g == Unfold[f]
  <2>2. g \in [D -> V]
      OBVIOUS
  <2>3. ASSUME NEW d \in D, measure[d] < n + 1 PROVE Unfold[g][d] = g[d]
    <3>1. \A e \in D : measure[e] < measure[d] => g[e] = f[e]
        BY <2>1, <2>3
    <3> HIDE DEF g
    <3>2. Unfold[g][d] = Unfold[f][d]
        BY <2>2, <3>1
    <3> QED BY <3>2 DEF g
  <2> HIDE DEF g
  <2>4. Upto(g, n + 1)
      BY <2>3
  <2> QED BY <2>2, <2>4
<1>3. M + 1 \in T
  <2> HIDE DEF T
  <2> QED BY <1>1, <1>2, CountingUp
<1>4. PICK f \in [D -> V] : Upto(f, M + 1)
    BY <1>3
<1>5. \A d \in D : Unfold[f][d] = f[d]
    BY <1>4
<1>6. Unfold[f] \in [D -> V]
    OBVIOUS
<1>7. f = Unfold[f]
    BY <1>5, <1>6
<1> QED BY <1>7

\* What Append does to the length and to the elements.
LEMMA AppendFacts ==
    ASSUME NEW S, NEW s \in Seq(S), NEW e \in S
    PROVE  /\ Append(s, e) \in Seq(S)
           /\ Len(Append(s, e)) = Len(s) + 1
           /\ Append(s, e) # <<>>
           /\ \A i \in 1..Len(s) : Append(s, e)[i] = s[i]
           /\ Append(s, e)[Len(s) + 1] = e
    OBVIOUS

\* What Tail does to the length and to the elements.
LEMMA TailFacts ==
    ASSUME NEW S, NEW s \in Seq(S), s # <<>>
    PROVE  /\ Tail(s) \in Seq(S)
           /\ Len(Tail(s)) = Len(s) - 1
           /\ Len(s) \in Nat /\ Len(s) >= 1
           /\ Head(s) \in S
           /\ Head(s) = s[1]
           /\ \A i \in 1..(Len(s) - 1) : Tail(s)[i] = s[i + 1]
    OBVIOUS

\* What replacing one element does to the others: a queue of queues when one
\* of them changes.
LEMMA ExceptFacts ==
    ASSUME NEW S, NEW s \in Seq(S), NEW k \in 1..Len(s), NEW e \in S
    PROVE  /\ [s EXCEPT ![k] = e] \in Seq(S)
           /\ Len([s EXCEPT ![k] = e]) = Len(s)
           /\ [s EXCEPT ![k] = e][k] = e
           /\ \A i \in 1..Len(s) : i # k => [s EXCEPT ![k] = e][i] = s[i]
    OBVIOUS

\* What the first k elements are.
LEMMA FirstFacts ==
    ASSUME NEW S, NEW s \in Seq(S), NEW k \in 0..Len(s)
    PROVE  /\ SubSeq(s, 1, k) \in Seq(S)
           /\ Len(SubSeq(s, 1, k)) = k
           /\ \A i \in 1..k : SubSeq(s, 1, k)[i] = s[i]
    OBVIOUS

\* What is left once the first k elements were taken.
LEMMA RestFacts ==
    ASSUME NEW S, NEW s \in Seq(S), NEW k \in 0..Len(s)
    PROVE  /\ SubSeq(s, k + 1, Len(s)) \in Seq(S)
           /\ Len(SubSeq(s, k + 1, Len(s))) = Len(s) - k
           /\ \A i \in 1..(Len(s) - k) :
                 SubSeq(s, k + 1, Len(s))[i] = s[i + k]
    OBVIOUS

\* What the k elements behind the first m are.
LEMMA MiddleFacts ==
    ASSUME NEW S, NEW s \in Seq(S), NEW m \in Nat, NEW k \in Nat,
           m + k <= Len(s)
    PROVE  /\ SubSeq(s, m + 1, m + k) \in Seq(S)
           /\ Len(SubSeq(s, m + 1, m + k)) = k
           /\ \A i \in 1..k : SubSeq(s, m + 1, m + k)[i] = s[m + i]
    OBVIOUS

\* What joining two sequences does to the length and to the elements.
LEMMA JoinFacts ==
    ASSUME NEW S, NEW s \in Seq(S), NEW t \in Seq(S)
    PROVE  /\ s \o t \in Seq(S)
           /\ Len(s \o t) = Len(s) + Len(t)
           /\ \A i \in 1..Len(s) : (s \o t)[i] = s[i]
           /\ \A i \in (Len(s) + 1)..(Len(s) + Len(t)) :
                 (s \o t)[i] = t[i - Len(s)]
    OBVIOUS

\* Once its last x was taken, no x is left in a queue.
LEMMA NoneLeft ==
    ASSUME NEW S, NEW x, NEW s \in Seq(S), NEW k \in Nat, k <= Len(s),
           \A i \in 1..Len(s) : i > k => s[i] # x
    PROVE  LET rest == SubSeq(s, k + 1, Len(s))
           IN  {i \in DOMAIN rest : rest[i] = x} = {}
<1> DEFINE rest == SubSeq(s, k + 1, Len(s))
<1>1. Len(s) \in Nat /\ k \in 0..Len(s)
    OBVIOUS
<1>2. /\ rest \in Seq(S) /\ Len(rest) = Len(s) - k
      /\ \A i \in 1..(Len(s) - k) : rest[i] = s[i + k]
    BY <1>1, RestFacts
<1> HIDE DEF rest
<1>3. DOMAIN rest = 1..(Len(s) - k)
    BY <1>2
<1> SUFFICES ASSUME NEW i \in DOMAIN rest, rest[i] = x
             PROVE  FALSE
    BY DEF rest
<1>4. i \in 1..(Len(s) - k)
    BY <1>3
<1>5. i + k \in 1..Len(s) /\ i + k > k /\ s[i + k] = x
    BY <1>1, <1>2, <1>4
<1> QED BY <1>5

\* Taking the first element of a queue without repetitions.
LEMMA TakenFacts ==
    ASSUME NEW S, NEW s \in Seq(S), s # <<>>,
           \A i, j \in DOMAIN s : s[i] = s[j] => i = j
    PROVE  LET rest == Tail(s)
           IN  /\ \A x : (\E i \in DOMAIN s : s[i] = x)
                      <=> (\E i \in DOMAIN rest : rest[i] = x) \/ x = Head(s)
               /\ ~ \E i \in DOMAIN rest : rest[i] = Head(s)
               /\ \A i, j \in DOMAIN rest : rest[i] = rest[j] => i = j
<1> DEFINE n == Len(s)
           rest == Tail(s)
<1>1. /\ n \in Nat /\ n >= 1 /\ DOMAIN s = 1..n /\ DOMAIN rest = 1..(n - 1)
      /\ Head(s) = s[1]
      /\ \A i \in 1..(n - 1) : rest[i] = s[i + 1]
    BY TailFacts
<1>2. /\ 1 \in 1..n
      /\ \A i \in 1..(n - 1) : i + 1 \in 1..n /\ i + 1 # 1
      /\ \A i, j \in 1..(n - 1) : i + 1 = j + 1 => i = j
  <2>1. n \in Nat /\ n >= 1
      BY <1>1
  <2> HIDE DEF n
  <2> QED BY <2>1
<1>3. \A i \in 1..n : i = 1 \/ \E k \in 1..(n - 1) : i = k + 1
  <2> SUFFICES ASSUME NEW i \in 1..n, i # 1
               PROVE  \E k \in 1..(n - 1) : i = k + 1
      OBVIOUS
  <2>1. n \in Nat /\ n >= 1
      BY <1>1
  <2> HIDE DEF n
  <2>2. i - 1 \in 1..(n - 1) /\ i = (i - 1) + 1
      BY <2>1
  <2> QED BY <2>2
<1>4. \A i, j \in 1..n : s[i] = s[j] => i = j
    BY <1>1
<1> HIDE DEF n, rest
<1>5. ASSUME NEW x
      PROVE  (\E i \in 1..n : s[i] = x)
                <=> (\E i \in 1..(n - 1) : rest[i] = x) \/ x = s[1]
  <2>1. ASSUME NEW i \in 1..n, s[i] = x
        PROVE  (\E k \in 1..(n - 1) : rest[k] = x) \/ x = s[1]
    <3>1. CASE i = 1
        BY <2>1, <3>1
    <3>2. CASE i # 1
      <4>1. PICK k \in 1..(n - 1) : i = k + 1
          BY <1>3, <3>2
      <4>2. rest[k] = x
          BY <1>1, <2>1, <4>1
      <4> QED BY <4>2
    <3> QED BY <3>1, <3>2
  <2>2. ASSUME NEW i \in 1..(n - 1), rest[i] = x
        PROVE  \E k \in 1..n : s[k] = x
    <3>1. s[i + 1] = x /\ i + 1 \in 1..n
        BY <1>1, <1>2, <2>2
    <3> QED BY <3>1
  <2> QED BY <1>2, <2>1, <2>2
<1>6. \A i \in 1..(n - 1) : rest[i] # s[1]
    BY <1>1, <1>2, <1>4
<1>7. ASSUME NEW i \in 1..(n - 1), NEW j \in 1..(n - 1), rest[i] = rest[j]
      PROVE  i = j
  <2>1. s[i + 1] = s[j + 1]
      BY <1>1, <1>7
  <2>2. i + 1 = j + 1
      BY <1>2, <1>4, <2>1
  <2> QED BY <1>2, <2>2
<1>8. /\ \A x : (\E i \in DOMAIN s : s[i] = x)
             <=> (\E i \in DOMAIN rest : rest[i] = x) \/ x = Head(s)
      /\ ~ \E i \in DOMAIN rest : rest[i] = Head(s)
      /\ \A i, j \in DOMAIN rest : rest[i] = rest[j] => i = j
    BY <1>1, <1>5, <1>6, <1>7
<1> QED BY <1>8 DEF rest

\* Sequences are equal that have the same elements.
LEMMA SameSeq ==
    ASSUME NEW S, NEW s \in Seq(S), NEW t \in Seq(S), Len(s) = Len(t),
           \A i \in 1..Len(s) : s[i] = t[i]
    PROVE  s = t
OBVIOUS

\* The first elements of the second sequence, behind the first.
LEMMA JoinFirst ==
    ASSUME NEW S, NEW s \in Seq(S), NEW t \in Seq(S), NEW n \in 0..Len(t)
    PROVE  s \o SubSeq(t, 1, n) = SubSeq(s \o t, 1, Len(s) + n)
<1> DEFINE a == SubSeq(t, 1, n)
           u == s \o t
           l == s \o a
           r == SubSeq(u, 1, Len(s) + n)
<1>1. Len(s) \in Nat /\ Len(t) \in Nat /\ n \in Nat /\ n <= Len(t)
    OBVIOUS
<1>2. a \in Seq(S) /\ Len(a) = n /\ \A i \in 1..n : a[i] = t[i]
    BY FirstFacts
<1>3. /\ u \in Seq(S) /\ Len(u) = Len(s) + Len(t)
      /\ \A i \in 1..Len(s) : u[i] = s[i]
      /\ \A i \in (Len(s) + 1)..(Len(s) + Len(t)) : u[i] = t[i - Len(s)]
    BY JoinFacts
<1> HIDE DEF a, u
<1>4. /\ l \in Seq(S) /\ Len(l) = Len(s) + n
      /\ \A i \in 1..Len(s) : l[i] = s[i]
      /\ \A i \in (Len(s) + 1)..(Len(s) + n) : l[i] = a[i - Len(s)]
    BY <1>2, JoinFacts
<1>5. /\ r \in Seq(S) /\ Len(r) = Len(s) + n
      /\ \A i \in 1..(Len(s) + n) : r[i] = u[i]
  <2>1. Len(s) + n \in 0..Len(u)
      BY <1>1, <1>3
  <2> QED BY <1>3, <2>1, FirstFacts
<1> HIDE DEF l, r
<1>6. ASSUME NEW i \in 1..(Len(s) + n) PROVE l[i] = r[i]
  <2>1. CASE i \in 1..Len(s)
      BY <1>3, <1>4, <1>5, <2>1
  <2>2. CASE i \in (Len(s) + 1)..(Len(s) + n)
    <3>1. i - Len(s) \in 1..n /\ i \in (Len(s) + 1)..(Len(s) + Len(t))
        BY <1>1, <2>2
    <3> QED BY <1>2, <1>3, <1>4, <1>5, <2>2, <3>1
  <2> QED BY <1>1, <2>1, <2>2
<1>7. l = r
    BY <1>4, <1>5, <1>6, SameSeq
<1> QED BY <1>7 DEF l, r, a, u

\* What is left of the first sequence, before the second.
LEMMA RestJoin ==
    ASSUME NEW S, NEW s \in Seq(S), NEW t \in Seq(S), NEW n \in 0..Len(s)
    PROVE  SubSeq(s, n + 1, Len(s)) \o t = SubSeq(s \o t, n + 1, Len(s \o t))
<1> DEFINE a == SubSeq(s, n + 1, Len(s))
           u == s \o t
           l == a \o t
           r == SubSeq(u, n + 1, Len(u))
           m == Len(s) - n
<1>1. Len(s) \in Nat /\ Len(t) \in Nat /\ n \in Nat /\ n <= Len(s)
      /\ m \in Nat /\ m + n = Len(s)
      /\ n \in 0..(Len(s) + Len(t)) /\ (Len(s) + Len(t)) - n = m + Len(t)
    OBVIOUS
<1>2. a \in Seq(S) /\ Len(a) = m /\ \A i \in 1..m : a[i] = s[i + n]
    BY RestFacts
<1>3. /\ u \in Seq(S) /\ Len(u) = Len(s) + Len(t)
      /\ \A i \in 1..Len(s) : u[i] = s[i]
      /\ \A i \in (Len(s) + 1)..(Len(s) + Len(t)) : u[i] = t[i - Len(s)]
    BY JoinFacts
<1> HIDE DEF a, u, m
<1>4. /\ l \in Seq(S) /\ Len(l) = m + Len(t)
      /\ \A i \in 1..m : l[i] = a[i]
      /\ \A i \in (m + 1)..(m + Len(t)) : l[i] = t[i - m]
  <2>1. a \in Seq(S)
      BY <1>2
  <2>2. /\ l \in Seq(S) /\ Len(l) = Len(a) + Len(t)
        /\ \A i \in 1..Len(a) : l[i] = a[i]
        /\ \A i \in (Len(a) + 1)..(Len(a) + Len(t)) : l[i] = t[i - Len(a)]
      BY <2>1, JoinFacts
  <2> HIDE DEF l
  <2> QED BY <1>2, <2>2
<1>5. /\ r \in Seq(S) /\ Len(r) = m + Len(t)
      /\ \A i \in 1..(m + Len(t)) : r[i] = u[i + n]
  <2>1. n \in 0..Len(u) /\ Len(u) - n = m + Len(t)
      BY <1>1, <1>3
  <2> QED BY <1>3, <2>1, RestFacts
<1> HIDE DEF l, r
<1>6. ASSUME NEW i \in 1..(m + Len(t)) PROVE l[i] = r[i]
  <2>1. CASE i \in 1..m
    <3>1. i + n \in 1..Len(s)
        BY <1>1, <2>1
    <3> QED BY <1>2, <1>3, <1>4, <1>5, <2>1, <3>1
  <2>2. CASE i \in (m + 1)..(m + Len(t))
    <3>1. i + n \in (Len(s) + 1)..(Len(s) + Len(t)) /\ (i + n) - Len(s) = i - m
        BY <1>1, <2>2
    <3> QED BY <1>3, <1>4, <1>5, <2>2, <3>1
  <2> QED BY <1>1, <2>1, <2>2
<1>7. l = r
    BY <1>4, <1>5, <1>6, SameSeq
<1> QED BY <1>7 DEF l, r, a, u

\* Three sequences joined.
LEMMA JoinJoin ==
    ASSUME NEW S, NEW s \in Seq(S), NEW t \in Seq(S), NEW u \in Seq(S)
    PROVE  s \o (t \o u) = (s \o t) \o u
<1> DEFINE a == t \o u
           b == s \o t
           l == s \o a
           r == b \o u
           p == Len(s)
           q == Len(t)
           k == Len(u)
<1>1. p \in Nat /\ q \in Nat /\ k \in Nat
    OBVIOUS
<1>2. /\ a \in Seq(S) /\ Len(a) = q + k
      /\ \A i \in 1..q : a[i] = t[i]
      /\ \A i \in (q + 1)..(q + k) : a[i] = u[i - q]
    BY JoinFacts
<1>3. /\ b \in Seq(S) /\ Len(b) = p + q
      /\ \A i \in 1..p : b[i] = s[i]
      /\ \A i \in (p + 1)..(p + q) : b[i] = t[i - p]
    BY JoinFacts
<1> HIDE DEF a, b
<1>8. /\ l \in Seq(S) /\ Len(l) = p + Len(a)
      /\ \A i \in 1..p : l[i] = s[i]
      /\ \A i \in (p + 1)..(p + Len(a)) : l[i] = a[i - p]
    BY <1>2, JoinFacts
<1>9. /\ r \in Seq(S) /\ Len(r) = Len(b) + k
      /\ \A i \in 1..Len(b) : r[i] = b[i]
      /\ \A i \in (Len(b) + 1)..(Len(b) + k) : r[i] = u[i - Len(b)]
  <2>1. b \in Seq(S)
      BY <1>3
  <2> QED BY <2>1, JoinFacts
<1> HIDE DEF l, r, p, q, k
<1>4. /\ l \in Seq(S) /\ Len(l) = p + (q + k)
      /\ \A i \in 1..p : l[i] = s[i]
      /\ \A i \in (p + 1)..(p + (q + k)) : l[i] = a[i - p]
    BY <1>2, <1>8
<1>5. /\ r \in Seq(S) /\ Len(r) = (p + q) + k
      /\ \A i \in 1..(p + q) : r[i] = b[i]
      /\ \A i \in (p + q + 1)..(p + q + k) : r[i] = u[i - (p + q)]
    BY <1>3, <1>9
<1>6. ASSUME NEW i \in 1..(p + (q + k)) PROVE l[i] = r[i]
  <2>1. CASE i \in 1..p
    <3>1. i \in 1..(p + q)
        BY <1>1, <2>1
    <3> QED BY <1>3, <1>4, <1>5, <2>1, <3>1
  <2>2. CASE i \in (p + 1)..(p + q)
    <3>1. i \in 1..(p + q) /\ i \in (p + 1)..(p + (q + k)) /\ i - p \in 1..q
        BY <1>1, <2>2
    <3> QED BY <1>2, <1>3, <1>4, <1>5, <2>2, <3>1
  <2>3. CASE i \in (p + q + 1)..(p + q + k)
    <3>1. /\ i \in (p + 1)..(p + (q + k)) /\ i - p \in (q + 1)..(q + k)
          /\ (i - p) - q = i - (p + q)
        BY <1>1, <2>3
    <3> QED BY <1>2, <1>4, <1>5, <2>3, <3>1
  <2> QED BY <1>1, <2>1, <2>2, <2>3
<1>7. l = r
  <2>1. Len(l) = Len(r)
      BY <1>1, <1>4, <1>5
  <2>2. \A i \in 1..Len(l) : l[i] = r[i]
      BY <1>4, <1>6
  <2> QED BY <1>4, <1>5, <2>1, <2>2, SameSeq
<1> QED BY <1>7 DEF l, r, a, b

\* A sequence cut in two and joined.
LEMMA FirstRest ==
    ASSUME NEW S, NEW s \in Seq(S), NEW n \in 0..Len(s)
    PROVE  SubSeq(s, 1, n) \o SubSeq(s, n + 1, Len(s)) = s
<1> DEFINE a == SubSeq(s, 1, n)
           b == SubSeq(s, n + 1, Len(s))
           l == a \o b
           m == Len(s) - n
<1>1. n \in Nat /\ m \in Nat /\ n + m = Len(s)
    OBVIOUS
<1>2. a \in Seq(S) /\ Len(a) = n /\ \A i \in 1..n : a[i] = s[i]
    BY FirstFacts
<1>3. b \in Seq(S) /\ Len(b) = m /\ \A i \in 1..m : b[i] = s[i + n]
    BY RestFacts
<1> HIDE DEF a, b, m
<1>7. /\ l \in Seq(S) /\ Len(l) = Len(a) + Len(b)
      /\ \A i \in 1..Len(a) : l[i] = a[i]
      /\ \A i \in (Len(a) + 1)..(Len(a) + Len(b)) : l[i] = b[i - Len(a)]
  <2>1. a \in Seq(S) /\ b \in Seq(S)
      BY <1>2, <1>3
  <2> QED BY <2>1, JoinFacts
<1> HIDE DEF l
<1>4. /\ l \in Seq(S) /\ Len(l) = n + m
      /\ \A i \in 1..n : l[i] = a[i]
      /\ \A i \in (n + 1)..(n + m) : l[i] = b[i - n]
    BY <1>2, <1>3, <1>7
<1>5. ASSUME NEW i \in 1..(n + m) PROVE l[i] = s[i]
  <2>1. CASE i \in 1..n
      BY <1>2, <1>4, <2>1
  <2>2. CASE i \in (n + 1)..(n + m)
    <3>1. i - n \in 1..m /\ (i - n) + n = i
        BY <1>1, <2>2
    <3> QED BY <1>3, <1>4, <2>2, <3>1
  <2> QED BY <1>1, <2>1, <2>2
<1>6. l = s
    BY <1>1, <1>4, <1>5, SameSeq
<1> QED BY <1>6 DEF l, a, b
=============================================================================
