-------------------------- MODULE SliceThreadsProofs --------------------------
(***************************************************************************)
(* Proofs about SliceThreads, whatever the number of threads and frames,   *)
(* the order the threads run in and the slices that fail: a frame is       *)
(* coded from a reference that is complete, is returned with all its NAL   *)
(* units, which are found again in its bytes; the encoder keeps what       *)
(* FrameEncoder promises of its steps; and its threads never all wait.     *)
(***************************************************************************)
EXTENDS SliceThreads, SequenceFacts, FiniteSetTheorems

(***************************************************************************)
(* The byte stream: what is written for a frame is cut apart again.        *)
(***************************************************************************)

Byte == 0..255

\* A set of numbers up to n has a greatest one.
LEMMA GreatestNumber ==
    ASSUME NEW n \in Nat, NEW T \in SUBSET (1..n), T # {}
    PROVE  Max(T) \in T /\ \A x \in T : Max(T) >= x
<1> DEFINE R == {n - x : x \in T}
<1>1. \A x \in T : x \in Nat /\ x <= n /\ n - x \in Nat /\ n - (n - x) = x
    OBVIOUS
<1>2. R \subseteq Nat /\ R # {}
    BY <1>1
<1>3. PICK r \in R : \A q \in R : r <= q
  <2> HIDE DEF R
  <2> QED BY <1>2, LeastNumber
<1>4. PICK x \in T : r = n - x
    BY <1>3
<1>5. \A y \in T : x >= y
  <2> SUFFICES ASSUME NEW y \in T PROVE x >= y
      OBVIOUS
  <2>1. n - x <= n - y
      BY <1>3, <1>4
  <2> QED BY <1>1, <2>1
<1> QED BY <1>5 DEF Max

\* What nal_escape has written, and then writes for the byte b.
Escaping(dst, b) ==
    IF /\ Len(dst) >= 2 /\ b <= 3
       /\ dst[Len(dst)] = 0 /\ dst[Len(dst) - 1] = 0
    THEN dst \o <<3, b>> ELSE Append(dst, b)

LEMMA EscapingTyped ==
    ASSUME NEW dst \in Seq(Byte), NEW b \in Byte
    PROVE  Escaping(dst, b) \in Seq(Byte)
<1>1. <<3, b>> \in Seq(Byte)
    BY DEF Byte
<1>2. dst \o <<3, b>> \in Seq(Byte)
    BY <1>1, JoinFacts
<1>3. Append(dst, b) \in Seq(Byte)
    BY AppendFacts
<1> QED BY <1>2, <1>3 DEF Escaping

\* The turns of nal_escape: what it has written after each byte.
LEMMA EscapeTurns ==
    ASSUME NEW src \in Seq(Byte)
    PROVE  \E dst \in [0..Len(src) -> Seq(Byte)] :
               /\ dst[0] = <<>>
               /\ \A k \in 1..Len(src) : dst[k] = Escaping(dst[k - 1], src[k])
               /\ nal_escape(src) = dst[Len(src)]
<1> DEFINE n == Len(src)
           D == SUBSET (1..n)
           V == Seq(Byte)
           Turn(f, s) == IF s = {} THEN <<>>
                         ELSE Escaping(f[s \ {Max(s)}], src[Max(s)])
           Unfold == [f \in [D -> V] |-> [s \in D |-> Turn(f, s)]]
           measure == [s \in D |-> IF s = {} THEN 0 ELSE Max(s)]
           F == CHOOSE f : f = [s \in D |-> Turn(f, s)]
<1>1. n \in Nat /\ DOMAIN src = 1..n /\ \A k \in 1..n : src[k] \in Byte
    OBVIOUS
<1>2. nal_escape(src) = F[1..n]
    BY <1>1 DEF nal_escape, FoldLeft, MapThenFoldSet, Escaping
<1>3. <<>> \in V
    OBVIOUS
<1> HIDE DEF n, V
<1>4. \A s \in D : s # {} => /\ Max(s) \in 1..n /\ Max(s) \in s
                             /\ s \ {Max(s)} \in D
                             /\ \A x \in s : Max(s) >= x
    BY <1>1, GreatestNumber
<1>5. measure \in [D -> 0..n]
    BY <1>1, <1>4
<1>6. \A s \in D : s # {} => measure[s \ {Max(s)}] < measure[s]
  <2> SUFFICES ASSUME NEW s \in D, s # {}
               PROVE  measure[s \ {Max(s)}] < measure[s]
      OBVIOUS
  <2> DEFINE r == s \ {Max(s)}
  <2>1. r \in D /\ measure[s] = Max(s) /\ Max(s) \in 1..n
      BY <1>4
  <2>2. CASE r = {}
      BY <2>1, <2>2, <1>1
  <2>3. CASE r # {}
    <3>1. measure[r] = Max(r) /\ Max(r) \in r /\ Max(r) \in 1..n
        BY <1>4, <2>1, <2>3
    <3>2. Max(r) \in s /\ Max(r) # Max(s)
        BY <3>1
    <3>3. Max(s) >= Max(r)
        BY <1>4, <3>2
    <3> QED BY <1>1, <2>1, <3>1, <3>2, <3>3
  <2> QED BY <2>2, <2>3
<1>7. \A f \in [D -> V], s \in D : Turn(f, s) \in V
  <2> SUFFICES ASSUME NEW f \in [D -> V], NEW s \in D, s # {}
               PROVE  Escaping(f[s \ {Max(s)}], src[Max(s)]) \in V
      BY <1>3
  <2>1. s \ {Max(s)} \in D /\ Max(s) \in 1..n
      BY <1>4
  <2>2. f[s \ {Max(s)}] \in V /\ src[Max(s)] \in Byte
      BY <1>1, <2>1
  <2> QED BY <2>2, EscapingTyped DEF V
<1> HIDE DEF measure, D
<1>8. Unfold \in [[D -> V] -> [D -> V]]
    BY <1>7
<1>9. ASSUME NEW f \in [D -> V], NEW g \in [D -> V], NEW s \in D,
             \A e \in D : measure[e] < measure[s] => f[e] = g[e]
      PROVE  Unfold[f][s] = Unfold[g][s]
  <2>1. Turn(f, s) = Turn(g, s)
      BY <1>4, <1>6, <1>9
  <2> HIDE DEF Turn
  <2> QED BY <2>1
<1>10. [D -> V] # {}
  <2>1. [s \in D |-> <<>>] \in [D -> V]
      BY <1>3
  <2> QED BY <2>1
<1> HIDE DEF Unfold
<1>11. PICK g \in [D -> V] : g = Unfold[g]
  <2>1. \A f, g \in [D -> V], s \in D :
            (\A e \in D : measure[e] < measure[s] => f[e] = g[e])
                => Unfold[f][s] = Unfold[g][s]
      BY <1>9
  <2>2. n \in Nat
      BY <1>1
  <2>3. Recursive(D, V, n, measure, Unfold)
      BY <1>5, <1>8, <1>10, <2>1, <2>2 DEF Recursive
  <2> QED BY <2>3, Recursion
<1>12. g = [s \in D |-> Turn(g, s)]
    BY <1>11 DEF Unfold
<1>13. F = [s \in D |-> Turn(F, s)]
  <2> HIDE DEF Turn
  <2> QED BY <1>12
<1> HIDE DEF F
<1> DEFINE dst == [k \in 0..n |-> F[1..k]]
           T == {k \in Nat : k <= n => F[1..k] \in V}
<1>14. \A k \in 0..n : 1..k \in D
    BY <1>1 DEF D
<1>15. F[1..0] = <<>>
    BY <1>1, <1>13, <1>14
<1>16. ASSUME NEW k \in 1..n
       PROVE  F[1..k] = Escaping(F[1..(k - 1)], src[k])
  <2>1. k \in 0..n /\ k \in 1..k /\ 1..k # {} /\ (1..k) \ {k} = 1..(k - 1)
    <3>0. n \in Nat
        BY <1>1
    <3>1. k \in 0..n /\ k \in 1..k
        BY <3>0
    <3>2. \A x : x \in (1..k) \ {k} <=> x \in 1..(k - 1)
        BY <1>1
    <3> QED BY <3>1, <3>2
  <2>2. Max(1..k) = k
    <3>1. Max(1..k) \in 1..k /\ Max(1..k) >= k
        BY <1>4, <1>14, <2>1
    <3> QED BY <1>1, <3>1
  <2> QED BY <1>13, <1>14, <2>1, <2>2
<1>17. 0 \in T
    BY <1>3, <1>15
<1>18. ASSUME NEW k \in Nat, k \in T PROVE k + 1 \in T
  <2> SUFFICES ASSUME k + 1 <= n PROVE F[1..(k + 1)] \in V
      OBVIOUS
  <2>1. k + 1 \in 1..n /\ (k + 1) - 1 = k /\ k <= n
      BY <1>1
  <2>2. F[1..k] \in V /\ src[k + 1] \in Byte
      BY <1>1, <1>18, <2>1
  <2> QED BY ZenonT(30), <1>16, <2>1, <2>2, EscapingTyped DEF V
<1>19. Nat \subseteq T
  <2> HIDE DEF T
  <2> QED BY <1>17, <1>18, CountingUp
<1>20. dst \in [0..n -> V]
    BY <1>1, <1>19
<1>21. dst[0] = <<>> /\ dst[n] = F[1..n]
    BY <1>1, <1>15
<1>22. \A k \in 1..n : dst[k] = Escaping(dst[k - 1], src[k])
  <2> SUFFICES ASSUME NEW k \in 1..n
               PROVE  dst[k] = Escaping(dst[k - 1], src[k])
      OBVIOUS
  <2>1. k \in 0..n /\ k - 1 \in 0..n
      BY <1>1
  <2> QED BY <1>16, <2>1
<1> HIDE DEF dst
<1>23. nal_escape(src) = dst[n]
    BY <1>2, <1>21
<1> QED BY <1>20, <1>21, <1>22, <1>23 DEF n, V

\* No three bytes that could be taken for a start code or for an escape.
NoCode(s) ==
    \A i \in 1..(Len(s) - 2) : s[i] # 0 \/ s[i + 1] # 0 \/ s[i + 2] > 2

\* What nal_escape adds keeps it so.
LEMMA EscapingSafe ==
    ASSUME NEW dst \in Seq(Byte), NoCode(dst), NEW b \in Byte
    PROVE  LET t == Escaping(dst, b)
           IN  /\ t \in Seq(Byte) /\ NoCode(t)
               /\ Len(t) \in Nat \ {0} /\ t[Len(t)] = b
<1> DEFINE n == Len(dst)
           e == <<3, b>>
           t == dst \o e
           a == Append(dst, b)
<1>1. n \in Nat /\ b \in 0..255 /\ 3 \in Byte
    BY DEF Byte
<1>2. e \in Seq(Byte) /\ Len(e) = 2 /\ e[1] = 3 /\ e[2] = b
    BY <1>1
<1>3. /\ t \in Seq(Byte) /\ Len(t) = n + Len(e)
      /\ \A i \in 1..n : t[i] = dst[i]
      /\ \A i \in (n + 1)..(n + Len(e)) : t[i] = e[i - n]
  <2> HIDE DEF e
  <2> QED BY SMTT(30), <1>2, JoinFacts
<1> HIDE DEF t, e
<1>4. Len(t) = n + 2 /\ t[n + 1] = 3 /\ t[n + 2] = b
  <2>1. n + 1 \in (n + 1)..(n + 2) /\ n + 2 \in (n + 1)..(n + 2)
        /\ (n + 1) - n = 1 /\ (n + 2) - n = 2
      BY <1>1
  <2> QED BY <1>2, <1>3, <2>1
<1>5. /\ a \in Seq(Byte) /\ Len(a) = n + 1 /\ a[n + 1] = b
      /\ \A i \in 1..n : a[i] = dst[i]
    BY AppendFacts
<1> HIDE DEF a, n
<1>6. \A i \in 1..(n - 2) : dst[i] # 0 \/ dst[i + 1] # 0 \/ dst[i + 2] > 2
    BY DEF NoCode, n
<1>7. NoCode(t)
  <2> SUFFICES ASSUME NEW i \in 1..(Len(t) - 2)
               PROVE  t[i] # 0 \/ t[i + 1] # 0 \/ t[i + 2] > 2
      BY DEF NoCode
  <2>1. i \in 1..n
      BY <1>1, <1>4
  <2>2. CASE i <= n - 2
    <3>1. i \in 1..(n - 2) /\ i + 1 \in 1..n /\ i + 2 \in 1..n
        BY <1>1, <2>1, <2>2
    <3> QED BY <1>3, <1>6, <2>1, <3>1
  <2>3. CASE i = n - 1
      BY <1>1, <1>4, <2>3
  <2>4. CASE i = n
      BY <1>4, <2>4
  <2> QED BY <1>1, <2>1, <2>2, <2>3, <2>4
<1>8. CASE n >= 2 /\ b <= 3 /\ dst[n] = 0 /\ dst[n - 1] = 0
  <2>1. Escaping(dst, b) = t
      BY <1>8 DEF Escaping, n, t, e
  <2> QED BY <1>1, <1>3, <1>4, <1>7, <2>1
<1>9. CASE ~(n >= 2 /\ b <= 3 /\ dst[n] = 0 /\ dst[n - 1] = 0)
  <2>1. Escaping(dst, b) = a
      BY <1>9 DEF Escaping, n, a
  <2>2. NoCode(a)
    <3> SUFFICES ASSUME NEW i \in 1..(Len(a) - 2)
                 PROVE  a[i] # 0 \/ a[i + 1] # 0 \/ a[i + 2] > 2
        BY DEF NoCode
    <3>1. i \in 1..(n - 1) /\ i \in 1..n /\ i + 1 \in 1..n
        BY <1>1, <1>5
    <3>2. CASE i <= n - 2
      <4>1. i \in 1..(n - 2) /\ i + 2 \in 1..n
          BY <1>1, <3>1, <3>2
      <4> QED BY <1>5, <1>6, <3>1, <4>1
    <3>3. CASE i = n - 1
      <4>1. i + 1 = n /\ i + 2 = n + 1 /\ n >= 2
          BY <1>1, <3>1, <3>3
      <4> QED BY <1>1, <1>5, <1>9, <3>1, <3>3, <4>1
    <3> QED BY <1>1, <3>1, <3>2, <3>3
  <2> QED BY <1>1, <1>5, <2>1, <2>2
<1> QED BY <1>8, <1>9

\* What nal_escape makes of a payload holds no start code, and ends as the
\* payload does.
LEMMA EscapeSafe ==
    ASSUME NEW src \in Seq(Byte)
    PROVE  LET t == nal_escape(src)
           IN  /\ t \in Seq(Byte) /\ NoCode(t)
               /\ IF src = <<>> THEN t = <<>>
                  ELSE Len(t) >= 1 /\ t[Len(t)] = src[Len(src)]
<1> DEFINE n == Len(src)
<1>1. n \in Nat /\ \A k \in 1..n : src[k] \in Byte
    OBVIOUS
<1>2. PICK dst \in [0..n -> Seq(Byte)] :
          /\ dst[0] = <<>>
          /\ \A k \in 1..n : dst[k] = Escaping(dst[k - 1], src[k])
          /\ nal_escape(src) = dst[n]
    BY EscapeTurns
<1>3. src = <<>> <=> n = 0
    OBVIOUS
<1> HIDE DEF n
<1> DEFINE Good(k) == /\ dst[k] \in Seq(Byte) /\ NoCode(dst[k])
                      /\ k > 0 => /\ Len(dst[k]) \in Nat \ {0}
                                  /\ dst[k][Len(dst[k])] = src[k]
           T == {k \in Nat : k <= n => Good(k)}
<1>4. 0 \in T
  <2>1. dst[0] \in Seq(Byte) /\ Len(dst[0]) = 0
      BY <1>2
  <2>2. NoCode(dst[0])
      BY <2>1 DEF NoCode
  <2> QED BY <2>1, <2>2
<1>5. ASSUME NEW k \in Nat, k \in T PROVE k + 1 \in T
  <2> SUFFICES ASSUME k + 1 <= n PROVE Good(k + 1)
      OBVIOUS
  <2>1. k + 1 \in 1..n /\ (k + 1) - 1 = k /\ k <= n /\ k + 1 > 0
      BY <1>1
  <2>2. dst[k] \in Seq(Byte) /\ NoCode(dst[k])
      BY <1>5, <2>1
  <2>3. dst[k + 1] = Escaping(dst[k], src[k + 1]) /\ src[k + 1] \in Byte
      BY <1>1, <1>2, <2>1
  <2>4. /\ Escaping(dst[k], src[k + 1]) \in Seq(Byte)
        /\ NoCode(Escaping(dst[k], src[k + 1]))
        /\ Len(Escaping(dst[k], src[k + 1])) \in Nat \ {0}
        /\ Escaping(dst[k], src[k + 1])[Len(Escaping(dst[k], src[k + 1]))]
              = src[k + 1]
      BY <2>2, <2>3, EscapingSafe
  <2> QED BY <2>3, <2>4
<1>6. Good(n)
  <2>1. n \in T
    <3> HIDE DEF T
    <3> QED BY <1>1, <1>4, <1>5, CountingUp
  <2> QED BY <1>1, <2>1
<1>7. CASE n = 0
    BY <1>2, <1>3, <1>6, <1>7
<1>8. CASE n # 0
  <2>1. n > 0
      BY <1>1, <1>8
  <2>2. Len(dst[n]) >= 1
      BY <1>6, <2>1
  <2> QED BY <1>2, <1>3, <1>6, <1>8, <2>1, <2>2 DEF n
<1> QED BY <1>7, <1>8

\* A NAL unit as the splitter has to find it.
NalUnit(u) ==
    /\ u \in Seq(Byte) /\ NoCode(u)
    /\ Len(u) >= 1 /\ u[1] # 0 /\ u[Len(u)] # 0

\* What trailing bits do to a payload: its last byte is not zero.
Trailed(raw) ==
    raw \in Seq(Byte) /\ (raw # <<>> => raw[Len(raw)] # 0)

LEMMA EncodedUnit ==
    ASSUME NEW h \in Byte, h # 0, NEW raw, Trailed(raw)
    PROVE  NalUnit(<<h>> \o nal_escape(raw))
<1> DEFINE e == nal_escape(raw)
           f == <<h>>
           u == f \o e
           n == Len(e)
<1>1. /\ e \in Seq(Byte) /\ NoCode(e)
      /\ e = <<>> \/ (Len(e) >= 1 /\ e[Len(e)] # 0)
  <2>1. raw \in Seq(Byte)
      BY DEF Trailed
  <2> QED BY <2>1, EscapeSafe DEF Trailed
<1>2. f \in Seq(Byte) /\ Len(f) = 1 /\ f[1] = h
    OBVIOUS
<1> HIDE DEF e, f
<1>3. n \in Nat /\ (n = 0 \/ e[n] # 0)
    BY <1>1
<1> HIDE DEF u, n
<1>4. /\ u \in Seq(Byte) /\ Len(u) = 1 + n
      /\ \A i \in 1..1 : u[i] = f[i]
      /\ \A i \in (1 + 1)..(1 + n) : u[i] = e[i - 1]
  <2>1. /\ u \in Seq(Byte) /\ Len(u) = Len(f) + n
        /\ \A i \in 1..Len(f) : u[i] = f[i]
        /\ \A i \in (Len(f) + 1)..(Len(f) + n) : u[i] = e[i - Len(f)]
      BY ZenonT(30), <1>1, <1>2, JoinFacts DEF u, n
  <2> QED BY <1>2, <2>1
<1>5. \A i \in 1..(n - 2) : e[i] # 0 \/ e[i + 1] # 0 \/ e[i + 2] > 2
    BY <1>1 DEF NoCode, n
<1>6. u[1] # 0
    BY <1>2, <1>4
<1>7. u[Len(u)] # 0
  <2>1. CASE n = 0
      BY <1>4, <1>6, <2>1
  <2>2. CASE n # 0
    <3>1. 1 + n \in (1 + 1)..(1 + n) /\ (1 + n) - 1 = n
        BY <1>3, <2>2
    <3> QED BY <1>3, <1>4, <2>2, <3>1
  <2> QED BY <2>1, <2>2
<1>8. NoCode(u)
  <2> SUFFICES ASSUME NEW i \in 1..(Len(u) - 2), i # 1
               PROVE  u[i] # 0 \/ u[i + 1] # 0 \/ u[i + 2] > 2
      BY <1>6 DEF NoCode
  <2>1. /\ i - 1 \in 1..(n - 2) /\ (i - 1) + 1 = i /\ (i - 1) + 2 = i + 1
        /\ i \in (1 + 1)..(1 + n) /\ i + 1 \in (1 + 1)..(1 + n)
        /\ i + 2 \in (1 + 1)..(1 + n)
        /\ (i + 1) - 1 = i /\ (i + 2) - 1 = i + 1
      BY <1>3, <1>4
  <2>2. e[i - 1] # 0 \/ e[i] # 0 \/ e[i + 1] > 2
      BY <1>5, <2>1
  <2> QED BY <1>4, <2>1, <2>2
<1>9. NalUnit(u)
    BY <1>3, <1>4, <1>6, <1>7, <1>8 DEF NalUnit
<1> QED BY <1>9 DEF u, e, f

\* d is the sequences nals joined, the i-th one from offset at[i - 1] on.
JoinedAt(d, nals, at) ==
    /\ at \in [0..Len(nals) -> Nat]
    /\ at[0] = 0 /\ at[Len(nals)] = Len(d)
    /\ \A i \in 1..Len(nals) :
          /\ at[i] = at[i - 1] + Len(nals[i])
          /\ at[i] <= Len(d)
          /\ \A k \in 1..Len(nals[i]) : d[at[i - 1] + k] = nals[i][k]

LEMMA Flattened ==
    ASSUME NEW V, NEW nals \in Seq(Seq(V))
    PROVE  /\ FlattenSeq(nals) \in Seq(V)
           /\ \E at : JoinedAt(FlattenSeq(nals), nals, at)
<1> DEFINE n == Len(nals)
           W == Seq(V)
           D == 1..n
           Turn(f, i) == IF i = 1 THEN nals[1] ELSE f[i - 1] \o nals[i]
           Unfold == [f \in [D -> W] |-> [i \in D |-> Turn(f, i)]]
           measure == [i \in D |-> i]
           F == CHOOSE f : f = [i \in D |-> IF i = 1 THEN nals[i]
                                            ELSE f[i - 1] \o nals[i]]
<1>1. n \in Nat /\ \A i \in 1..n : nals[i] \in W
    OBVIOUS
<1>2. CASE n = 0
  <2>1. FlattenSeq(nals) = <<>>
      BY <1>2 DEF FlattenSeq
  <2> DEFINE at == [i \in 0..0 |-> 0]
  <2>2. at \in [0..n -> Nat] /\ at[0] = 0
      BY <1>2
  <2>3. FlattenSeq(nals) \in Seq(V) /\ Len(FlattenSeq(nals)) = 0
      BY <2>1
  <2> HIDE DEF at
  <2>4. JoinedAt(FlattenSeq(nals), nals, at)
      BY <1>2, <2>2, <2>3 DEF JoinedAt
  <2> QED BY <2>3, <2>4
<1>3. CASE n # 0
  <2>1. FlattenSeq(nals) = F[n]
      BY <1>3 DEF FlattenSeq
  <2>2. measure \in [D -> 0..n] /\ \A i \in D : measure[i] = i
      BY <1>1
  <2>3. \A f \in [D -> W], i \in D : Turn(f, i) \in W
    <3> SUFFICES ASSUME NEW f \in [D -> W], NEW i \in D, i # 1
                 PROVE  f[i - 1] \o nals[i] \in W
        BY <1>1, <1>3
    <3>1. i - 1 \in D
        BY <1>1
    <3>2. f[i - 1] \in W /\ nals[i] \in W
        BY <1>1, <3>1
    <3> QED BY <3>2, JoinFacts
  <2> HIDE DEF measure
  <2>4. Unfold \in [[D -> W] -> [D -> W]]
      BY <2>3
  <2>5. ASSUME NEW f \in [D -> W], NEW g \in [D -> W], NEW i \in D,
               \A e \in D : measure[e] < measure[i] => f[e] = g[e]
        PROVE  Unfold[f][i] = Unfold[g][i]
    <3>1. i # 1 => i - 1 \in D /\ i - 1 < i
        BY <1>1
    <3>2. i # 1 => f[i - 1] = g[i - 1]
        BY <2>2, <2>5, <3>1
    <3>3. Turn(f, i) = Turn(g, i)
        BY <3>2
    <3> HIDE DEF Turn
    <3> QED BY <3>3
  <2>6. [D -> W] # {}
    <3>1. [i \in D |-> nals[i]] \in [D -> W]
        BY <1>1
    <3> QED BY <3>1
  <2> HIDE DEF Unfold, D
  <2>7. Recursive(D, W, n, measure, Unfold)
      BY <1>1, <2>2, <2>4, <2>5, <2>6 DEF Recursive
  <2>8. PICK g \in [D -> W] : g = Unfold[g]
      BY <2>7, Recursion
  <2>9. g = [i \in D |-> Turn(g, i)]
      BY <2>8 DEF Unfold
  <2>10. g = [i \in D |-> IF i = 1 THEN nals[i] ELSE g[i - 1] \o nals[i]]
      BY <2>9
  <2>11. F = [i \in D |-> IF i = 1 THEN nals[i] ELSE F[i - 1] \o nals[i]]
      BY <2>10
  <2> HIDE DEF F
  <2> DEFINE at == [i \in 0..n |-> IF i = 0 THEN 0 ELSE Len(F[i])]
             Placed(k) ==
                 /\ F[k] \in W /\ at[k] = Len(F[k])
                 /\ \A i \in 1..k :
                       /\ at[i] \in Nat /\ at[i - 1] \in Nat
                       /\ at[i] = at[i - 1] + Len(nals[i])
                       /\ at[i] <= at[k]
                       /\ \A j \in 1..Len(nals[i]) :
                             F[k][at[i - 1] + j] = nals[i][j]
             T == {k \in Nat : k + 1 <= n => Placed(k + 1)}
  <2>12. at[0] = 0 /\ \A i \in 1..n : at[i] = Len(F[i])
      BY <1>1
  <2> HIDE DEF at
  <2>13. 0 \in T
    <3>1. 1 \in D /\ 1 \in 1..n
        BY <1>1, <1>3 DEF D
    <3>2. F[1] = nals[1] /\ nals[1] \in W
        BY <1>1, <2>11, <3>1
    <3>3. \A i \in 1..(0 + 1) : i = 1
        OBVIOUS
    <3>4. Len(nals[1]) \in Nat
        BY <3>2
    <3> QED BY <2>12, <3>1, <3>2, <3>3, <3>4
  <2>14. ASSUME NEW k \in Nat, k \in T PROVE k + 1 \in T
    <3> SUFFICES ASSUME (k + 1) + 1 <= n PROVE Placed((k + 1) + 1)
        OBVIOUS
    <3> DEFINE p == k + 1
               q == p + 1
               a == F[p]
               b == nals[q]
               c == a \o b
    <3>1. p \in 1..n /\ q \in 1..n /\ q \in D /\ q # 1 /\ q - 1 = p
          /\ p \in Nat /\ q \in Nat /\ p + 1 = q
        BY <1>1 DEF D
    <3>2. Placed(p)
        BY <2>14, <3>1
    <3> HIDE DEF p, q
    <3>3. F[q] = c
        BY <2>11, <3>1
    <3>4. a \in W /\ b \in W /\ Len(a) \in Nat /\ Len(b) \in Nat /\ at[p] = Len(a)
      <4>1. a \in W /\ at[p] = Len(a)
          BY <3>2
      <4>2. b \in W
          BY <1>1, <3>1
      <4> HIDE DEF a, b
      <4> QED BY <4>1, <4>2
    <3> HIDE DEF a, b
    <3>5. /\ c \in W /\ Len(c) = Len(a) + Len(b)
          /\ \A i \in 1..Len(a) : c[i] = a[i]
          /\ \A i \in (Len(a) + 1)..(Len(a) + Len(b)) : c[i] = b[i - Len(a)]
        BY <3>4, JoinFacts
    <3> HIDE DEF c
    <3>6. at[q] = at[p] + Len(b) /\ at[q] \in Nat
      <4>1. at[q] = Len(F[q])
          BY <2>12, <3>1
      <4>2. at[q] = Len(a) + Len(b)
          BY <3>3, <3>5, <4>1
      <4> HIDE DEF F
      <4> QED BY <3>4, <4>2
    <3>7. ASSUME NEW i \in 1..p
          PROVE  /\ at[i] \in Nat /\ at[i - 1] \in Nat
                 /\ at[i] = at[i - 1] + Len(nals[i])
                 /\ at[i] <= at[q]
                 /\ \A j \in 1..Len(nals[i]) :
                       F[q][at[i - 1] + j] = nals[i][j]
      <4>1. /\ at[i] \in Nat /\ at[i - 1] \in Nat
            /\ at[i] = at[i - 1] + Len(nals[i]) /\ at[i] <= at[p]
            /\ \A j \in 1..Len(nals[i]) : a[at[i - 1] + j] = nals[i][j]
          BY <3>2 DEF a
      <4>2. at[i] <= at[q]
          BY <3>4, <3>6, <4>1
      <4>3. ASSUME NEW j \in 1..Len(nals[i])
            PROVE  F[q][at[i - 1] + j] = nals[i][j]
        <5>1. Len(nals[i]) \in Nat
          <6>1. i \in 1..n
              BY <1>1, <3>1
          <6> QED BY <1>1, <6>1
        <5>2. at[i - 1] + j <= at[i]
            BY SMTT(30), <4>1, <5>1
        <5>3. at[i] <= Len(a)
            BY <3>4, <4>1
        <5>4. at[i - 1] + j \in 1..Len(a)
            BY SMTT(30), <3>4, <4>1, <5>1, <5>2, <5>3
        <5> QED BY <3>3, <3>5, <4>1, <5>4
      <4> QED BY <4>1, <4>2, <4>3
    <3>8. /\ at[q - 1] \in Nat /\ at[q] = at[q - 1] + Len(nals[q])
          /\ at[q] <= at[q]
          /\ \A j \in 1..Len(nals[q]) : F[q][at[q - 1] + j] = nals[q][j]
      <4>1. ASSUME NEW j \in 1..Len(b) PROVE F[q][at[p] + j] = b[j]
        <5>1. at[p] + j \in (Len(a) + 1)..(Len(a) + Len(b))
              /\ (at[p] + j) - Len(a) = j
            BY <3>4
        <5> QED BY <3>3, <3>5, <5>1
      <4>2. at[q - 1] = at[p] /\ at[p] \in Nat /\ at[q] <= at[q]
          BY <3>1, <3>4, <3>6
      <4>3. b = nals[q]
          BY DEF b
      <4> QED BY <3>6, <4>1, <4>2, <4>3
    <3>9. F[q] \in W /\ at[q] = Len(F[q])
        BY <2>12, <3>1, <3>3, <3>5
    <3>10. \A i \in 1..q : i \in 1..p \/ i = q
        BY <3>1
    <3>11. Placed(q)
        BY <3>6, <3>7, <3>8, <3>9, <3>10
    <3> QED BY <3>11 DEF q, p
  <2>15. Placed(n)
    <3>1. n - 1 \in Nat /\ (n - 1) + 1 = n /\ n <= n
        BY <1>1, <1>3
    <3>2. n - 1 \in T
      <4> HIDE DEF T
      <4> QED BY <2>13, <2>14, <3>1, CountingUp
    <3> QED BY <3>1, <3>2
  <2>16. at \in [0..n -> Nat]
    <3>1. \A i \in 0..n : at[i] \in Nat
        BY <1>1, <2>12, <2>15
    <3> QED BY <3>1 DEF at
  <2>17. JoinedAt(F[n], nals, at)
      BY <2>12, <2>15, <2>16 DEF JoinedAt
  <2> QED BY <2>1, <2>15, <2>17
<1> QED BY <1>2, <1>3

\* Where a NAL unit ends, for any bytes.
LEMMA NalEnds ==
    ASSUME NEW d \in Seq(Byte), NEW s \in 0..Len(d)
    PROVE  /\ NalEnd(d, s) \in s..Len(d)
           /\ NalEnd(d, s) = Len(d) \/ is_start_code(d, NalEnd(d, s))
           /\ \A x \in s..Len(d) :
                 x = Len(d) \/ is_start_code(d, x) => NalEnd(d, s) <= x
<1> DEFINE R == {x \in s..Len(d) : x = Len(d) \/ is_start_code(d, x)}
<1>1. Len(d) \in Nat /\ s \in Nat /\ R \subseteq Nat /\ Len(d) \in R
    OBVIOUS
<1>2. PICK m \in R : \A x \in R : m <= x
  <2> HIDE DEF R
  <2> QED BY <1>1, LeastNumber
<1>3. NalEnd(d, s) = CHOOSE x \in R : \A y \in R : x <= y
    BY DEF NalEnd, Min
<1>4. NalEnd(d, s) \in R /\ \A y \in R : NalEnd(d, s) <= y
  <2> HIDE DEF R
  <2> QED BY <1>2, <1>3
<1> QED BY <1>4

\* Every turn of the splitter's loop gets on, whatever the bytes are.
LEMMA SplitGetsOn ==
    ASSUME NEW d \in Seq(Byte), NEW o \in 0..Len(d), o < Len(d),
           o + StartCodeLen(d, o) < Len(d)
    PROVE  LET s == o + StartCodeLen(d, o)
               e == NalEnd(d, s)
           IN  /\ s \in o..Len(d) /\ e \in s..Len(d) /\ e > o
               /\ SubSeq(d, s + 1, e) \in Seq(Byte)
<1> DEFINE s == o + StartCodeLen(d, o)
           e == NalEnd(d, s)
<1>1. Len(d) \in Nat /\ o \in Nat
    OBVIOUS
<1>2. StartCodeLen(d, o) \in {0, 3, 4}
    BY DEF StartCodeLen
<1>3. s \in o..Len(d) /\ s \in 0..Len(d)
    BY <1>1, <1>2
<1>4. /\ e \in s..Len(d) /\ (e = Len(d) \/ is_start_code(d, e))
  <2> HIDE DEF s
  <2> QED BY <1>3, NalEnds
<1>5. CASE StartCodeLen(d, o) # 0
    BY <1>1, <1>2, <1>4, <1>5
<1>6. CASE StartCodeLen(d, o) = 0
  <2>1. ~is_start_code(d, o)
      BY <1>1, <1>6 DEF StartCodeLen, is_start_code
  <2>2. s = o
      BY <1>1, <1>6
  <2>3. e # o
      BY <1>4, <2>1, <2>2
  <2> QED BY <1>1, <1>4, <2>2, <2>3
<1>7. e > o
    BY <1>5, <1>6
<1>8. SubSeq(d, s + 1, e) \in Seq(Byte)
  <2>1. s \in Nat /\ e \in Nat /\ s + 1 \in Nat \ {0} /\ e <= Len(d)
      BY <1>1, <1>3, <1>4
  <2>2. \A i \in (s + 1)..e : d[i] \in Byte
      BY <1>1, <2>1
  <2> HIDE DEF s, e
  <2> QED BY <2>1, <2>2
<1> QED BY <1>3, <1>4, <1>7, <1>8

\* The turns of the splitter's loop are the values of a function.
LEMMA SplitTurns ==
    ASSUME NEW d \in Seq(Byte)
    PROVE  \E From :
               /\ Split(d) = From[0]
               /\ \A o \in 0..Len(d) :
                     LET s == o + StartCodeLen(d, o)
                         e == NalEnd(d, s)
                     IN  From[o] = IF o >= Len(d) \/ s >= Len(d) THEN <<>>
                                   ELSE IF e = s THEN From[e]
                                   ELSE <<SubSeq(d, s + 1, e)>> \o From[e]
<1> DEFINE n == Len(d)
           D == 0..n
           W == Seq(Seq(Byte))
           At(o) == o + StartCodeLen(d, o)
           End(o) == NalEnd(d, At(o))
           Ends(o) == o >= n \/ At(o) >= n
           Found(o) == SubSeq(d, At(o) + 1, End(o))
           Turn(f, o) == IF Ends(o) THEN <<>>
                         ELSE IF End(o) = At(o) THEN f[End(o)]
                         ELSE <<Found(o)>> \o f[End(o)]
           Unfold == [f \in [D -> W] |-> [o \in D |-> Turn(f, o)]]
           measure == [o \in D |-> n - o]
           F == CHOOSE f : f = [o \in D |-> Turn(f, o)]
<1>1. n \in Nat
    OBVIOUS
<1>2. \A o \in D : ~Ends(o) => /\ End(o) \in D /\ End(o) > o
                               /\ Found(o) \in Seq(Byte)
  <2> SUFFICES ASSUME NEW o \in D, ~Ends(o)
               PROVE  End(o) \in D /\ End(o) > o /\ Found(o) \in Seq(Byte)
      OBVIOUS
  <2>1. o < n /\ At(o) < n
    <3>1. o \in Nat /\ StartCodeLen(d, o) \in {0, 3, 4}
        BY DEF StartCodeLen
    <3> QED BY <1>1, <3>1
  <2>2. /\ At(o) \in o..n /\ End(o) \in At(o)..n /\ End(o) > o
        /\ Found(o) \in Seq(Byte)
      BY <2>1, SplitGetsOn
  <2>3. o \in Nat
      BY <1>1
  <2> HIDE DEF At, End, Found
  <2> QED BY <1>1, <2>2, <2>3
<1>3. Split(d) = F[0]
    BY DEF Split
<1> HIDE DEF n, At, End, Ends, Found
<1>4. measure \in [D -> 0..n]
    BY <1>1
<1>5. \A o, p \in D : o < p => measure[p] < measure[o]
    BY <1>1
<1> HIDE DEF measure, D
<1>6. \A f \in [D -> W], o \in D : Turn(f, o) \in W
  <2> SUFFICES ASSUME NEW f \in [D -> W], NEW o \in D PROVE Turn(f, o) \in W
      OBVIOUS
  <2>1. CASE Ends(o)
      BY <2>1
  <2>2. CASE ~Ends(o)
    <3>1. f[End(o)] \in W /\ <<Found(o)>> \in W
        BY <1>2, <2>2
    <3>2. <<Found(o)>> \o f[End(o)] \in W
        BY <3>1, JoinFacts
    <3> QED BY <2>2, <3>1, <3>2
  <2> QED BY <2>1, <2>2
<1>7. \A f, g \in [D -> W], o \in D :
          (\A p \in D : measure[p] < measure[o] => f[p] = g[p])
              => Turn(f, o) = Turn(g, o)
    BY <1>2, <1>5
<1> HIDE DEF Turn
<1>8. Unfold \in [[D -> W] -> [D -> W]]
    BY <1>6
<1>9. [D -> W] # {}
  <2>1. [o \in D |-> <<>>] \in [D -> W]
      OBVIOUS
  <2> QED BY <2>1
<1>10. \A f, g \in [D -> W], o \in D :
          (\A p \in D : measure[p] < measure[o] => f[p] = g[p])
              => Unfold[f][o] = Unfold[g][o]
  <2> SUFFICES ASSUME NEW f \in [D -> W], NEW g \in [D -> W], NEW o \in D,
                      \A p \in D : measure[p] < measure[o] => f[p] = g[p]
               PROVE  Unfold[f][o] = Unfold[g][o]
      OBVIOUS
  <2>1. Turn(f, o) = Turn(g, o)
      BY <1>7
  <2> QED BY <2>1
<1> HIDE DEF Unfold
<1>11. Recursive(D, W, n, measure, Unfold)
    BY <1>1, <1>4, <1>8, <1>9, <1>10 DEF Recursive
<1>12. PICK g \in [D -> W] : g = Unfold[g]
    BY <1>11, Recursion
<1>13. g = [o \in D |-> Turn(g, o)]
    BY <1>12 DEF Unfold
<1>14. F = [o \in D |-> Turn(F, o)]
    BY <1>13
<1> HIDE DEF F
<1>15. ASSUME NEW o \in D
       PROVE  LET s == o + StartCodeLen(d, o)
                  e == NalEnd(d, s)
              IN  F[o] = IF o >= Len(d) \/ s >= Len(d) THEN <<>>
                         ELSE IF e = s THEN F[e]
                         ELSE <<SubSeq(d, s + 1, e)>> \o F[e]
  <2>1. F[o] = Turn(F, o)
      BY <1>14
  <2> QED BY <2>1 DEF Turn, Ends, End, At, Found, n
<1> QED BY <1>3, <1>15 DEF D, n

Short == <<0, 0, 1>>
Long  == <<0, 0, 0, 1>>

\* The NAL unit u behind a start code, at offset o of d.
UnitAt(d, o, code, u) ==
    /\ o + Len(code) + Len(u) <= Len(d)
    /\ Starts(d, o, code)
    /\ \A k \in 1..Len(u) : d[o + Len(code) + k] = u[k]

\* A start code is recognized for what it is.
LEMMA StartFound ==
    ASSUME NEW d \in Seq(Byte), NEW o \in Nat, NEW code \in {Short, Long},
           NEW u, NalUnit(u), UnitAt(d, o, code, u)
    PROVE  /\ is_start_code(d, o) /\ StartCodeLen(d, o) = Len(code)
           /\ o + Len(code) \in Nat /\ o + Len(code) < Len(d)
<1>1. Len(d) \in Nat /\ Len(u) \in Nat /\ Len(u) >= 1
    BY DEF NalUnit
<1>2. CASE code = Short
  <2>1. Len(code) = 3 /\ code[1] = 0 /\ code[2] = 0 /\ code[3] = 1
      BY <1>2 DEF Short
  <2>2. o + 3 + Len(u) <= Len(d) /\ Starts(d, o, Short)
      BY <1>2, <2>1 DEF UnitAt
  <2>3. d[o + 3] = 1
      BY <2>2 DEF Starts, Short
  <2>4. ~Starts(d, o, Long)
      BY <2>3 DEF Starts, Long
  <2> QED
      BY <1>1, <2>1, <2>2, <2>4 DEF is_start_code, StartCodeLen, Short, Long
<1>3. CASE code = Long
  <2>1. Len(code) = 4
      BY <1>3 DEF Long
  <2>2. o + 4 + Len(u) <= Len(d) /\ Starts(d, o, Long)
      BY <1>3, <2>1 DEF UnitAt
  <2> QED BY <1>1, <2>1, <2>2 DEF is_start_code, StartCodeLen, Long
<1> QED BY <1>2, <1>3

\* No start code begins inside a NAL unit.
LEMMA NoneInside ==
    ASSUME NEW d \in Seq(Byte), NEW s \in Nat, NEW u, NalUnit(u),
           s + Len(u) <= Len(d), \A k \in 1..Len(u) : d[s + k] = u[k],
           NEW x \in s..(s + Len(u) - 1)
    PROVE  ~is_start_code(d, x)
<1> DEFINE n == Len(u)
           p == x - s + 1
<1>1. /\ n \in Nat /\ n >= 1 /\ u[1] # 0 /\ u[n] # 0
      /\ \A i \in 1..(n - 2) : u[i] # 0 \/ u[i + 1] # 0 \/ u[i + 2] > 2
    BY DEF NalUnit, NoCode
<1>2. /\ x \in Nat /\ p \in 1..n /\ s + p = x + 1 /\ s + (p + 1) = x + 2
      /\ s + (p + 2) = x + 3
    BY <1>1
<1> HIDE DEF n, p
<1>3. d[x + 1] = u[p]
    BY <1>2 DEF n
<1>4. SUFFICES ASSUME d[x + 1] = 0, d[x + 2] = 0, d[x + 3] = 0 \/ d[x + 3] = 1
               PROVE  FALSE
  <2>1. Starts(d, x, <<0, 0, 1>>)
           => d[x + 1] = 0 /\ d[x + 2] = 0 /\ d[x + 3] = 1
      BY DEF Starts
  <2>2. Starts(d, x, <<0, 0, 0, 1>>)
           => d[x + 1] = 0 /\ d[x + 2] = 0 /\ d[x + 3] = 0
      BY DEF Starts
  <2> QED BY <2>1, <2>2 DEF is_start_code
<1>5. p # n
    BY <1>1, <1>3, <1>4
<1>6. d[x + 2] = u[p + 1]
  <2>1. p + 1 \in 1..n
      BY <1>1, <1>2, <1>5
  <2> QED BY <1>2, <2>1 DEF n
<1>7. p + 1 # n
    BY <1>1, <1>4, <1>6
<1>8. p \in 1..(n - 2) /\ p + 2 \in 1..n
    BY <1>1, <1>2, <1>5, <1>7
<1>9. d[x + 3] = u[p + 2]
    BY <1>2, <1>8 DEF n
<1>10. u[p + 2] > 2
    BY <1>1, <1>3, <1>4, <1>6, <1>8
<1> QED BY <1>4, <1>9, <1>10

\* A NAL unit that is followed by another, or by nothing, is cut out whole.
LEMMA UnitCut ==
    ASSUME NEW d \in Seq(Byte), NEW s \in Nat, NEW u, NalUnit(u),
           s + Len(u) <= Len(d), \A k \in 1..Len(u) : d[s + k] = u[k],
           s + Len(u) = Len(d) \/ is_start_code(d, s + Len(u))
    PROVE  NalEnd(d, s) = s + Len(u) /\ SubSeq(d, s + 1, s + Len(u)) = u
<1> DEFINE n == Len(u)
           e == s + n
           t == SubSeq(d, s + 1, e)
<1>1. n \in Nat /\ n >= 1 /\ Len(d) \in Nat /\ u \in Seq(Byte)
    BY DEF NalUnit
<1>2. s \in 0..Len(d) /\ e \in s..Len(d) /\ e \in Nat
    BY <1>1
<1>3. \A x \in s..(e - 1) : x # Len(d) /\ ~is_start_code(d, x)
  <2> SUFFICES ASSUME NEW x \in s..(e - 1)
               PROVE  x # Len(d) /\ ~is_start_code(d, x)
      OBVIOUS
  <2>1. x # Len(d)
      BY <1>1
  <2>2. x \in s..(s + Len(u) - 1)
      BY DEF e, n
  <2>3. ~is_start_code(d, x)
      BY <2>2, NoneInside
  <2> QED BY <2>1, <2>3
<1>4. NalEnd(d, s) = e
  <2>1. /\ NalEnd(d, s) \in s..Len(d)
        /\ NalEnd(d, s) = Len(d) \/ is_start_code(d, NalEnd(d, s))
        /\ \A x \in s..Len(d) :
              x = Len(d) \/ is_start_code(d, x) => NalEnd(d, s) <= x
      BY <1>2, NalEnds
  <2>2. NalEnd(d, s) <= e
      BY <1>2, <2>1
  <2>3. ~(NalEnd(d, s) \in s..(e - 1))
      BY <1>3, <2>1
  <2> HIDE DEF e
  <2> QED BY <1>1, <1>2, <2>1, <2>2, <2>3
<1>5. t = u
  <2>1. /\ t \in Seq(Byte) /\ Len(t) = n
        /\ \A i \in 1..n : t[i] = d[s + i]
      BY <1>1, MiddleFacts
  <2> HIDE DEF t
  <2>2. Len(t) = Len(u) /\ \A i \in 1..Len(t) : t[i] = u[i]
      BY <2>1
  <2> QED BY <1>1, <2>1, <2>2, SameSeq
<1> QED BY <1>4, <1>5

Unit(type, raw) == <<Header[type]>> \o nal_escape(raw)

LEMMA UnitSound ==
    ASSUME NEW type \in DOMAIN Header, NEW raw, Trailed(raw)
    PROVE  NalUnit(Unit(type, raw))
<1>1. Header[type] \in Byte /\ Header[type] # 0
    BY DEF Header, Byte
<1> QED BY <1>1, EncodedUnit DEF Unit

\* nal is the start code and behind it the NAL unit u.
Encodes(nal, code, u) ==
    /\ nal \in Seq(Byte) /\ Len(nal) = Len(code) + Len(u)
    /\ \A k \in 1..Len(code) : nal[k] = code[k]
    /\ \A k \in 1..Len(u) : nal[Len(code) + k] = u[k]

LEMMA NalEncoded ==
    ASSUME NEW type \in DOMAIN Header, NEW raw, Trailed(raw),
           NEW long \in BOOLEAN
    PROVE  Encodes(x264_nal_encode(type, raw, long),
                   IF long THEN Long ELSE Short, Unit(type, raw))
<1> DEFINE code == IF long THEN Long ELSE Short
           h == <<Header[type]>>
           e == nal_escape(raw)
           u == h \o e
           nal == code \o u
<1>1. code \in Seq(Byte) /\ h \in Seq(Byte)
  <2>1. Long \in Seq(Byte) /\ Short \in Seq(Byte)
      BY DEF Long, Short, Byte
  <2>2. Header[type] \in Byte
      BY DEF Header, Byte
  <2> QED BY <2>1, <2>2
<1>2. e \in Seq(Byte)
    BY EscapeSafe DEF Trailed
<1>3. x264_nal_encode(type, raw, long) = (code \o h) \o e
    BY DEF x264_nal_encode, Long, Short
<1>4. u = Unit(type, raw)
    BY DEF Unit
<1> HIDE DEF code, h, e
<1>5. (code \o h) \o e = nal
    BY <1>1, <1>2, JoinJoin
<1>6. u \in Seq(Byte)
    BY <1>1, <1>2, JoinFacts
<1> HIDE DEF u
<1>7. /\ nal \in Seq(Byte) /\ Len(nal) = Len(code) + Len(u)
      /\ \A i \in 1..Len(code) : nal[i] = code[i]
      /\ \A i \in (Len(code) + 1)..(Len(code) + Len(u)) :
            nal[i] = u[i - Len(code)]
    BY <1>1, <1>6, JoinFacts
<1> HIDE DEF nal
<1>8. Len(code) \in Nat /\ Len(u) \in Nat
    BY <1>1, <1>6
<1>9. \A k \in 1..Len(u) : nal[Len(code) + k] = u[k]
  <2> SUFFICES ASSUME NEW k \in 1..Len(u) PROVE nal[Len(code) + k] = u[k]
      OBVIOUS
  <2>1. /\ Len(code) + k \in (Len(code) + 1)..(Len(code) + Len(u))
        /\ (Len(code) + k) - Len(code) = k
      BY <1>8
  <2> QED BY <1>7, <2>1
<1>10. x264_nal_encode(type, raw, long) = nal
    BY <1>3, <1>5
<1>11. Encodes(nal, code, u)
    BY <1>7, <1>9 DEF Encodes
<1> QED BY <1>4, <1>10, <1>11 DEF code

\* In the bytes of a frame each NAL unit is behind a start code, and the next
\* start code, or the end, is behind it.
LEMMA FrameEncoded ==
    ASSUME NEW types \in Seq(DOMAIN Header), NEW raw, Trailed(raw)
    PROVE  LET d == encoder_encapsulate_nals(types, raw)
           IN  /\ d \in Seq(Byte)
               /\ \E at \in [0..Len(types) -> Nat] :
                     /\ at[0] = 0 /\ at[Len(types)] = Len(d)
                     /\ \A i \in 1..Len(types) : \E code \in {Short, Long} :
                           /\ UnitAt(d, at[i - 1], code, Unit(types[i], raw))
                           /\ at[i] = at[i - 1] + Len(code)
                                        + Len(Unit(types[i], raw))
<1> DEFINE n == Len(types)
           Begin(i) == i = 1 \/ types[i] \in {"sps", "pps"}
           Mark(i) == IF Begin(i) THEN Long ELSE Short
           U(i) == Unit(types[i], raw)
           nal(i) == x264_nal_encode(types[i], raw, Begin(i))
           nals == [i \in 1..n |-> nal(i)]
           d == FlattenSeq(nals)
<1>1. n \in Nat /\ DOMAIN types = 1..n /\ \A i \in 1..n : types[i] \in DOMAIN Header
    OBVIOUS
<1>2. encoder_encapsulate_nals(types, raw) = d
    BY <1>1 DEF encoder_encapsulate_nals
<1>3. \A i \in 1..n : Encodes(nal(i), Mark(i), U(i))
  <2> SUFFICES ASSUME NEW i \in 1..n PROVE Encodes(nal(i), Mark(i), U(i))
      OBVIOUS
  <2>1. types[i] \in DOMAIN Header /\ Begin(i) \in BOOLEAN
      BY <1>1
  <2> HIDE DEF Begin
  <2> QED BY <2>1, NalEncoded
<1>4. \A i \in 1..n : /\ Mark(i) \in {Short, Long} /\ Len(Mark(i)) \in Nat
                      /\ Len(U(i)) \in Nat
  <2> SUFFICES ASSUME NEW i \in 1..n
               PROVE  /\ Mark(i) \in {Short, Long} /\ Len(Mark(i)) \in Nat
                      /\ Len(U(i)) \in Nat
      OBVIOUS
  <2>1. Mark(i) \in {Short, Long}
      OBVIOUS
  <2>2. \A c \in {Short, Long} : Len(c) \in Nat
      BY DEF Short, Long
  <2>3. Len(U(i)) \in Nat
      BY <1>1, UnitSound DEF NalUnit
  <2> HIDE DEF Mark, U
  <2> QED BY <2>1, <2>2, <2>3
<1> HIDE DEF n, nal, Mark, U
<1>5. /\ nals \in Seq(Seq(Byte)) /\ Len(nals) = n
      /\ \A i \in 1..n : nals[i] = nal(i)
    BY <1>1, <1>3 DEF Encodes
<1> HIDE DEF nals
<1>6. d \in Seq(Byte)
    BY <1>5, Flattened
<1>7. PICK at : JoinedAt(d, nals, at)
    BY <1>5, Flattened
<1> USE DEF JoinedAt
<1> HIDE DEF d
<1>8. ASSUME NEW i \in 1..n
      PROVE  /\ UnitAt(d, at[i - 1], Mark(i), U(i))
             /\ at[i] = at[i - 1] + Len(Mark(i)) + Len(U(i))
  <2> DEFINE o == at[i - 1]
             c == Len(Mark(i))
             m == Len(U(i))
  <2>1. o \in Nat /\ at[i] \in Nat /\ c \in Nat /\ m \in Nat /\ Len(nals[i]) = c + m
        /\ at[i] = o + (c + m) /\ at[i] <= Len(d)
    <3>1. i \in 0..n /\ i - 1 \in 0..n
        BY <1>1
    <3> QED BY ZenonT(30), <1>3, <1>4, <1>5, <1>7, <3>1 DEF Encodes
  <2>2. \A k \in 1..(c + m) : d[o + k] = nal(i)[k]
      BY <1>5, <1>7, <2>1
  <2>3. \A k \in 1..c : nal(i)[k] = Mark(i)[k]
      BY <1>3 DEF Encodes
  <2>4. \A k \in 1..m : nal(i)[c + k] = U(i)[k]
      BY <1>3 DEF Encodes
  <2> HIDE DEF o
  <2>5. Starts(d, o, Mark(i))
    <3> SUFFICES ASSUME NEW k \in 1..c PROVE d[o + k] = Mark(i)[k]
        BY DEF Starts
    <3> HIDE DEF c, m
    <3>1. k \in 1..(c + m)
        BY <2>1
    <3> QED BY <2>2, <2>3, <3>1
  <2>6. ASSUME NEW k \in 1..m PROVE d[o + c + k] = U(i)[k]
    <3> HIDE DEF c, m
    <3>1. c + k \in 1..(c + m) /\ o + (c + k) = o + c + k
        BY <2>1
    <3> QED BY <2>2, <2>4, <3>1
  <2>7. o + c + m <= Len(d) /\ at[i] = o + c + m
    <3> HIDE DEF c, m
    <3> QED BY <2>1
  <2>8. UnitAt(d, o, Mark(i), U(i))
      BY <2>5, <2>6, <2>7 DEF UnitAt
  <2> QED BY <2>7, <2>8 DEF o
<1>9. \A i \in 1..n : \E code \in {Short, Long} :
          /\ UnitAt(d, at[i - 1], code, U(i))
          /\ at[i] = at[i - 1] + Len(code) + Len(U(i))
    BY <1>4, <1>8
<1> QED BY <1>2, <1>5, <1>6, <1>7, <1>9 DEF n, U

\* What is written for a frame is found again: its NAL units, whole and in order.
LEMMA FoundAgain ==
    ASSUME NEW types \in Seq(DOMAIN Header), NEW raw, Trailed(raw)
    PROVE  Split(encoder_encapsulate_nals(types, raw))
               = [i \in DOMAIN types |-> Unit(types[i], raw)]
<1> DEFINE n == Len(types)
           U(i) == Unit(types[i], raw)
           d == encoder_encapsulate_nals(types, raw)
           Rest(k) == [i \in 1..(n - k) |-> U(i + k)]
<1>1. n \in Nat /\ DOMAIN types = 1..n /\ \A i \in 1..n : NalUnit(U(i))
    BY UnitSound
<1>2. d \in Seq(Byte)
    BY FrameEncoded
<1>3. PICK at \in [0..n -> Nat] :
          /\ at[0] = 0 /\ at[n] = Len(d)
          /\ \A i \in 1..n : \E code \in {Short, Long} :
                /\ UnitAt(d, at[i - 1], code, U(i))
                /\ at[i] = at[i - 1] + Len(code) + Len(U(i))
    BY FrameEncoded
<1>4. PICK From :
          /\ Split(d) = From[0]
          /\ \A o \in 0..Len(d) :
                LET s == o + StartCodeLen(d, o)
                    e == NalEnd(d, s)
                IN  From[o] = IF o >= Len(d) \/ s >= Len(d) THEN <<>>
                              ELSE IF e = s THEN From[e]
                              ELSE <<SubSeq(d, s + 1, e)>> \o From[e]
    BY <1>2, SplitTurns
<1>5. \A k \in 0..n : at[k] \in Nat
    BY <1>3
<1> HIDE DEF n, d, U
<1>6. Len(d) \in Nat
    BY <1>2
\* One turn of the splitter.
<1>7. ASSUME NEW i \in 1..n
      PROVE  From[at[i - 1]] = <<U(i)>> \o From[at[i]]
  <2> DEFINE o == at[i - 1]
             m == Len(U(i))
  <2>1. PICK code \in {Short, Long} :
            UnitAt(d, o, code, U(i)) /\ at[i] = o + Len(code) + m
      BY <1>3
  <2> DEFINE s == o + Len(code)
  <2>2. i - 1 \in 0..n /\ i \in 0..n /\ o \in Nat /\ m \in Nat /\ m >= 1
        /\ NalUnit(U(i))
      BY <1>1, <1>5 DEF NalUnit
  <2>3. StartCodeLen(d, o) = Len(code) /\ s \in Nat /\ s < Len(d)
      BY <1>2, <2>1, <2>2, StartFound
  <2>4. s + m <= Len(d) /\ (\A k \in 1..m : d[s + k] = U(i)[k]) /\ at[i] = s + m
      BY <2>1 DEF UnitAt
  <2>5. at[i] = Len(d) \/ is_start_code(d, at[i])
    <3>1. CASE i = n
        BY <1>3, <3>1
    <3>2. CASE i # n
      <4>1. i + 1 \in 1..n /\ (i + 1) - 1 = i
          BY <1>1, <3>2
      <4>2. PICK c \in {Short, Long} : UnitAt(d, at[i], c, U(i + 1))
          BY <1>3, <4>1
      <4> QED BY <1>1, <1>2, <1>5, <2>2, <4>1, <4>2, StartFound
    <3> QED BY <3>1, <3>2
  <2> HIDE DEF s, m
  <2>6. NalEnd(d, s) = at[i] /\ SubSeq(d, s + 1, at[i]) = U(i)
      BY <1>2, <2>2, <2>3, <2>4, <2>5, UnitCut DEF m
  <2>7. o \in 0..Len(d) /\ ~(o >= Len(d)) /\ ~(s >= Len(d)) /\ at[i] # s
    <3>1. Len(code) \in Nat
        BY DEF Short, Long
    <3> QED BY SMTT(30), <1>6, <2>2, <2>3, <2>4, <3>1 DEF s
  <2>8. o + StartCodeLen(d, o) = s
      BY <2>3 DEF s
  <2> HIDE DEF o
  <2> QED BY <1>4, <2>6, <2>7, <2>8 DEF o
<1> DEFINE T == {k \in Nat : k <= n => From[at[n - k]] = Rest(n - k)}
<1>8. 0 \in T
  <2>1. From[Len(d)] = <<>>
    <3>1. Len(d) \in 0..Len(d) /\ Len(d) >= Len(d)
        BY <1>6
    <3> QED BY <1>4, <3>1
  <2>2. Rest(n) = <<>>
      BY <1>1
  <2>3. n - 0 = n /\ at[n] = Len(d)
      BY <1>1, <1>3
  <2> HIDE DEF Rest
  <2> QED BY <2>1, <2>2, <2>3
<1>9. ASSUME NEW k \in Nat, k \in T PROVE k + 1 \in T
  <2> SUFFICES ASSUME k + 1 <= n
               PROVE  From[at[n - (k + 1)]] = Rest(n - (k + 1))
      OBVIOUS
  <2> DEFINE i == n - k
             a == <<U(i)>>
             b == Rest(i)
             c == Rest(i - 1)
  <2>1. i \in 1..n /\ n - (k + 1) = i - 1 /\ k <= n /\ i \in Nat
      BY <1>1
  <2>2. From[at[i]] = b
      BY <1>9, <2>1
  <2>3. From[at[i - 1]] = a \o b
      BY <1>7, <2>1, <2>2
  <2>4. a \o b = c
    <3> DEFINE W == Seq(Byte)
    <3>1. \A j \in 1..n : U(j) \in W
        BY <1>1 DEF NalUnit
    <3> HIDE DEF W, i
    <3>2. /\ b \in Seq(W) /\ Len(b) = n - i
          /\ \A j \in 1..(n - i) : b[j] = U(j + i)
      <4>1. \A j \in 1..(n - i) : j + i \in 1..n
          BY <1>1, <2>1
      <4>2. n - i \in Nat
          BY <1>1, <2>1
      <4> QED BY <3>1, <4>1, <4>2
    <3>3. /\ c \in Seq(W) /\ Len(c) = n - i + 1
          /\ \A j \in 1..(n - i + 1) : c[j] = U(j + (i - 1))
      <4>1. \A j \in 1..(n - i + 1) : j + (i - 1) \in 1..n
          BY <1>1, <2>1
      <4>2. n - (i - 1) = n - i + 1 /\ n - i + 1 \in Nat
          BY <1>1, <2>1
      <4> QED BY <3>1, <4>1, <4>2
    <3>4. a \in Seq(W) /\ Len(a) = 1 /\ a[1] = U(i)
        BY <2>1, <3>1
    <3> HIDE DEF a, b, c
    <3>5. /\ a \o b \in Seq(W) /\ Len(a \o b) = Len(a) + Len(b)
          /\ \A j \in 1..Len(a) : (a \o b)[j] = a[j]
          /\ \A j \in (Len(a) + 1)..(Len(a) + Len(b)) :
                (a \o b)[j] = b[j - Len(a)]
        BY <3>2, <3>4, JoinFacts
    <3>6. Len(a \o b) = Len(c)
        BY <1>1, <2>1, <3>2, <3>3, <3>4, <3>5
    <3>7. ASSUME NEW j \in 1..Len(a \o b) PROVE (a \o b)[j] = c[j]
      <4>1. j \in 1..(n - i + 1)
          BY <3>3, <3>6
      <4>2. CASE j = 1
        <5>1. j + (i - 1) = i /\ j \in 1..Len(a)
            BY <2>1, <3>4, <4>2
        <5> QED BY <3>3, <3>4, <3>5, <4>1, <4>2, <5>1
      <4>3. CASE j # 1
        <5>1. /\ j \in (Len(a) + 1)..(Len(a) + Len(b)) /\ j - Len(a) = j - 1
              /\ j - 1 \in 1..(n - i) /\ (j - 1) + i = j + (i - 1)
          <6>1. n \in Nat /\ i \in 1..n /\ Len(a) = 1 /\ Len(b) = n - i
              BY <1>1, <2>1, <3>2, <3>4
          <6> QED BY <4>1, <4>3, <6>1
        <5> QED BY <3>2, <3>3, <3>5, <4>1, <5>1
      <4> QED BY <4>2, <4>3
    <3> QED BY <3>3, <3>5, <3>6, <3>7, SameSeq
  <2> QED BY <2>1, <2>3, <2>4
<1>10. n \in T
  <2> HIDE DEF T
  <2> QED BY <1>1, <1>8, <1>9, CountingUp
<1>11. n <= n /\ n - n = 0
    BY <1>1
<1>12. From[at[0]] = Rest(0)
    BY <1>10, <1>11
<1>13. Rest(0) = [i \in 1..n |-> U(i)]
  <2>1. n - 0 = n /\ \A i \in 1..n : i + 0 = i
      BY <1>1
  <2> QED BY <2>1
<1>14. Split(d) = [i \in 1..n |-> U(i)]
    BY <1>3, <1>4, <1>12, <1>13
<1> QED BY <1>1, <1>14 DEF d, U

(***************************************************************************)
(* The threads: the inductive invariant.                                   *)
(***************************************************************************)

Busy(w) == worker[w].at \in {"code", "filter", "first", "push"}

\* Where the job of slice s is: in the list run, with a thread, in the list done.
Queued(s)   == \E i \in DOMAIN pool.run : pool.run[i] = s
Held(s)     == \E w \in Slices : Busy(w) /\ worker[w].slice = s
Finished(s) == \E job \in pool.done : job.slice = s
Located(s)  == Queued(s) \/ Held(s) \/ Finished(s)

Typed ==
    /\ main \in {"idle", "reap", "setup", "dispatch", "await", "return",
                 "close", "exit", "join", "closed"}
    /\ next \in Slices /\ frame \in Nat /\ whole \in BOOLEAN
    /\ context \in [Slices -> [active : BOOLEAN, pass : Nat, fdec : Nat,
                               out : Nat, final : Nat]]
    /\ pool \in [uninit : Nat, run : Seq(Slices),
                 done : SUBSET [slice : Slices, failed : BOOLEAN],
                 exit : BOOLEAN]
    /\ worker \in [Slices ->
                      [at : {"fetch", "code", "filter", "first", "push", "ended"},
                       slice : 0..Threads, failed : BOOLEAN]]
    /\ \A w \in Slices : Busy(w) => worker[w].slice \in Slices

\* A slice has at most one job, and at most one thread or list has it.
OneJob ==
    /\ \A i, j \in DOMAIN pool.run : pool.run[i] = pool.run[j] => i = j
    /\ \A v, w \in Slices :
          Busy(v) /\ Busy(w) /\ worker[v].slice = worker[w].slice => v = w
    /\ \A j, k \in pool.done : j.slice = k.slice => j = k
    /\ \A s \in Slices : /\ ~(Queued(s) /\ Held(s))
                         /\ ~(Queued(s) /\ Finished(s))
                         /\ ~(Held(s) /\ Finished(s))

\* The slices that are active are those with a job, once they are dispatched.
ActiveInv ==
    /\ \A s \in Slices : Located(s) => context[s].active
    /\ \A s \in Slices :
          context[s].active /\ (main = "dispatch" => s < next) => Located(s)
    /\ main = "dispatch" => \A s \in Slices : s >= next => ~Located(s)
    /\ main = "setup" => \A s \in Slices : ~context[s].active
    /\ main \in {"dispatch", "await", "return"} \/ (main = "idle" /\ frame > 0)
          => \A s \in Slices : context[s].active

\* How far the job of a slice is, and what it has left in the context.
Untouched(s) == context[s].pass = 0 /\ context[s].out = 0
Coded1(s, failed) ==
    /\ context[s].pass \in {1, 2}
    /\ context[s].out = IF failed THEN 0 ELSE context[s].fdec
ProgressInv ==
    /\ \A s \in Slices : Queued(s) => Untouched(s)
    /\ main = "dispatch" => \A s \in Slices : s >= next => Untouched(s)
    /\ \A w \in Slices :
          LET s == worker[w].slice
          IN  /\ worker[w].at = "code" => Untouched(s)
              /\ worker[w].at \in {"filter", "first", "push"}
                    => Coded1(s, worker[w].failed)
              /\ worker[w].at = "push" /\ ~worker[w].failed
                    => context[s].final = context[s].fdec
              /\ worker[w].at # "push" => ~worker[w].failed
    /\ \A job \in pool.done :
          /\ Coded1(job.slice, job.failed)
          /\ ~job.failed => context[job.slice].final = context[job.slice].fdec

\* Which frame the contexts work on, and which is filtered.
FrameInv ==
    /\ \A s, t \in Slices : context[s].fdec = context[t].fdec
    /\ main \in {"reap", "setup"} => \A s \in Slices : context[s].fdec + 1 = frame
    /\ main \in {"dispatch", "await", "return", "idle"}
          => \A s \in Slices : context[s].fdec = frame
    /\ main \in {"dispatch", "await", "return"} => frame > 0
    /\ \A s \in Slices : context[s].final + 1 >= context[s].fdec
    /\ main \in {"idle", "reap", "setup"} => \A s \in Slices :
          ~context[s].active => context[s].final = context[s].fdec

\* What main waits for before it returns, and what it returns.
ReturnInv ==
    /\ main = "await" => \A s \in Slices : s < next => context[s].pass > 0
    /\ main \in {"return", "idle", "reap"} => \A s \in Slices :
          context[s].active => context[s].pass > 0
    /\ main \in {"idle", "reap"} => (whole <=> FailedSlices = {})
    /\ main \in {"setup", "dispatch", "await", "return"} => whole
    /\ WholeFrame

SlicesInv ==
    Typed /\ OneJob /\ ActiveInv /\ ProgressInv /\ FrameInv /\ ReturnInv
-----------------------------------------------------------------------------
LEMMA SlicesNumbered ==
    /\ Threads \in Nat /\ Threads >= 2 /\ 1 \in Slices /\ Threads \in Slices
    /\ Slices \subseteq Nat \ {0}
BY SliceThreadsAssumption DEF Slices

LEMMA SlicesInit == Init => SlicesInv
<1> SUFFICES ASSUME Init PROVE SlicesInv
    OBVIOUS
<1> USE SlicesNumbered
<1>1. /\ \A s \in Slices : ~Queued(s) /\ ~Finished(s) /\ ~Held(s)
      /\ \A w \in Slices : ~Busy(w)
      /\ FailedSlices = {}
    BY DEF Init, Queued, Finished, Held, Busy, FailedSlices
<1>2. Typed
  <2>1. /\ context \in [Slices -> [active : BOOLEAN, pass : Nat, fdec : Nat,
                               out : Nat, final : Nat]]
        /\ worker \in [Slices ->
                      [at : {"fetch", "code", "filter", "first", "push", "ended"},
                       slice : 0..Threads, failed : BOOLEAN]]
      BY DEF Init
  <2>2. pool \in [uninit : Nat, run : Seq(Slices),
                  done : SUBSET [slice : Slices, failed : BOOLEAN],
                  exit : BOOLEAN]
    <3>1. <<>> \in Seq(Slices)
        OBVIOUS
    <3>2. {} \in SUBSET [slice : Slices, failed : BOOLEAN]
        OBVIOUS
    <3> QED BY <3>1, <3>2 DEF Init
  <2> QED BY <1>1, <2>1, <2>2 DEF Init, Typed
<1>3. OneJob
    BY <1>1 DEF Init, OneJob
<1>4. ActiveInv
    BY <1>1 DEF Init, ActiveInv, Located
<1>5. ProgressInv
    BY <1>1 DEF Init, ProgressInv
<1>6. FrameInv
    BY DEF Init, FrameInv
<1>7. ReturnInv
    BY <1>1 DEF Init, ReturnInv, WholeFrame
<1> QED BY <1>2, <1>3, <1>4, <1>5, <1>6, <1>7 DEF SlicesInv

\* Slices in their order are a sequence of those slices.
LEMMA OrderedSlices ==
    ASSUME NEW some \in SUBSET Slices
    PROVE  InOrder(some) \in Seq(some)
<1> DEFINE Step(g, n) == IF n = 0 THEN <<>>
                         ELSE IF n \in some THEN Append(g[n - 1], n) ELSE g[n - 1]
           Made(g, k) == /\ g \in [0..k -> Seq(some)]
                         /\ \A n \in 0..k : g[n] = Step(g, n)
           T == {k \in Nat : \E g : Made(g, k)}
<1>1. 0 \in T
  <2> DEFINE g == [n \in 0..0 |-> <<>>]
  <2>1. Made(g, 0)
      OBVIOUS
  <2> QED BY <2>1
<1>2. ASSUME NEW k \in T PROVE k + 1 \in T
  <2>1. PICK g : Made(g, k)
      OBVIOUS
  <2> DEFINE next1 == IF k + 1 \in some THEN Append(g[k], k + 1) ELSE g[k]
             h == [n \in 0..(k + 1) |-> IF n = k + 1 THEN next1 ELSE g[n]]
  <2>2. k \in Nat /\ g[k] \in Seq(some)
      BY <2>1
  <2>3. next1 \in Seq(some)
      BY <2>2
  <2>4. h \in [0..(k + 1) -> Seq(some)]
      BY <2>1, <2>2, <2>3
  <2>5. \A n \in 0..(k + 1) : h[n] = Step(h, n)
    <3> SUFFICES ASSUME NEW n \in 0..(k + 1) PROVE h[n] = Step(h, n)
        OBVIOUS
    <3> HIDE DEF next1
    <3>1. \A m \in 0..k : h[m] = g[m] /\ g[m] = Step(g, m)
      <4>1. \A m \in 0..k : m \in 0..(k + 1) /\ m # k + 1
          BY <2>2
      <4>2. \A m \in 0..k : g[m] = Step(g, m)
          BY <2>1
      <4> HIDE DEF Step
      <4> QED BY <4>1, <4>2
    <3>2. h[k + 1] = next1
        BY <2>2
    <3> HIDE DEF h
    <3>3. CASE n = 0
        BY <2>2, <3>1, <3>3
    <3>4. CASE n \in 1..k
      <4>1. n \in 0..k /\ n - 1 \in 0..k /\ n # 0
          BY <2>2, <3>4
      <4> QED BY <3>1, <4>1
    <3>5. CASE n = k + 1
      <4>1. n # 0 /\ n - 1 = k /\ k \in 0..k
          BY <2>2, <3>5
      <4> QED BY <3>1, <3>2, <3>5, <4>1 DEF next1
    <3> QED BY <2>2, <3>3, <3>4, <3>5
  <2> HIDE DEF h, next1, Step
  <2>6. Made(h, k + 1) /\ k + 1 \in Nat
      BY <2>2, <2>4, <2>5
  <2> HIDE DEF Made
  <2> QED BY <2>6
<1>3. Threads \in T
  <2> HIDE DEF T
  <2> QED BY <1>1, <1>2, SlicesNumbered, CountingUp
<1>4. PICK g : Made(g, Threads)
    BY <1>3
<1> DEFINE F == CHOOSE f : f = [n \in 0..Threads |-> Step(f, n)]
<1>5. g = [n \in 0..Threads |-> Step(g, n)]
    BY <1>4
<1>6. F = [n \in 0..Threads |-> Step(F, n)]
    BY <1>5
<1> DEFINE U == {n \in Nat : n <= Threads => F[n] \in Seq(some)}
<1> HIDE DEF F
<1>7. 0 \in U
    BY <1>6, SlicesNumbered
<1>8. ASSUME NEW n \in Nat, n \in U PROVE n + 1 \in U
  <2> SUFFICES ASSUME n + 1 <= Threads PROVE F[n + 1] \in Seq(some)
      OBVIOUS
  <2>1. n + 1 \in 0..Threads /\ n + 1 # 0 /\ (n + 1) - 1 = n /\ n <= Threads
      BY SlicesNumbered
  <2>2. F[n + 1] = IF n + 1 \in some THEN Append(F[n], n + 1) ELSE F[n]
      BY <1>6, <2>1
  <2>3. F[n] \in Seq(some)
      BY <1>8, <2>1
  <2> QED BY <2>2, <2>3
<1>9. Threads \in U
  <2> HIDE DEF U
  <2> QED BY <1>7, <1>8, SlicesNumbered, CountingUp
<1>10. F[Threads] \in Seq(some)
    BY <1>9
<1>11. InOrder(some) = F[Threads]
    BY DEF InOrder, F
<1> QED BY <1>10, <1>11

LEMMA FailedAreSlices == SlicesInv => FailedSlices \subseteq Slices
<1> SUFFICES ASSUME SlicesInv, NEW s \in FailedSlices PROVE s \in Slices
    OBVIOUS
<1>1. CASE \E job \in pool.done : job.slice = s
    BY <1>1 DEF SlicesInv, Typed
<1>2. CASE \E w \in Slices : worker[w].failed /\ worker[w].slice = s
    BY <1>2 DEF SlicesInv, Typed, ProgressInv, Busy
<1> QED BY <1>1, <1>2 DEF FailedSlices

(***************************************************************************)
(* The steps of the caller that leave every job where it is.               *)
(***************************************************************************)

JobsStay == worker' = worker /\ pool'.run = pool.run /\ pool'.done = pool.done

LEMMA StayingJobs ==
    ASSUME JobsStay
    PROVE  /\ \A s : Queued(s)' <=> Queued(s)
           /\ \A s : Held(s)' <=> Held(s)
           /\ \A s : Finished(s)' <=> Finished(s)
           /\ \A s : Located(s)' <=> Located(s)
           /\ \A w : Busy(w)' <=> Busy(w)
           /\ FailedSlices' = FailedSlices
           /\ OneJob => OneJob'
BY DEF JobsStay, Queued, Held, Finished, Located, Busy, FailedSlices, OneJob

\* The next call begins while threads may still be filtering.
LEMMA EncodeFrameKeeps == SlicesInv /\ EncodeFrame => SlicesInv'
<1> SUFFICES ASSUME SlicesInv, EncodeFrame PROVE SlicesInv'
    OBVIOUS
<1>1. JobsStay /\ context' = context /\ frame' = frame + 1 /\ main' = "reap"
    BY DEF EncodeFrame, codecVars, JobsStay
<1>2. Typed'
    BY DEF SlicesInv, Typed, EncodeFrame, codecVars, Busy
<1>3. OneJob'
    BY <1>1, StayingJobs DEF SlicesInv
<1>4. ActiveInv'
    BY <1>1, StayingJobs DEF SlicesInv, ActiveInv, EncodeFrame
<1>5. ProgressInv'
    BY <1>1, StayingJobs
       DEF SlicesInv, ProgressInv, EncodeFrame, JobsStay, Untouched, Coded1
<1>6. FrameInv'
    BY <1>1 DEF SlicesInv, FrameInv, EncodeFrame, Typed
<1>7. ReturnInv'
    BY <1>1, StayingJobs DEF SlicesInv, ReturnInv, EncodeFrame, WholeFrame
<1> QED BY <1>2, <1>3, <1>4, <1>5, <1>6, <1>7 DEF SlicesInv

\* Closing, and a call that has failed: only the jobs and the contexts matter.
Closing == main \in {"close", "exit", "join", "closed"}

LEMMA ClosingKeeps ==
    ASSUME SlicesInv, JobsStay, context' = context, frame' = frame,
           main # "dispatch", Closing', Typed'
    PROVE  SlicesInv'
<1>1. OneJob'
    BY StayingJobs DEF SlicesInv
<1>2. ActiveInv'
    BY StayingJobs DEF SlicesInv, ActiveInv, Closing
<1>3. ProgressInv'
    BY StayingJobs DEF SlicesInv, ProgressInv, JobsStay, Untouched, Coded1, Closing
<1>4. FrameInv'
    BY DEF SlicesInv, FrameInv, Closing
<1>5. ReturnInv'
    BY DEF SlicesInv, ReturnInv, Closing, WholeFrame
<1> QED BY <1>1, <1>2, <1>3, <1>4, <1>5 DEF SlicesInv

LEMMA ShutdownKeeps == SlicesInv /\ Shutdown => SlicesInv'
<1> SUFFICES ASSUME SlicesInv, Shutdown PROVE SlicesInv'
    OBVIOUS
<1>1. /\ JobsStay /\ context' = context /\ frame' = frame
      /\ main # "dispatch" /\ Closing'
    BY DEF Shutdown, codecVars, JobsStay, Closing
<1>2. Typed'
    BY DEF SlicesInv, Typed, Shutdown, codecVars, streamVars, Busy
<1> QED BY <1>1, <1>2, ClosingKeeps

LEMMA ExitKeeps == SlicesInv /\ Exit => SlicesInv'
<1> SUFFICES ASSUME SlicesInv, Exit PROVE SlicesInv'
    OBVIOUS
<1>1. pool' = [pool EXCEPT !.exit = TRUE]
    BY DEF Exit
<1>2. pool'.run = pool.run /\ pool'.done = pool.done
    BY <1>1 DEF SlicesInv, Typed
<1>3. /\ JobsStay /\ context' = context /\ frame' = frame
      /\ main # "dispatch" /\ Closing'
    BY <1>2 DEF Exit, JobsStay, Closing
<1>4. Typed'
  <2>1. pool' \in [uninit : Nat, run : Seq(Slices),
                   done : SUBSET [slice : Slices, failed : BOOLEAN],
                   exit : BOOLEAN]
      BY <1>1 DEF SlicesInv, Typed
  <2> QED BY <2>1 DEF SlicesInv, Typed, Exit, streamVars, Busy
<1> QED BY <1>3, <1>4, ClosingKeeps

LEMMA JoinKeeps == SlicesInv /\ Join => SlicesInv'
<1> SUFFICES ASSUME SlicesInv, Join PROVE SlicesInv'
    OBVIOUS
<1>1. /\ JobsStay /\ context' = context /\ frame' = frame
      /\ main # "dispatch" /\ Closing'
    BY DEF Join, codecVars, JobsStay, Closing
<1>2. Typed'
    BY DEF SlicesInv, Typed, Join, codecVars, streamVars, Busy
<1> QED BY <1>1, <1>2, ClosingKeeps

\* Nothing is left of the frame before: it is whole, and filtered.
LEMMA AllReapedKeeps == SlicesInv /\ AllReaped => SlicesInv'
<1> SUFFICES ASSUME SlicesInv, AllReaped PROVE SlicesInv'
    OBVIOUS
<1>1. /\ JobsStay /\ context' = context /\ frame' = frame
      /\ main # "dispatch"
    BY DEF AllReaped, codecVars, JobsStay
<1>2. Typed'
    BY DEF SlicesInv, Typed, AllReaped, codecVars, streamVars, Busy
<1>3. CASE main = "close"
  <2>1. Closing'
      BY <1>3 DEF AllReaped, Closing
  <2> QED BY <1>1, <1>2, <2>1, ClosingKeeps
<1>4. CASE main = "reap"
  <2>1. main' = "setup" /\ next' = next /\ whole' = whole
      BY <1>4 DEF AllReaped, streamVars
  <2>2. \A s \in Slices : ~context[s].active /\ ~Located(s)
    <3>1. \A s \in Slices : ~context[s].active
        BY DEF AllReaped, Pending
    <3> QED BY <3>1 DEF SlicesInv, ActiveInv
  <2>3. FailedSlices = {}
    <3>1. \A job \in pool.done : FALSE
        BY <2>2 DEF SlicesInv, Typed, Located, Finished
    <3>2. \A w \in Slices : ~worker[w].failed
      <4> SUFFICES ASSUME NEW w \in Slices, worker[w].failed
                   PROVE  FALSE
          OBVIOUS
      <4>1. worker[w].at = "push"
          BY DEF SlicesInv, ProgressInv
      <4>2. Busy(w) /\ worker[w].slice \in Slices
          BY <4>1 DEF SlicesInv, Typed, Busy
      <4> QED BY <2>2, <4>2 DEF Located, Held
    <3> QED BY <3>1, <3>2 DEF FailedSlices
  <2>4. OneJob'
      BY <1>1, StayingJobs DEF SlicesInv
  <2>5. ActiveInv'
      BY <1>1, <2>1, <2>2, StayingJobs DEF SlicesInv, ActiveInv
  <2>6. ProgressInv'
      BY <1>1, <2>1, StayingJobs
         DEF SlicesInv, ProgressInv, JobsStay, Untouched, Coded1
  <2>7. FrameInv'
      BY <1>1, <1>4, <2>1 DEF SlicesInv, FrameInv
  <2>8. ReturnInv'
      BY <1>1, <1>4, <2>1, <2>3, StayingJobs
         DEF SlicesInv, ReturnInv, WholeFrame
  <2> QED BY <1>2, <2>4, <2>5, <2>6, <2>7, <2>8 DEF SlicesInv
<1> QED BY <1>3, <1>4 DEF AllReaped

\* Every context is set up for the frame, once no thread works on any.
LEMMA SetupKeeps == SlicesInv /\ Setup => SlicesInv'
<1> SUFFICES ASSUME SlicesInv, Setup PROVE SlicesInv'
    OBVIOUS
<1>1. /\ JobsStay /\ frame' = frame /\ main = "setup" /\ main' = "dispatch"
      /\ next' = 1 /\ whole' = whole
    BY DEF Setup, streamVars, JobsStay
<1> DEFINE Contexts == [Slices -> [active : BOOLEAN, pass : Nat, fdec : Nat,
                                   out : Nat, final : Nat]]
<1>0. /\ context \in Contexts /\ frame \in Nat
      /\ context' = [s \in Slices |->
                        [context[s] EXCEPT !.active = TRUE, !.pass = 0,
                                           !.fdec = frame, !.out = 0]]
    BY DEF SlicesInv, Typed, Setup
<1>2. \A s \in Slices :
          /\ context'[s].active = TRUE /\ context'[s].pass = 0
          /\ context'[s].fdec = frame /\ context'[s].out = 0
          /\ context'[s].final = context[s].final
    BY <1>0
<1>3. \A s \in Slices : ~context[s].active /\ ~Located(s) /\ ~Located(s)'
    BY <1>1, StayingJobs DEF SlicesInv, ActiveInv
<1>4. Typed'
  <2>1. context' \in Contexts
      BY <1>0
  <2>2. pool' = pool /\ worker' = worker /\ 1 \in Slices
      BY SlicesNumbered DEF Setup
  <2>3. \A w \in Slices : Busy(w)' => worker'[w].slice \in Slices
      BY <2>2 DEF SlicesInv, Typed, Busy
  <2> QED BY <1>1, <2>1, <2>2, <2>3 DEF SlicesInv, Typed
<1>5. OneJob'
    BY <1>1, StayingJobs DEF SlicesInv
<1>6. ActiveInv'
  <2>1. \A s \in Slices : ~(s < 1)
      BY SlicesNumbered
  <2> QED BY <1>1, <1>2, <1>3, <2>1 DEF ActiveInv
<1>7. ProgressInv'
  <2>1. \A s \in Slices : Queued(s)' => Untouched(s)'
      BY <1>3 DEF Located
  <2>2. \A s \in Slices : Untouched(s)'
      BY <1>2 DEF Untouched
  <2>3. \A w \in Slices : ~Busy(w) /\ ~worker[w].failed
    <3>1. \A w \in Slices : ~Busy(w)
        BY <1>3 DEF SlicesInv, Typed, Located, Held
    <3> QED BY <3>1 DEF SlicesInv, ProgressInv, Busy
  <2>4. \A job \in pool.done : FALSE
      BY <1>3 DEF SlicesInv, Typed, Located, Finished
  <2> QED BY <1>1, <2>1, <2>2, <2>3, <2>4 DEF ProgressInv, JobsStay, Busy
<1>8. FrameInv'
  <2>1. \A s \in Slices : context[s].final + 1 = frame
      BY <1>1, <1>3 DEF SlicesInv, FrameInv
  <2>2. frame > 0
    <3>1. context[1].final \in Nat /\ context[1].final + 1 = frame
        BY <2>1, SlicesNumbered DEF SlicesInv, Typed
    <3> QED BY <3>1
  <2>3. \A s \in Slices : context'[s].final + 1 >= context'[s].fdec
      BY SMTT(30), <1>2, <2>1 DEF SlicesInv, Typed
  <2> QED BY <1>1, <1>2, <2>2, <2>3 DEF FrameInv
<1>9. ReturnInv'
    BY <1>1 DEF SlicesInv, ReturnInv, WholeFrame
<1> QED BY <1>4, <1>5, <1>6, <1>7, <1>8, <1>9 DEF SlicesInv

LEMMA AwaitKeeps == SlicesInv /\ Await => SlicesInv'
<1> SUFFICES ASSUME SlicesInv, Await PROVE SlicesInv'
    OBVIOUS
<1> USE SlicesNumbered
<1>1. /\ JobsStay /\ frame' = frame /\ context' = context /\ whole' = whole
      /\ main = "await" /\ next \in Slices
    BY DEF SlicesInv, Typed, Await, streamVars, JobsStay
<1>2. \/ main' = "await" /\ next' = next
      \/ main' = "await" /\ next < Threads /\ next' = next + 1 /\ Coded(next)
      \/ main' = "return" /\ ~(next < Threads) /\ next' = next /\ Coded(next)
    BY <1>1 DEF Await
<1>3. Typed'
  <2>1. next' \in Slices
      BY <1>1, <1>2 DEF Slices
  <2> QED BY <1>1, <1>2, <2>1 DEF SlicesInv, Typed, Await, streamVars, Busy
<1>4. OneJob'
    BY <1>1, StayingJobs DEF SlicesInv
<1>5. ActiveInv'
    BY <1>1, <1>2, StayingJobs DEF SlicesInv, ActiveInv
<1>6. ProgressInv'
    BY <1>1, <1>2, StayingJobs
       DEF SlicesInv, ProgressInv, JobsStay, Untouched, Coded1
<1>7. FrameInv'
    BY <1>1, <1>2 DEF SlicesInv, FrameInv
<1>8. ReturnInv'
  <2>1. \A s \in Slices : s < next => context[s].pass > 0
      BY <1>1 DEF SlicesInv, ReturnInv
  <2>2. Coded(next) => context[next].pass > 0
    <3>1. context[next].pass \in Nat
        BY <1>1 DEF SlicesInv, Typed
    <3> QED BY <3>1 DEF Coded
  <2>3. \A s \in Slices : s < next' => context[s].pass > 0
    <3>1. \A s \in Slices : next' = next + 1 /\ s < next' => s < next \/ s = next
        BY <1>1
    <3> QED BY <1>2, <2>1, <2>2, <3>1
  <2>4. main' = "return" => \A s \in Slices : context[s].pass > 0
    <3>1. \A s \in Slices : ~(next < Threads) => s < next \/ s = next
        BY <1>1 DEF Slices
    <3> QED BY <1>2, <2>1, <2>2, <3>1
  <2> QED BY <1>1, <1>2, <2>3, <2>4 DEF SlicesInv, ReturnInv, WholeFrame
<1> QED BY <1>3, <1>4, <1>5, <1>6, <1>7, <1>8 DEF SlicesInv

\* The contexts hold the NAL units of the slices that did not fail.
LEMMA ReturnKeeps == SlicesInv /\ Return => SlicesInv'
<1> SUFFICES ASSUME SlicesInv, Return PROVE SlicesInv'
    OBVIOUS
<1>1. /\ JobsStay /\ frame' = frame /\ context' = context /\ next' = next
      /\ main = "return" /\ main' = "idle" /\ frame > 0
    BY DEF SlicesInv, FrameInv, Return, codecVars, JobsStay
<1>2. whole' = (\A s \in Slices : context[s].out # 0)
    BY DEF Return
<1>3. Typed'
  <2>1. whole' \in BOOLEAN
      BY <1>2
  <2> QED BY <1>1, <2>1 DEF SlicesInv, Typed, Return, codecVars, Busy
<1>4. OneJob'
    BY <1>1, StayingJobs DEF SlicesInv
<1>5. ActiveInv'
    BY <1>1, StayingJobs DEF SlicesInv, ActiveInv
<1>6. ProgressInv'
    BY <1>1, StayingJobs
       DEF SlicesInv, ProgressInv, JobsStay, Untouched, Coded1
<1>7. FrameInv'
    BY <1>1 DEF SlicesInv, FrameInv, ActiveInv
<1>8. \A s \in Slices : /\ context[s].active /\ context[s].pass > 0
                        /\ context[s].fdec = frame /\ Located(s)
    BY <1>1 DEF SlicesInv, ActiveInv, FrameInv, ReturnInv
<1>9. \A s \in Slices : s \in FailedSlices <=> context[s].out = 0
  <2> SUFFICES ASSUME NEW s \in Slices
               PROVE  s \in FailedSlices <=> context[s].out = 0
      OBVIOUS
  <2>1. ASSUME s \in FailedSlices PROVE context[s].out = 0
    <3>1. CASE \E job \in pool.done : job.failed /\ job.slice = s
        BY <3>1 DEF SlicesInv, ProgressInv, Coded1
    <3>2. CASE \E w \in Slices : worker[w].failed /\ worker[w].slice = s
      <4>1. PICK w \in Slices : worker[w].failed /\ worker[w].slice = s
          BY <3>2
      <4>2. worker[w].at = "push"
          BY <4>1 DEF SlicesInv, ProgressInv
      <4> QED BY <4>1, <4>2 DEF SlicesInv, ProgressInv, Coded1
    <3> QED BY <2>1, <3>1, <3>2 DEF FailedSlices
  <2>2. ASSUME context[s].out = 0 PROVE s \in FailedSlices
    <3>1. context[s].fdec # 0 /\ ~Untouched(s)
        BY <1>1, <1>8 DEF Untouched, SlicesInv, Typed
    <3>2. CASE Queued(s)
        BY <3>1, <3>2 DEF SlicesInv, ProgressInv
    <3>3. CASE Held(s)
      <4>1. PICK w \in Slices : Busy(w) /\ worker[w].slice = s
          BY <3>3 DEF Held
      <4>2. worker[w].at \in {"filter", "first", "push"}
          BY <3>1, <4>1 DEF SlicesInv, ProgressInv, Busy
      <4>3. Coded1(s, worker[w].failed)
          BY <4>1, <4>2 DEF SlicesInv, ProgressInv
      <4>4. worker[w].failed
          BY <2>2, <3>1, <4>3 DEF Coded1
      <4> QED BY <4>1, <4>4 DEF FailedSlices
    <3>4. CASE Finished(s)
      <4>1. PICK job \in pool.done : job.slice = s
          BY <3>4 DEF Finished
      <4>2. Coded1(s, job.failed)
          BY <4>1 DEF SlicesInv, ProgressInv
      <4>3. job.failed
          BY <2>2, <3>1, <4>2 DEF Coded1
      <4> QED BY <4>1, <4>3 DEF FailedSlices
    <3> QED BY <1>8, <3>2, <3>3, <3>4 DEF Located
  <2> QED BY <2>1, <2>2
<1>10. whole' <=> FailedSlices = {}
  <2>1. \A s \in FailedSlices : s \in Slices
      BY FailedAreSlices
  <2> QED BY <1>2, <1>9, <2>1
<1>11. WholeFrame'
  <2> DEFINE coded == InOrder({s \in Slices : context[s].out # 0})
  <2>1. {s \in Slices : context[s].out # 0} = Slices \ FailedSlices
      BY <1>9
  <2>2. coded \in Seq({s \in Slices : context[s].out # 0})
      BY OrderedSlices
  <2>3. units' = Leading \o [i \in DOMAIN coded |->
                     [frame |-> context[coded[i]].out, slice |-> coded[i]]]
      BY DEF Return
  <2>4. \A i \in DOMAIN coded : context[coded[i]].out = frame
    <3> SUFFICES ASSUME NEW i \in DOMAIN coded
                 PROVE  context[coded[i]].out = frame
        OBVIOUS
    <3>1. coded[i] \in Slices /\ context[coded[i]].out # 0
        BY <2>2
    <3>2. PICK s \in Slices : s = coded[i]
        BY <3>1
    <3>3. context[s].out \in {0, context[s].fdec}
        BY <1>8, <3>2 DEF SlicesInv, ProgressInv, Untouched, Coded1, Located,
                          Queued, Held, Finished, Busy
    <3> QED BY <1>8, <3>1, <3>2, <3>3
  <2>5. units' = Leading \o [i \in DOMAIN coded |->
                     [frame |-> frame, slice |-> coded[i]]]
    <3> HIDE DEF coded
    <3>1. [i \in DOMAIN coded |->
              [frame |-> context[coded[i]].out, slice |-> coded[i]]]
          = [i \in DOMAIN coded |-> [frame |-> frame, slice |-> coded[i]]]
        BY <2>4
    <3> QED BY <2>3, <3>1
  <2>6. coded = InOrder(Slices \ FailedSlices)
      BY <2>1
  <2>7. Leading' = Leading /\ FailedSlices' = FailedSlices
      BY <1>1, StayingJobs DEF Leading
  <2>8. InOrder(Slices \ FailedSlices)' = coded
    <3>1. InOrder(Slices \ FailedSlices)' = InOrder(Slices \ FailedSlices')
        BY DEF InOrder, Slices
    <3> QED BY <2>6, <2>7, <3>1
  <2> HIDE DEF coded
  <2> QED BY <1>1, <2>5, <2>7, <2>8 DEF WholeFrame
<1>12. ReturnInv'
    BY <1>1, <1>8, <1>10, <1>11, StayingJobs DEF ReturnInv
<1> QED BY <1>3, <1>4, <1>5, <1>6, <1>7, <1>12 DEF SlicesInv

(***************************************************************************)
(* The steps that move a job.                                              *)
(***************************************************************************)

\* The job that is reaped leaves the list done, and its slice is not active.
LEMMA ReapMoves ==
    ASSUME SlicesInv, NEW job \in pool.done,
           context' = [context EXCEPT ![job.slice].active = FALSE],
           pool' = [pool EXCEPT !.done = @ \ {job}, !.uninit = @ + 1],
           worker' = worker
    PROVE  /\ job.slice \in Slices
           /\ \A t \in Slices :
                  /\ context'[t].active <=> context[t].active /\ t # job.slice
                  /\ context'[t].pass = context[t].pass
                  /\ context'[t].fdec = context[t].fdec
                  /\ context'[t].out = context[t].out
                  /\ context'[t].final = context[t].final
           /\ pool'.run = pool.run /\ pool'.done = pool.done \ {job}
           /\ \A t : Queued(t)' <=> Queued(t)
           /\ \A t : Held(t)' <=> Held(t)
           /\ \A t : Finished(t)' <=> Finished(t) /\ t # job.slice
           /\ \A w : Busy(w)' <=> Busy(w)
           /\ \A t \in Slices : Located(t)' <=> Located(t) /\ t # job.slice
<1> DEFINE s == job.slice
       Contexts == [Slices -> [active : BOOLEAN, pass : Nat, fdec : Nat,
                               out : Nat, final : Nat]]
<1>0. context \in Contexts /\ context' = [context EXCEPT ![s].active = FALSE]
    BY DEF SlicesInv, Typed
<1>1. s \in Slices
    BY DEF SlicesInv, Typed
<1>2. \A t \in Slices :
          /\ context'[t].active <=> context[t].active /\ t # s
          /\ context'[t].pass = context[t].pass
          /\ context'[t].fdec = context[t].fdec
          /\ context'[t].out = context[t].out
          /\ context'[t].final = context[t].final
  <2>1. \A t \in Slices : t # s => context'[t] = context[t]
      BY <1>0
  <2>2. context'[s] = [context[s] EXCEPT !.active = FALSE]
      BY <1>0, <1>1
  <2>3. context[s] \in [active : BOOLEAN, pass : Nat, fdec : Nat,
                        out : Nat, final : Nat]
      BY <1>0, <1>1
  <2> QED BY <2>1, <2>2, <2>3
<1>3. pool'.run = pool.run /\ pool'.done = pool.done \ {job}
    BY DEF SlicesInv, Typed
<1>4. /\ \A t : Queued(t)' <=> Queued(t)
      /\ \A t : Held(t)' <=> Held(t)
      /\ \A t : Finished(t)' <=> Finished(t) /\ t # s
      /\ \A w : Busy(w)' <=> Busy(w)
  <2>1. \A t : Queued(t)' <=> Queued(t)
      BY <1>3 DEF Queued
  <2>2. \A w : Busy(w)' <=> Busy(w)
      BY DEF Busy
  <2>3. \A t : Held(t)' <=> Held(t)
      BY <2>2 DEF Held
  <2>4. \A t : Finished(t)' <=> Finished(t) /\ t # s
      BY <1>3 DEF Finished, SlicesInv, OneJob
  <2> QED BY <2>1, <2>2, <2>3, <2>4
<1>5. \A t \in Slices : Located(t)' <=> Located(t) /\ t # s
    BY <1>1, <1>4 DEF Located, SlicesInv, OneJob, Finished
<1> QED BY <1>1, <1>2, <1>3, <1>4, <1>5

\* main reaps the finished job it waits for.
LEMMA ReapKeeps ==
    ASSUME SlicesInv, main \in {"reap", "close"}, NEW job \in pool.done,
           context' = [context EXCEPT ![job.slice].active = FALSE],
           pool' = [pool EXCEPT !.done = @ \ {job}, !.uninit = @ + 1],
           main' = IF ~job.failed THEN main
                   ELSE IF main = "reap" THEN "close" ELSE "exit",
           next' = next, frame' = frame, worker' = worker, whole' = whole
    PROVE  SlicesInv'
<1> DEFINE s == job.slice
       Contexts == [Slices -> [active : BOOLEAN, pass : Nat, fdec : Nat,
                               out : Nat, final : Nat]]
<1>0. context \in Contexts /\ context' = [context EXCEPT ![s].active = FALSE]
    BY DEF SlicesInv, Typed
<1>1. s \in Slices
    BY ReapMoves
<1>2. \A t \in Slices :
          /\ context'[t].active <=> context[t].active /\ t # s
          /\ context'[t].pass = context[t].pass
          /\ context'[t].fdec = context[t].fdec
          /\ context'[t].out = context[t].out
          /\ context'[t].final = context[t].final
    BY ReapMoves
<1>3. pool'.run = pool.run /\ pool'.done = pool.done \ {job}
    BY ReapMoves
<1>4. /\ \A t : Queued(t)' <=> Queued(t)
      /\ \A t : Held(t)' <=> Held(t)
      /\ \A t : Finished(t)' <=> Finished(t) /\ t # s
      /\ \A w : Busy(w)' <=> Busy(w)
    BY ReapMoves
<1>5. \A t \in Slices : Located(t)' <=> Located(t) /\ t # s
    BY ReapMoves
<1>6. Typed'
  <2>1. context' \in Contexts
    <3> DEFINE Context == [active : BOOLEAN, pass : Nat, fdec : Nat,
                           out : Nat, final : Nat]
               new == [context[s] EXCEPT !.active = FALSE]
    <3>1. context \in [Slices -> Context] /\ context' = [context EXCEPT ![s] = new]
        BY <1>0
    <3>2. new \in Context
      <4>1. context[s] \in Context
          BY <1>1, <3>1
      <4> QED BY ONLY <4>1
    <3> HIDE DEF Context, new
    <3>3. context' \in [Slices -> Context]
        BY <3>1, <3>2
    <3> QED BY <3>3 DEF Context
  <2>2. pool' \in [uninit : Nat, run : Seq(Slices),
                   done : SUBSET [slice : Slices, failed : BOOLEAN],
                   exit : BOOLEAN]
    <3> DEFINE Jobs == [slice : Slices, failed : BOOLEAN]
               Runs == Seq(Slices)
               left == pool.done \ {job}
    <3>1. /\ pool.uninit \in Nat /\ pool.done \in SUBSET Jobs
          /\ pool \in [uninit : Nat, run : Runs, done : SUBSET Jobs,
                       exit : BOOLEAN]
        BY DEF SlicesInv, Typed
    <3>2. left \in SUBSET Jobs /\ pool.uninit + 1 \in Nat
        BY <3>1
    <3>3. pool' = [pool EXCEPT !.done = left, !.uninit = @ + 1]
        OBVIOUS
    <3> HIDE DEF left, Jobs, Runs
    <3>4. pool' \in [uninit : Nat, run : Runs, done : SUBSET Jobs,
                     exit : BOOLEAN]
        BY <3>1, <3>2, <3>3
    <3> QED BY <3>4 DEF Jobs, Runs
  <2>3. main' \in {"reap", "close", "exit"}
      OBVIOUS
  <2> QED BY <1>4, <2>1, <2>2, <2>3 DEF SlicesInv, Typed
<1>7. OneJob'
    BY <1>3, <1>4 DEF SlicesInv, OneJob
<1>8. ActiveInv'
    BY <1>2, <1>5 DEF SlicesInv, ActiveInv
<1>9. ProgressInv'
  <2>1. \A t \in Slices : Untouched(t)' <=> Untouched(t)
      BY <1>2 DEF Untouched
  <2>2. \A t \in Slices : \A failed \in BOOLEAN :
            Coded1(t, failed) => Coded1(t, failed)'
      BY <1>2 DEF Coded1
  <2>3. \A t \in Slices : Queued(t)' => Untouched(t)'
      BY <1>4, <2>1 DEF SlicesInv, ProgressInv
  <2>4. \A w \in Slices :
            LET t == worker[w].slice
            IN  /\ worker[w].at = "code" => Untouched(t)'
                /\ worker[w].at \in {"filter", "first", "push"}
                      => Coded1(t, worker[w].failed)'
                /\ worker[w].at = "push" /\ ~worker[w].failed
                      => context'[t].final = context'[t].fdec
                /\ worker[w].at # "push" => ~worker[w].failed
    <3> SUFFICES ASSUME NEW w \in Slices, NEW t, t = worker[w].slice
                 PROVE  /\ worker[w].at = "code" => Untouched(t)'
                        /\ worker[w].at \in {"filter", "first", "push"}
                              => Coded1(t, worker[w].failed)'
                        /\ worker[w].at = "push" /\ ~worker[w].failed
                              => context'[t].final = context'[t].fdec
                        /\ worker[w].at # "push" => ~worker[w].failed
        OBVIOUS
    <3>1. /\ worker[w].failed \in BOOLEAN
          /\ worker[w].at \in {"code", "filter", "first", "push"} => t \in Slices
        BY DEF SlicesInv, Typed, Busy
    <3>2. /\ worker[w].at = "code" => Untouched(t)
          /\ worker[w].at \in {"filter", "first", "push"}
                => Coded1(t, worker[w].failed)
          /\ worker[w].at = "push" /\ ~worker[w].failed
                => context[t].final = context[t].fdec
          /\ worker[w].at # "push" => ~worker[w].failed
        BY DEF SlicesInv, ProgressInv
    <3> QED BY <1>2, <2>1, <2>2, <3>1, <3>2
  <2>5. \A j \in pool'.done :
            /\ Coded1(j.slice, j.failed)'
            /\ ~j.failed => context'[j.slice].final = context'[j.slice].fdec
    <3> SUFFICES ASSUME NEW j \in pool'.done
                 PROVE  /\ Coded1(j.slice, j.failed)'
                        /\ ~j.failed => context'[j.slice].final
                                          = context'[j.slice].fdec
        OBVIOUS
    <3>1. j \in pool.done
        BY <1>3
    <3>2. j.slice \in Slices /\ j.failed \in BOOLEAN
        BY <3>1 DEF SlicesInv, Typed
    <3>3. /\ Coded1(j.slice, j.failed)
          /\ ~j.failed => context[j.slice].final = context[j.slice].fdec
        BY <3>1 DEF SlicesInv, ProgressInv
    <3> QED BY <1>2, <2>2, <3>2, <3>3
  <2> QED BY <2>3, <2>4, <2>5 DEF ProgressInv
<1>10. FrameInv'
  <2>1. ~job.failed => context[s].final = context[s].fdec
      BY DEF SlicesInv, ProgressInv
  <2> QED BY <1>1, <1>2, <2>1 DEF SlicesInv, FrameInv
<1>11. ReturnInv'
  <2>1. ~job.failed => FailedSlices' = FailedSlices
      BY <1>3 DEF FailedSlices
  <2> QED BY <1>2, <2>1 DEF SlicesInv, ReturnInv, WholeFrame
<1> QED BY <1>6, <1>7, <1>8, <1>9, <1>10, <1>11 DEF SlicesInv

\* The job of the next slice, which nobody has, goes to the end of the list run.
LEMMA DispatchMoves ==
    ASSUME SlicesInv, Dispatch
    PROVE  /\ DOMAIN pool.run = 1..Len(pool.run)
           /\ DOMAIN pool'.run = 1..(Len(pool.run) + 1)
           /\ Len(pool.run) \in Nat
           /\ \A i \in 1..Len(pool.run) : pool'.run[i] = pool.run[i]
           /\ pool'.run[Len(pool.run) + 1] = next
           /\ \A t : Queued(t)' <=> Queued(t) \/ t = next
           /\ \A t : Held(t)' <=> Held(t)
           /\ \A t : Finished(t)' <=> Finished(t)
           /\ \A w : Busy(w)' <=> Busy(w)
           /\ ~Located(next) /\ context[next].active /\ Untouched(next)
           /\ \A t \in Slices : Located(t)' <=> Located(t) \/ t = next
<1> USE SlicesNumbered
<1>1. /\ frame' = frame /\ context' = context /\ worker' = worker
      /\ whole' = whole /\ main = "dispatch" /\ next \in Slices
    BY DEF SlicesInv, Typed, Dispatch, streamVars
<1>3. pool' = [pool EXCEPT !.uninit = @ - 1, !.run = Append(@, next)]
    BY DEF Dispatch
<1>4. /\ pool'.run = Append(pool.run, next) /\ pool'.done = pool.done
      /\ pool.run \in Seq(Slices)
    BY <1>3 DEF SlicesInv, Typed
<1>5. /\ DOMAIN pool.run = 1..Len(pool.run)
      /\ DOMAIN pool'.run = 1..(Len(pool.run) + 1)
      /\ Len(pool.run) \in Nat
      /\ \A i \in 1..Len(pool.run) : pool'.run[i] = pool.run[i]
      /\ pool'.run[Len(pool.run) + 1] = next
    BY <1>1, <1>4, AppendFacts
<1>6. /\ \A t : Queued(t)' <=> Queued(t) \/ t = next
      /\ \A t : Held(t)' <=> Held(t)
      /\ \A t : Finished(t)' <=> Finished(t)
      /\ \A w : Busy(w)' <=> Busy(w)
  <2>1. \A t : Queued(t)' <=> Queued(t) \/ t = next
    <3> DEFINE n == Len(pool.run)
    <3>1. /\ n \in Nat
          /\ \A i : i \in 1..(n + 1) <=> i \in 1..n \/ i = n + 1
        BY <1>5
    <3>2. /\ DOMAIN pool.run = 1..n /\ DOMAIN pool'.run = 1..(n + 1)
          /\ \A i \in 1..n : pool'.run[i] = pool.run[i]
          /\ pool'.run[n + 1] = next
        BY <1>5
    <3> HIDE DEF n
    <3> QED BY <3>1, <3>2, Zenon DEF Queued
  <2>2. \A w : Busy(w)' <=> Busy(w)
      BY <1>1 DEF Busy
  <2>3. \A t : Held(t)' <=> Held(t)
      BY <1>1, <2>2 DEF Held
  <2>4. \A t : Finished(t)' <=> Finished(t)
      BY <1>4 DEF Finished
  <2> QED BY <2>1, <2>2, <2>3, <2>4
<1>7. ~Located(next) /\ context[next].active /\ Untouched(next)
    BY <1>1 DEF SlicesInv, ActiveInv, ProgressInv
<1>8. \A t \in Slices : Located(t)' <=> Located(t) \/ t = next
    BY <1>6 DEF Located
<1> QED BY <1>5, <1>6, <1>7, <1>8

\* The pool gets the job of the next slice, which nobody has.
LEMMA DispatchKeeps == SlicesInv /\ Dispatch => SlicesInv'
<1> SUFFICES ASSUME SlicesInv, Dispatch PROVE SlicesInv'
    OBVIOUS
<1> USE SlicesNumbered
<1>1. /\ frame' = frame /\ context' = context /\ worker' = worker
      /\ whole' = whole /\ main = "dispatch" /\ next \in Slices
    BY DEF SlicesInv, Typed, Dispatch, streamVars
<1>2. \/ main' = "dispatch" /\ next < Threads /\ next' = next + 1
      \/ main' = "await" /\ ~(next < Threads) /\ next' = 1
    BY <1>1 DEF Dispatch
<1>3. pool' = [pool EXCEPT !.uninit = @ - 1, !.run = Append(@, next)]
    BY DEF Dispatch
<1>4. /\ pool'.run = Append(pool.run, next) /\ pool'.done = pool.done
      /\ pool.run \in Seq(Slices)
    BY <1>3 DEF SlicesInv, Typed
<1>5. /\ DOMAIN pool.run = 1..Len(pool.run)
      /\ DOMAIN pool'.run = 1..(Len(pool.run) + 1)
      /\ Len(pool.run) \in Nat
      /\ \A i \in 1..Len(pool.run) : pool'.run[i] = pool.run[i]
      /\ pool'.run[Len(pool.run) + 1] = next
    BY DispatchMoves
<1>6. /\ \A t : Queued(t)' <=> Queued(t) \/ t = next
      /\ \A t : Held(t)' <=> Held(t)
      /\ \A t : Finished(t)' <=> Finished(t)
      /\ \A w : Busy(w)' <=> Busy(w)
    BY DispatchMoves
<1>7. ~Located(next) /\ context[next].active /\ Untouched(next)
    BY DispatchMoves
<1>8. \A t \in Slices : Located(t)' <=> Located(t) \/ t = next
    BY DispatchMoves
<1>9. Typed'
  <2>1. pool' \in [uninit : Nat, run : Seq(Slices),
                   done : SUBSET [slice : Slices, failed : BOOLEAN],
                   exit : BOOLEAN]
    <3> DEFINE Jobs == [slice : Slices, failed : BOOLEAN]
               Runs == Seq(Slices)
               queue == Append(pool.run, next)
    <3>1. /\ pool.uninit \in Nat
          /\ pool \in [uninit : Nat, run : Runs, done : SUBSET Jobs,
                       exit : BOOLEAN]
        BY DEF SlicesInv, Typed
    <3>2. queue \in Runs
        BY <1>1, <1>4, AppendFacts
    <3>3. pool.uninit - 1 \in Nat
        BY <3>1 DEF Dispatch
    <3>4. pool' = [pool EXCEPT !.uninit = @ - 1, !.run = queue]
        BY <1>3
    <3> HIDE DEF queue, Jobs, Runs
    <3>5. pool' \in [uninit : Nat, run : Runs, done : SUBSET Jobs,
                     exit : BOOLEAN]
        BY <3>1, <3>2, <3>3, <3>4
    <3> QED BY <3>5 DEF Jobs, Runs
  <2>2. next' \in Slices
      BY <1>1, <1>2 DEF Slices
  <2> QED BY <1>1, <1>2, <1>6, <2>1, <2>2 DEF SlicesInv, Typed
<1>10. OneJob'
  <2>1. \A i, j \in DOMAIN pool'.run : pool'.run[i] = pool'.run[j] => i = j
    <3>1. \A i \in 1..Len(pool.run) : pool.run[i] # next
        BY <1>5, <1>7 DEF Located, Queued
    <3>2. \A i, j \in 1..Len(pool.run) : pool.run[i] = pool.run[j] => i = j
        BY <1>5 DEF SlicesInv, OneJob
    <3> DEFINE n == Len(pool.run)
    <3>3. /\ \A i \in 1..(n + 1) : i \in 1..n \/ i = n + 1
          /\ \A i \in 1..n : pool'.run[i] = pool.run[i]
          /\ pool'.run[n + 1] = next /\ DOMAIN pool'.run = 1..(n + 1)
        BY <1>5
    <3> HIDE DEF n
    <3>4. /\ \A i \in 1..n : pool.run[i] # next
          /\ \A i, j \in 1..n : pool.run[i] = pool.run[j] => i = j
        BY <3>1, <3>2 DEF n
    <3> QED BY <3>3, <3>4
  <2>2. \A t \in Slices : /\ ~(Queued(t)' /\ Held(t)')
                          /\ ~(Queued(t)' /\ Finished(t)')
                          /\ ~(Held(t)' /\ Finished(t)')
      BY <1>6, <1>7 DEF SlicesInv, OneJob, Located
  <2>3. \A v, w \in Slices :
          Busy(v)' /\ Busy(w)' /\ worker'[v].slice = worker'[w].slice => v = w
      BY <1>1, <1>6 DEF SlicesInv, OneJob
  <2>4. \A j, k \in pool'.done : j.slice = k.slice => j = k
      BY <1>4 DEF SlicesInv, OneJob
  <2> QED BY <2>1, <2>2, <2>3, <2>4 DEF OneJob
<1>11. ActiveInv'
  <2>1. \A t \in Slices : context[t].active
      BY <1>1 DEF SlicesInv, ActiveInv
  <2>2. \A t \in Slices : t < next => Located(t)
      BY <1>1, <2>1 DEF SlicesInv, ActiveInv
  <2>3. \A t \in Slices : t >= next => ~Located(t)
      BY <1>1 DEF SlicesInv, ActiveInv
  <2>4. CASE main' = "dispatch"
    <3>1. next' = next + 1
        BY <1>2, <2>4
    <3>2. \A t \in Slices : t < next' <=> (t < next \/ t = next)
        BY <1>1, <3>1
    <3>3. \A t \in Slices : t >= next' => t >= next /\ t # next
        BY <1>1, <3>1
    <3> QED BY <1>1, <1>8, <2>1, <2>2, <2>3, <2>4, <3>2, <3>3 DEF ActiveInv
  <2>5. CASE main' = "await"
    <3>1. \A t \in Slices : t < next \/ t = next
        BY <1>1, <1>2, <2>5 DEF Slices
    <3> QED BY <1>1, <1>8, <2>1, <2>2, <2>5, <3>1 DEF ActiveInv
  <2> QED BY <1>2, <2>4, <2>5
<1>12. ProgressInv'
  <2>1. \A t \in Slices : Queued(t)' => Untouched(t)'
      BY <1>1, <1>6, <1>7 DEF SlicesInv, ProgressInv, Untouched
  <2>2. main' = "dispatch" => \A t \in Slices : t >= next' => Untouched(t)'
    <3>1. \A t \in Slices : t >= next + 1 => t >= next
        BY <1>1
    <3> QED BY <1>1, <1>2, <3>1 DEF SlicesInv, ProgressInv, Untouched
  <2> QED BY <1>1, <1>4, <2>1, <2>2
          DEF SlicesInv, ProgressInv, Untouched, Coded1
<1>13. FrameInv'
    BY <1>1, <1>2 DEF SlicesInv, FrameInv
<1>14. ReturnInv'
  <2>1. \A t \in Slices : ~(t < 1)
      OBVIOUS
  <2> QED BY <1>1, <1>2, <2>1 DEF SlicesInv, ReturnInv, WholeFrame
<1> QED BY <1>9, <1>10, <1>11, <1>12, <1>13, <1>14 DEF SlicesInv

(***************************************************************************)
(* The steps of the threads of the pool.                                   *)
(***************************************************************************)

CallerStays == UNCHANGED <<main, next, frame, units, whole>>

\* A thread may change where a job is and how far, but not which slices have
\* a job or which frame they are of; and what has failed is known when the
\* call returns.
LEMMA MovingKeeps ==
    ASSUME SlicesInv, CallerStays,
           \A t \in Slices : Located(t)' <=> Located(t),
           \A t \in Slices :
              /\ context'[t].active = context[t].active
              /\ context'[t].fdec = context[t].fdec
              /\ context[t].pass > 0 => context'[t].pass > 0
              /\ context'[t].final \in {context[t].final, context[t].fdec},
           \A t \in Slices : t \notin {s \in Slices : Located(s)}
              => context'[t].final = context[t].final,
           main \in {"idle", "reap"} => FailedSlices' = FailedSlices,
           Typed', OneJob', ProgressInv'
    PROVE  SlicesInv'
<1> USE DEF CallerStays
<1>1. ActiveInv'
    BY DEF SlicesInv, ActiveInv
<1>2. FrameInv'
  <2>1. \A t \in Slices : context'[t].final + 1 >= context'[t].fdec
    <3> SUFFICES ASSUME NEW t \in Slices
                 PROVE  context'[t].final + 1 >= context'[t].fdec
        OBVIOUS
    <3>1. /\ context[t].fdec \in Nat /\ context[t].final \in Nat
          /\ context[t].final + 1 >= context[t].fdec
        BY DEF SlicesInv, Typed, FrameInv
    <3> QED BY <3>1
  <2> QED BY <2>1 DEF SlicesInv, FrameInv
<1>3. ReturnInv'
  <2>1. Leading' = Leading
      BY DEF Leading
  <2>2. main = "idle" => InOrder(Slices \ FailedSlices)' = InOrder(Slices \ FailedSlices)
      BY DEF InOrder, Slices
  <2>3. WholeFrame'
      BY <2>1, <2>2 DEF SlicesInv, ReturnInv, WholeFrame
  <2> QED BY <2>3 DEF SlicesInv, ReturnInv
<1> QED BY <1>1, <1>2, <1>3 DEF SlicesInv

\* No job changes hands.
LEMMA SameHands ==
    ASSUME SlicesInv, pool'.run = pool.run, pool'.done = pool.done,
           \A v \in Slices : /\ Busy(v)' <=> Busy(v)
                             /\ worker'[v].slice = worker[v].slice
    PROVE  /\ \A t : Queued(t)' <=> Queued(t)
           /\ \A t : Held(t)' <=> Held(t)
           /\ \A t : Finished(t)' <=> Finished(t)
           /\ \A t \in Slices : Located(t)' <=> Located(t)
           /\ OneJob'
<1>1. /\ \A t : Queued(t)' <=> Queued(t)
      /\ \A t : Held(t)' <=> Held(t)
      /\ \A t : Finished(t)' <=> Finished(t)
    BY DEF Queued, Held, Finished
<1>2. OneJob'
    BY <1>1 DEF SlicesInv, OneJob
<1> QED BY <1>1, <1>2 DEF Located

\* A thread sleeps, or ends, without a job.
LEMMA RestingKeeps ==
    ASSUME SlicesInv, CallerStays, context' = context,
           pool' = pool, NEW w \in Slices,
           \/ worker' = worker
           \/ ~Busy(w) /\ worker' = [worker EXCEPT ![w].at = "ended"]
    PROVE  SlicesInv'
<1>1. \A v \in Slices :
         /\ Busy(v)' <=> Busy(v)
         /\ Busy(v) => worker'[v].at = worker[v].at
         /\ worker'[v].slice = worker[v].slice
         /\ worker'[v].failed = worker[v].failed
         /\ worker'[v].at = "code" => worker[v].at = "code"
         /\ worker'[v].at # "push" => worker[v].at # "push"
  <2>1. CASE worker' = worker
      BY <2>1 DEF Busy
  <2>2. CASE ~Busy(w) /\ worker' = [worker EXCEPT ![w].at = "ended"]
    <3>1. \A v \in Slices \ {w} : worker'[v] = worker[v]
        BY <2>2 DEF SlicesInv, Typed
    <3>2. /\ worker'[w].at = "ended" /\ worker'[w].slice = worker[w].slice
          /\ worker'[w].failed = worker[w].failed
        BY <2>2 DEF SlicesInv, Typed
    <3> QED BY <2>2, <3>1, <3>2 DEF Busy
  <2> QED BY <2>1, <2>2
<1>2. /\ \A t : Queued(t)' <=> Queued(t)
      /\ \A t \in Slices : Located(t)' <=> Located(t)
      /\ OneJob'
    BY <1>1, SameHands
<1>3. Typed'
  <2>1. worker' \in [Slices ->
                      [at : {"fetch", "code", "filter", "first", "push", "ended"},
                       slice : 0..Threads, failed : BOOLEAN]]
    <3>0. worker \in [Slices ->
                      [at : {"fetch", "code", "filter", "first", "push", "ended"},
                       slice : 0..Threads, failed : BOOLEAN]]
        BY DEF SlicesInv, Typed
    <3>1. CASE worker' = worker
        BY <3>0, <3>1
    <3>2. CASE worker' = [worker EXCEPT ![w].at = "ended"]
        BY <3>0, <3>2
    <3> QED BY <3>1, <3>2
  <2> QED BY <1>1, <2>1 DEF SlicesInv, Typed, CallerStays
<1>4. ProgressInv'
  <2>1. \A v \in Slices :
          LET s == worker'[v].slice
          IN  /\ worker'[v].at = "code" => Untouched(s)
              /\ worker'[v].at \in {"filter", "first", "push"}
                    => Coded1(s, worker'[v].failed)
              /\ worker'[v].at = "push" /\ ~worker'[v].failed
                    => context[s].final = context[s].fdec
              /\ worker'[v].at # "push" => ~worker'[v].failed
      BY <1>1 DEF SlicesInv, ProgressInv, Busy
  <2> QED BY <1>2, <2>1
          DEF SlicesInv, ProgressInv, CallerStays, Untouched, Coded1
<1>5. FailedSlices' = FailedSlices
    BY <1>1 DEF FailedSlices
<1> QED BY <1>2, <1>3, <1>4, <1>5, MovingKeeps DEF CallerStays

\* The first job of the list run goes to the thread.
LEMMA FetchMoves ==
    ASSUME SlicesInv, CallerStays, context' = context, NEW w \in Slices,
           worker[w].at = "fetch", pool.run # <<>>,
           worker' = [worker EXCEPT ![w] =
                 [at |-> "code", slice |-> Head(pool.run), failed |-> FALSE]],
           pool' = [pool EXCEPT !.run = Tail(@)], NEW s, s = Head(pool.run)
    PROVE  /\ \A v \in Slices \ {w} : worker'[v] = worker[v]
           /\ worker'[w].at = "code" /\ worker'[w].slice = s
           /\ worker'[w].failed = FALSE
           /\ \A t : Queued(t) <=> Queued(t)' \/ t = s
           /\ ~Queued(s)'
           /\ \A i, j \in DOMAIN pool'.run : pool'.run[i] = pool'.run[j] => i = j
           /\ ~Busy(w) /\ \A t : Held(t)' <=> Held(t) \/ t = s
           /\ \A t : Finished(t)' <=> Finished(t)
           /\ \A t \in Slices : Located(t)' <=> Located(t)
           /\ ~Held(s) /\ ~Finished(s) /\ Untouched(s)
<1> USE SlicesNumbered
<1>1. /\ pool.run \in Seq(Slices) /\ pool'.run = Tail(pool.run)
      /\ pool'.done = pool.done
    BY DEF SlicesInv, Typed
<1>2. s \in Slices /\ pool'.run \in Seq(Slices)
    BY <1>1, TailFacts
<1>4. \A v \in Slices \ {w} : worker'[v] = worker[v]
    BY DEF SlicesInv, Typed
<1>5. /\ worker'[w].at = "code" /\ worker'[w].slice = s
      /\ worker'[w].failed = FALSE
    BY DEF SlicesInv, Typed
<1>6. /\ \A t : Queued(t) <=> Queued(t)' \/ t = s
      /\ ~Queued(s)'
      /\ \A i, j \in DOMAIN pool'.run : pool'.run[i] = pool'.run[j] => i = j
  <2>1. \A i, j \in DOMAIN pool.run : pool.run[i] = pool.run[j] => i = j
      BY DEF SlicesInv, OneJob
  <2> DEFINE queue == pool.run
             rest == Tail(queue)
  <2>2. /\ \A t : (\E i \in DOMAIN queue : queue[i] = t)
               <=> (\E i \in DOMAIN rest : rest[i] = t) \/ t = Head(queue)
        /\ ~ \E i \in DOMAIN rest : rest[i] = Head(queue)
        /\ \A i, j \in DOMAIN rest : rest[i] = rest[j] => i = j
    <3>1. queue \in Seq(Slices) /\ queue # <<>>
        BY <1>1
    <3> HIDE DEF queue
    <3> QED BY <2>1, <3>1, TakenFacts DEF queue
  <2>3. pool'.run = rest /\ s = Head(queue)
      BY <1>1
  <2>4. \A t : Queued(t) <=> \E i \in DOMAIN queue : queue[i] = t
      BY DEF Queued
  <2>5. \A t : Queued(t)' <=> \E i \in DOMAIN rest : rest[i] = t
      BY <2>3 DEF Queued
  <2> HIDE DEF rest, queue
  <2>6. \A t : Queued(t) <=> Queued(t)' \/ t = s
      BY <2>2, <2>3, <2>4, <2>5, Zenon
  <2>7. ~Queued(s)'
    <3>1. ~ \E i \in DOMAIN rest : rest[i] = s
        BY <2>2, <2>3
    <3> QED BY <2>5, <3>1
  <2>8. \A i, j \in DOMAIN pool'.run : pool'.run[i] = pool'.run[j] => i = j
    <3>1. \A i, j \in DOMAIN rest : rest[i] = rest[j] => i = j
        BY <2>2
    <3> QED BY <2>3, <3>1
  <2> QED BY <2>6, <2>7, <2>8
<1>7. ~Queued(s)'
    BY <1>6
<1>8. ~Busy(w) /\ \A t : Held(t)' <=> Held(t) \/ t = s
  <2>1. ~Busy(w) /\ Busy(w)' /\ \A v \in Slices \ {w} : Busy(v)' <=> Busy(v)
      BY <1>4, <1>5 DEF Busy
  <2> QED BY <1>4, <1>5, <2>1 DEF Held
<1>9. \A t : Finished(t)' <=> Finished(t)
    BY <1>1 DEF Finished
<1>10. \A t \in Slices : Located(t)' <=> Located(t)
    BY <1>6, <1>8, <1>9 DEF Located
<1>11. ~Held(s) /\ ~Finished(s) /\ Untouched(s)
  <2>1. Queued(s)
      BY <1>6
  <2> QED BY <1>2, <2>1 DEF SlicesInv, OneJob, ProgressInv
<1> QED BY <1>2, <1>4, <1>5, <1>6, <1>8, <1>9, <1>10, <1>11

\* A thread takes the first job of the queue.
LEMMA FetchKeeps ==
    ASSUME SlicesInv, CallerStays, context' = context, NEW w \in Slices,
           worker[w].at = "fetch", pool.run # <<>>,
           worker' = [worker EXCEPT ![w] =
                 [at |-> "code", slice |-> Head(pool.run), failed |-> FALSE]],
           pool' = [pool EXCEPT !.run = Tail(@)]
    PROVE  SlicesInv'
<1>0. PICK s : s = Head(pool.run)
    OBVIOUS
<1> USE SlicesNumbered, <1>0
<1>1. /\ pool.run \in Seq(Slices) /\ pool'.run = Tail(pool.run)
      /\ pool'.done = pool.done
    BY DEF SlicesInv, Typed
<1>2. s \in Slices /\ pool'.run \in Seq(Slices)
    BY <1>1, TailFacts
<1>4. \A v \in Slices \ {w} : worker'[v] = worker[v]
    BY FetchMoves
<1>5. /\ worker'[w].at = "code" /\ worker'[w].slice = s
      /\ worker'[w].failed = FALSE
    BY FetchMoves
<1>6. /\ \A t : Queued(t) <=> Queued(t)' \/ t = s
      /\ ~Queued(s)'
      /\ \A i, j \in DOMAIN pool'.run : pool'.run[i] = pool'.run[j] => i = j
    BY FetchMoves
<1>7. ~Queued(s)'
    BY FetchMoves
<1>8. ~Busy(w) /\ \A t : Held(t)' <=> Held(t) \/ t = s
    BY FetchMoves
<1>9. \A t : Finished(t)' <=> Finished(t)
    BY FetchMoves
<1>10. \A t \in Slices : Located(t)' <=> Located(t)
    BY FetchMoves
<1>11. ~Held(s) /\ ~Finished(s) /\ Untouched(s)
    BY FetchMoves
<1>12. Typed'
  <2>1. worker' \in [Slices ->
                      [at : {"fetch", "code", "filter", "first", "push", "ended"},
                       slice : 0..Threads, failed : BOOLEAN]]
    <3>1. s \in 0..Threads
        BY <1>2 DEF Slices
    <3> QED BY <3>1 DEF SlicesInv, Typed
  <2>2. pool' \in [uninit : Nat, run : Seq(Slices),
                   done : SUBSET [slice : Slices, failed : BOOLEAN],
                   exit : BOOLEAN]
    <3> DEFINE Jobs == SUBSET [slice : Slices, failed : BOOLEAN]
               Runs == Seq(Slices)
               queue == Tail(pool.run)
    <3>1. pool \in [uninit : Nat, run : Runs, done : Jobs, exit : BOOLEAN]
        BY DEF SlicesInv, Typed
    <3>2. queue \in Runs
        BY <1>1, <1>2
    <3>3. pool' = [pool EXCEPT !.run = queue]
        OBVIOUS
    <3> HIDE DEF queue, Jobs, Runs
    <3>4. pool' \in [uninit : Nat, run : Runs, done : Jobs, exit : BOOLEAN]
        BY <3>1, <3>2, <3>3
    <3> QED BY <3>4 DEF Jobs, Runs
  <2>3. \A v \in Slices : Busy(v)' => worker'[v].slice \in Slices
      BY <1>2, <1>4, <1>5 DEF SlicesInv, Typed, Busy
  <2> QED BY <2>1, <2>2, <2>3 DEF SlicesInv, Typed, CallerStays
<1>13. OneJob'
  <2>1. \A i, j \in DOMAIN pool'.run : pool'.run[i] = pool'.run[j] => i = j
      BY <1>6
  <2>2. \A u, v \in Slices :
          Busy(u)' /\ Busy(v)' /\ worker'[u].slice = worker'[v].slice => u = v
      BY <1>4, <1>5, <1>11 DEF SlicesInv, OneJob, Busy, Held
  <2>3. \A j, k \in pool'.done : j.slice = k.slice => j = k
      BY <1>1 DEF SlicesInv, OneJob
  <2>4. \A t \in Slices : /\ ~(Queued(t)' /\ Held(t)')
                          /\ ~(Queued(t)' /\ Finished(t)')
                          /\ ~(Held(t)' /\ Finished(t)')
    <3> SUFFICES ASSUME NEW t \in Slices
                 PROVE  /\ ~(Queued(t)' /\ Held(t)')
                        /\ ~(Queued(t)' /\ Finished(t)')
                        /\ ~(Held(t)' /\ Finished(t)')
        OBVIOUS
    <3>1. CASE t = s
        BY <1>7, <1>9, <1>11, <3>1
    <3>2. CASE t # s
      <4>1. /\ Queued(t)' <=> Queued(t)
            /\ Held(t)' <=> Held(t)
            /\ Finished(t)' <=> Finished(t)
          BY <1>6, <1>8, <1>9, <3>2
      <4> QED BY <4>1 DEF SlicesInv, OneJob
    <3> QED BY <3>1, <3>2
  <2> QED BY <2>1, <2>2, <2>3, <2>4 DEF OneJob
<1>14. ProgressInv'
  <2>1. \A t \in Slices : Queued(t)' => Untouched(t)
      BY <1>6 DEF SlicesInv, ProgressInv
  <2>2. \A v \in Slices :
          LET t == worker'[v].slice
          IN  /\ worker'[v].at = "code" => Untouched(t)
              /\ worker'[v].at \in {"filter", "first", "push"}
                    => Coded1(t, worker'[v].failed)
              /\ worker'[v].at = "push" /\ ~worker'[v].failed
                    => context[t].final = context[t].fdec
              /\ worker'[v].at # "push" => ~worker'[v].failed
    <3> SUFFICES ASSUME NEW v \in Slices, NEW t, t = worker'[v].slice
                 PROVE  /\ worker'[v].at = "code" => Untouched(t)
                        /\ worker'[v].at \in {"filter", "first", "push"}
                              => Coded1(t, worker'[v].failed)
                        /\ worker'[v].at = "push" /\ ~worker'[v].failed
                              => context[t].final = context[t].fdec
                        /\ worker'[v].at # "push" => ~worker'[v].failed
        OBVIOUS
    <3>1. CASE v = w
        BY <1>5, <1>11, <3>1
    <3>2. CASE v # w
      <4>1. worker'[v] = worker[v]
          BY <1>4, <3>2
      <4> QED BY <4>1 DEF SlicesInv, ProgressInv
    <3> QED BY <3>1, <3>2
  <2> QED BY <1>1, <2>1, <2>2
          DEF SlicesInv, ProgressInv, CallerStays, Untouched, Coded1
<1>15. FailedSlices' = FailedSlices
  <2>1. ~worker[w].failed
      BY DEF SlicesInv, ProgressInv
  <2>2. {v \in Slices : worker'[v].failed} = {v \in Slices : worker[v].failed}
      BY <1>4, <1>5, <2>1
  <2>3. {worker'[v].slice : v \in {u \in Slices : worker'[u].failed}}
        = {worker[v].slice : v \in {u \in Slices : worker[u].failed}}
      BY <1>4, <1>5, <2>1, <2>2
  <2> QED BY <1>1, <2>3 DEF FailedSlices
<1> QED BY <1>10, <1>12, <1>13, <1>14, <1>15, MovingKeeps

\* A thread gets further with its slice.
WorkersTyped ==
    worker \in [Slices ->
                   [at : {"fetch", "code", "filter", "first", "push", "ended"},
                    slice : 0..Threads, failed : BOOLEAN]]
ContextsTyped ==
    context \in [Slices -> [active : BOOLEAN, pass : Nat, fdec : Nat,
                            out : Nat, final : Nat]]

LEMMA WorkingKeeps ==
    ASSUME SlicesInv, CallerStays, pool' = pool,
           NEW w \in Slices, Busy(w), NEW s, s = worker[w].slice,
           WorkersTyped', ContextsTyped',
           \A v \in Slices \ {w} : worker'[v] = worker[v],
           \A t \in Slices \ {s} : context'[t] = context[t],
           worker'[w].slice = s,
           worker'[w].at \in {"filter", "first", "push"},
           worker'[w].at # "push" => ~worker'[w].failed,
           context'[s].pass \in {1, 2},
           context'[s].out = IF worker'[w].failed THEN 0 ELSE context'[s].fdec,
           worker'[w].at = "push" /\ ~worker'[w].failed
              => context'[s].final = context'[s].fdec,
           context'[s].active = context[s].active,
           context'[s].fdec = context[s].fdec,
           context'[s].final \in {context[s].final, context[s].fdec},
           main \in {"idle", "reap"} => FailedSlices' = FailedSlices
    PROVE  SlicesInv'
<1>1. s \in Slices /\ Held(s)
    BY DEF SlicesInv, Typed, Held
<1>2. /\ \A v \in Slices : Busy(v)' <=> Busy(v)
      /\ \A v \in Slices : worker'[v].slice = worker[v].slice
    BY DEF Busy
<1>3. /\ \A t : Queued(t)' <=> Queued(t)
      /\ \A t \in Slices : Located(t)' <=> Located(t)
      /\ OneJob'
    BY <1>2, SameHands
<1>4. /\ ~Queued(s) /\ ~Finished(s)
      /\ \A v \in Slices \ {w} : Busy(v) => worker[v].slice # s
    BY <1>1 DEF SlicesInv, OneJob
<1>5. Typed'
    BY <1>2 DEF SlicesInv, Typed, CallerStays, WorkersTyped, ContextsTyped
<1>6. ProgressInv'
  <2>1. \A t \in Slices : Queued(t)' => Untouched(t)'
      BY <1>3, <1>4 DEF SlicesInv, ProgressInv, Untouched
  <2>2. main' = "dispatch" => \A t \in Slices : t >= next' => Untouched(t)'
    <3>1. main = "dispatch" => ~(s >= next)
        BY <1>1 DEF SlicesInv, ActiveInv, Located
    <3> QED BY <3>1 DEF SlicesInv, ProgressInv, Untouched, CallerStays
  <2>3. \A v, t \in Slices : t = worker'[v].slice =>
            /\ worker'[v].at = "code" => Untouched(t)'
            /\ worker'[v].at \in {"filter", "first", "push"}
                  => Coded1(t, worker[v].failed)'
            /\ worker'[v].at = "push" /\ ~worker'[v].failed
                  => context'[t].final = context'[t].fdec
            /\ worker'[v].at # "push" => ~worker'[v].failed
    <3> SUFFICES ASSUME NEW v \in Slices, NEW t \in Slices,
                        t = worker'[v].slice
                 PROVE
            /\ worker'[v].at = "code" => Untouched(t)'
            /\ worker'[v].at \in {"filter", "first", "push"}
                  => Coded1(t, worker[v].failed)'
            /\ worker'[v].at = "push" /\ ~worker'[v].failed
                  => context'[t].final = context'[t].fdec
            /\ worker'[v].at # "push" => ~worker'[v].failed
        OBVIOUS
    <3>1. CASE v = w
      <4>1. worker'[w].at # "code" /\ t = s
          BY <3>1
      <4>2. Coded1(s, worker[w].failed)'
          BY DEF Coded1
      <4> QED BY <3>1, <4>1, <4>2
    <3>2. CASE v # w /\ Busy(v)
      <4>1. t = worker[v].slice
          BY <3>2
      <4>2. context'[t] = context[t] /\ worker'[v] = worker[v]
          BY <1>4, <3>2, <4>1
      <4>3. /\ worker[v].at = "code" => Untouched(t)
            /\ worker[v].at \in {"filter", "first", "push"}
                  => Coded1(t, worker[v].failed)
            /\ worker[v].at = "push" /\ ~worker[v].failed
                  => context[t].final = context[t].fdec
            /\ worker[v].at # "push" => ~worker[v].failed
          BY <4>1 DEF SlicesInv, ProgressInv
      <4> QED BY <4>1, <4>2, <4>3 DEF Untouched, Coded1
    <3>3. CASE v # w /\ ~Busy(v)
        BY <3>3 DEF SlicesInv, ProgressInv, Busy
    <3> QED BY <3>1, <3>2, <3>3
  <2>5. \A v \in Slices : ~Busy(v)' => ~worker'[v].failed
      BY <1>2 DEF SlicesInv, ProgressInv, Busy
  <2>6. \A v \in Slices : Busy(v)' => worker'[v].slice \in Slices
      BY <1>5 DEF Typed
  <2>7. \A v \in Slices :
            /\ worker'[v].at = "code" => Untouched(worker[v].slice)'
            /\ worker'[v].at \in {"filter", "first", "push"}
                  => Coded1(worker[v].slice, worker[v].failed)'
            /\ worker'[v].at = "push" /\ ~worker'[v].failed
                  => context'[worker'[v].slice].final
                         = context'[worker'[v].slice].fdec
            /\ worker'[v].at # "push" => ~worker'[v].failed
    <3> SUFFICES ASSUME NEW v \in Slices
                 PROVE
            /\ worker'[v].at = "code" => Untouched(worker[v].slice)'
            /\ worker'[v].at \in {"filter", "first", "push"}
                  => Coded1(worker[v].slice, worker[v].failed)'
            /\ worker'[v].at = "push" /\ ~worker'[v].failed
                  => context'[worker'[v].slice].final
                         = context'[worker'[v].slice].fdec
            /\ worker'[v].at # "push" => ~worker'[v].failed
        OBVIOUS
    <3>1. CASE Busy(v)'
      <4>1. PICK t \in Slices : t = worker'[v].slice
          BY <2>6, <3>1
      <4> QED BY <2>3, <4>1 DEF Untouched, Coded1
    <3>2. CASE ~Busy(v)'
        BY <2>5, <3>2 DEF Busy
    <3> QED BY <3>1, <3>2
  <2>4. \A job \in pool'.done :
            /\ Coded1(job.slice, job.failed)'
            /\ ~job.failed
                  => context'[job.slice].final = context'[job.slice].fdec
    <3> SUFFICES ASSUME NEW job \in pool.done
                 PROVE  /\ Coded1(job.slice, job.failed)'
                        /\ ~job.failed => context'[job.slice].final
                                              = context'[job.slice].fdec
        OBVIOUS
    <3>1. PICK t \in Slices : t = job.slice
        BY DEF SlicesInv, Typed
    <3>2. context'[t] = context[t]
        BY <1>4, <3>1 DEF Finished
    <3> QED BY <3>1, <3>2 DEF SlicesInv, ProgressInv, Coded1
  <2> QED BY <2>1, <2>2, <2>4, <2>7 DEF ProgressInv
<1>7. \A t \in Slices :
          /\ context'[t].active = context[t].active
          /\ context'[t].fdec = context[t].fdec
          /\ context[t].pass > 0 => context'[t].pass > 0
          /\ context'[t].final \in {context[t].final, context[t].fdec}
    OBVIOUS
<1>8. \A t \in Slices : t \notin {r \in Slices : Located(r)}
          => context'[t].final = context[t].final
    BY <1>1 DEF Located
<1> QED BY <1>3, <1>5, <1>6, <1>7, <1>8, MovingKeeps

\* The codes of failed slices are found out before a call returns, or by it.
LEMMA SameFailures ==
    ASSUME pool' = pool, NEW w \in Slices,
           \A v \in Slices \ {w} : worker'[v] = worker[v],
           ~worker[w].failed, ~worker'[w].failed
    PROVE  FailedSlices' = FailedSlices
<1>1. {v \in Slices : worker'[v].failed} = {v \in Slices : worker[v].failed}
    OBVIOUS
<1>2. {worker'[v].slice : v \in {u \in Slices : worker'[u].failed}}
        = {worker[v].slice : v \in {u \in Slices : worker[u].failed}}
    BY <1>1
<1> QED BY <1>2 DEF FailedSlices

\* No slice is coded after the return of the call that codes the frame.
LEMMA CodingInCall ==
    ASSUME SlicesInv, NEW w \in Slices, worker[w].at = "code"
    PROVE  main \notin {"return", "idle", "reap"}
<1>1. PICK s \in Slices : s = worker[w].slice
    BY DEF SlicesInv, Typed, Busy
<1>2. Located(s) /\ Untouched(s)
    BY <1>1 DEF SlicesInv, ProgressInv, Located, Held, Busy
<1>3. context[s].active /\ context[s].pass = 0
    BY <1>2 DEF SlicesInv, ActiveInv, Untouched
<1> QED BY <1>3 DEF SlicesInv, ReturnInv

LEMMA CodeKeeps ==
    ASSUME SlicesInv, CallerStays, NEW w \in Slices, Code(w) PROVE SlicesInv'
<1>1. PICK s \in Slices : s = worker[w].slice
    BY DEF SlicesInv, Typed, Busy, Code
<1>2. PICK failed \in BOOLEAN :
         /\ worker' = [worker EXCEPT ![w].at = IF failed THEN "push" ELSE "filter",
                                     ![w].failed = failed]
         /\ context' = [context EXCEPT ![s] =
               [[context[s] EXCEPT !.out = IF failed THEN @ ELSE context[s].fdec]
                   EXCEPT !.pass = PassAfter(failed)]]
    BY <1>1 DEF Code, Broadcast
<1>3. pool' = pool /\ worker[w].at = "code" /\ Busy(w)
    BY DEF Code, Busy
<1>4. Untouched(s) /\ PassAfter(failed) \in {1, 2}
    BY <1>1, <1>3 DEF SlicesInv, ProgressInv, PassAfter
<1>5. /\ \A v \in Slices \ {w} : worker'[v] = worker[v]
      /\ worker'[w].at = IF failed THEN "push" ELSE "filter"
      /\ worker'[w].slice = s /\ worker'[w].failed = failed
      /\ WorkersTyped'
  <2>1. WorkersTyped
      BY DEF SlicesInv, Typed, WorkersTyped
  <2>2. \A v \in Slices \ {w} : worker'[v] = worker[v]
      BY <1>2, <2>1 DEF WorkersTyped
  <2>3. worker'[w] = [worker[w] EXCEPT !.at = IF failed THEN "push" ELSE "filter",
                                       !.failed = failed]
      BY <1>2, <2>1 DEF WorkersTyped
  <2>4. /\ worker'[w].at = IF failed THEN "push" ELSE "filter"
        /\ worker'[w].slice = s /\ worker'[w].failed = failed
      BY <1>1, <2>1, <2>3 DEF WorkersTyped
  <2>5. WorkersTyped'
    <3> DEFINE Thread == [at : {"fetch", "code", "filter", "first", "push",
                                "ended"},
                          slice : 0..Threads, failed : BOOLEAN]
    <3>1. worker \in [Slices -> Thread]
        BY <2>1 DEF WorkersTyped
    <3>2. worker'[w] \in Thread
      <4>1. worker[w] \in Thread
          BY <3>1
      <4> QED BY <2>3, <4>1
    <3> HIDE DEF Thread
    <3>3. worker' = [v \in Slices |-> worker'[v]]
        BY <1>2, <3>1
    <3>4. \A v \in Slices : worker'[v] \in Thread
        BY <2>2, <3>1, <3>2
    <3>5. worker' \in [Slices -> Thread]
        BY <3>3, <3>4
    <3> QED BY <3>5 DEF Thread, WorkersTyped
  <2> QED BY <2>2, <2>4, <2>5
<1>6. /\ \A t \in Slices \ {s} : context'[t] = context[t]
      /\ context'[s].pass = PassAfter(failed)
      /\ context'[s].out = IF failed THEN 0 ELSE context[s].fdec
      /\ context'[s].active = context[s].active
      /\ context'[s].fdec = context[s].fdec
      /\ context'[s].final = context[s].final
      /\ ContextsTyped'
  <2>1. ContextsTyped
      BY DEF SlicesInv, Typed, ContextsTyped
  <2>2. \A t \in Slices \ {s} : context'[t] = context[t]
      BY <1>2, <2>1 DEF ContextsTyped
  <2>3. context'[s] =
            [[context[s] EXCEPT !.out = IF failed THEN @ ELSE context[s].fdec]
                EXCEPT !.pass = PassAfter(failed)]
      BY <1>2, <2>1 DEF ContextsTyped
  <2>4. /\ context'[s].pass = PassAfter(failed)
        /\ context'[s].out = IF failed THEN 0 ELSE context[s].fdec
        /\ context'[s].active = context[s].active
        /\ context'[s].fdec = context[s].fdec
        /\ context'[s].final = context[s].final
      BY <1>4, <2>1, <2>3 DEF ContextsTyped, Untouched
  <2>5. ContextsTyped'
    <3>1. context'[s] \in [active : BOOLEAN, pass : Nat, fdec : Nat,
                           out : Nat, final : Nat]
      <4> DEFINE out == IF failed THEN context[s].out ELSE context[s].fdec
      <4>1. context[s] \in [active : BOOLEAN, pass : Nat, fdec : Nat,
                            out : Nat, final : Nat]
          BY <2>1 DEF ContextsTyped
      <4>2. PassAfter(failed) \in Nat /\ out \in Nat
          BY <1>4, <4>1
      <4>3. context'[s] = [[context[s] EXCEPT !.out = out]
                              EXCEPT !.pass = PassAfter(failed)]
          BY <2>3
      <4> HIDE DEF out
      <4> QED BY <4>1, <4>2, <4>3
    <3> QED BY <1>2, <2>1, <2>2, <3>1 DEF ContextsTyped
  <2> QED BY <2>2, <2>4, <2>5
<1>7. main \notin {"idle", "reap"}
    BY <1>3, CodingInCall
<1> QED BY <1>1, <1>3, <1>4, <1>5, <1>6, <1>7, WorkingKeeps

LEMMA FilterKeeps ==
    ASSUME SlicesInv, CallerStays, NEW w \in Slices, Filter(w) PROVE SlicesInv'
<1>1. PICK s \in Slices : s = worker[w].slice
    BY DEF SlicesInv, Typed, Busy, Filter
<1>2. /\ worker' = [worker EXCEPT ![w].at = IF s > 1 THEN "first" ELSE "push"]
      /\ context' = [context EXCEPT ![s] =
            [[context[s] EXCEPT !.final = IF s > 1 THEN @ ELSE context[s].fdec]
                EXCEPT !.pass = 2]]
    BY <1>1 DEF Filter, Broadcast
<1>3. pool' = pool /\ worker[w].at = "filter" /\ Busy(w)
    BY DEF Filter, Busy
<1>4. Coded1(s, FALSE) /\ worker[w].failed = FALSE
    BY <1>1, <1>3 DEF SlicesInv, Typed, ProgressInv
<1>5. /\ \A v \in Slices \ {w} : worker'[v] = worker[v]
      /\ worker'[w].at = IF s > 1 THEN "first" ELSE "push"
      /\ worker'[w].slice = s /\ worker'[w].failed = FALSE
      /\ WorkersTyped'
  <2>1. WorkersTyped
      BY DEF SlicesInv, Typed, WorkersTyped
  <2>2. \A v \in Slices \ {w} : worker'[v] = worker[v]
      BY <1>2, <2>1 DEF WorkersTyped
  <2>3. worker'[w] = [worker[w] EXCEPT !.at = IF s > 1 THEN "first" ELSE "push"]
      BY <1>2, <2>1 DEF WorkersTyped
  <2>4. /\ worker'[w].at = IF s > 1 THEN "first" ELSE "push"
        /\ worker'[w].slice = s /\ worker'[w].failed = FALSE
      BY <1>1, <1>4, <2>1, <2>3 DEF WorkersTyped
  <2>5. WorkersTyped'
      BY <1>2, <2>1 DEF WorkersTyped
  <2> QED BY <2>2, <2>4, <2>5
<1>6. /\ \A t \in Slices \ {s} : context'[t] = context[t]
      /\ context'[s].pass = 2
      /\ context'[s].out = context[s].fdec
      /\ context'[s].active = context[s].active
      /\ context'[s].fdec = context[s].fdec
      /\ context'[s].final = IF s > 1 THEN context[s].final ELSE context[s].fdec
      /\ ContextsTyped'
  <2>1. ContextsTyped
      BY DEF SlicesInv, Typed, ContextsTyped
  <2>2. \A t \in Slices \ {s} : context'[t] = context[t]
      BY <1>2, <2>1 DEF ContextsTyped
  <2>3. context'[s] =
            [[context[s] EXCEPT !.final = IF s > 1 THEN @ ELSE context[s].fdec]
                EXCEPT !.pass = 2]
      BY <1>2, <2>1 DEF ContextsTyped
  <2>4. /\ context'[s].pass = 2
        /\ context'[s].out = context[s].fdec
        /\ context'[s].active = context[s].active
        /\ context'[s].fdec = context[s].fdec
        /\ context'[s].final
              = IF s > 1 THEN context[s].final ELSE context[s].fdec
      BY <1>4, <2>1, <2>3 DEF ContextsTyped, Coded1
  <2>5. ContextsTyped'
      BY <1>2, <2>1 DEF ContextsTyped
  <2> QED BY <2>2, <2>4, <2>5
<1>7. FailedSlices' = FailedSlices
    BY <1>3, <1>4, <1>5, SameFailures
<1> QED BY <1>1, <1>3, <1>5, <1>6, <1>7, WorkingKeeps

LEMMA FilterFirstKeeps ==
    ASSUME SlicesInv, CallerStays, NEW w \in Slices, FilterFirst(w)
    PROVE  SlicesInv'
<1>1. PICK s \in Slices : s = worker[w].slice
    BY DEF SlicesInv, Typed, Busy, FilterFirst
<1>2. pool' = pool /\ worker[w].at = "first" /\ Busy(w)
    BY DEF FilterFirst, Busy
<1>3. CASE worker' = worker /\ context' = context
    BY <1>2, <1>3, RestingKeeps
<1>4. CASE /\ worker' = [worker EXCEPT ![w].at = "push"]
           /\ context' = [context EXCEPT ![s].final = context[s].fdec]
  <2>1. Coded1(s, FALSE) /\ worker[w].failed = FALSE
      BY <1>1, <1>2 DEF SlicesInv, Typed, ProgressInv
  <2>2. /\ \A v \in Slices \ {w} : worker'[v] = worker[v]
        /\ worker'[w].at = "push"
        /\ worker'[w].slice = s /\ worker'[w].failed = FALSE
        /\ WorkersTyped'
    <3>1. WorkersTyped
        BY DEF SlicesInv, Typed, WorkersTyped
    <3>2. \A v \in Slices \ {w} : worker'[v] = worker[v]
        BY <1>4, <3>1 DEF WorkersTyped
    <3>3. worker'[w] = [worker[w] EXCEPT !.at = "push"]
        BY <1>4, <3>1 DEF WorkersTyped
    <3>4. /\ worker'[w].at = "push"
          /\ worker'[w].slice = s /\ worker'[w].failed = FALSE
        BY <1>1, <2>1, <3>1, <3>3 DEF WorkersTyped
    <3>5. WorkersTyped'
        BY <1>4, <3>1 DEF WorkersTyped
    <3> QED BY <3>2, <3>4, <3>5
  <2>3. /\ \A t \in Slices \ {s} : context'[t] = context[t]
        /\ context'[s].pass \in {1, 2}
        /\ context'[s].out = context[s].fdec
        /\ context'[s].active = context[s].active
        /\ context'[s].fdec = context[s].fdec
        /\ context'[s].final = context[s].fdec
        /\ ContextsTyped'
    <3>1. ContextsTyped
        BY DEF SlicesInv, Typed, ContextsTyped
    <3>2. \A t \in Slices \ {s} : context'[t] = context[t]
        BY <1>4, <3>1 DEF ContextsTyped
    <3>3. context'[s] = [context[s] EXCEPT !.final = context[s].fdec]
        BY <1>4, <3>1 DEF ContextsTyped
    <3>4. /\ context'[s].pass \in {1, 2}
          /\ context'[s].out = context[s].fdec
          /\ context'[s].active = context[s].active
          /\ context'[s].fdec = context[s].fdec
          /\ context'[s].final = context[s].fdec
        BY <2>1, <3>1, <3>3 DEF ContextsTyped, Coded1
    <3>5. ContextsTyped'
        BY <1>4, <3>1 DEF ContextsTyped
    <3> QED BY <3>2, <3>4, <3>5
  <2>4. FailedSlices' = FailedSlices
      BY <1>2, <2>1, <2>2, SameFailures
  <2> QED BY <1>1, <1>2, <2>2, <2>3, <2>4, WorkingKeeps
<1> QED BY <1>1, <1>3, <1>4 DEF FilterFirst

\* The job of the thread goes to the list done.
LEMMA PushMoves ==
    ASSUME SlicesInv, NEW w \in Slices, Push(w)
    PROVE  LET s == worker[w].slice
               failed == worker[w].failed
           IN  /\ \A v \in Slices \ {w} : worker'[v] = worker[v]
               /\ worker'[w].at = "fetch" /\ worker'[w].slice = 0
               /\ worker'[w].failed = FALSE /\ WorkersTyped'
               /\ pool'.run = pool.run
               /\ pool'.done = pool.done \cup {[slice |-> s, failed |-> failed]}
               /\ Held(s) /\ ~Queued(s) /\ ~Finished(s)
               /\ \A v \in Slices \ {w} : Busy(v) => worker[v].slice # s
               /\ ~Busy(w)' /\ \A v \in Slices \ {w} : Busy(v)' <=> Busy(v)
               /\ \A t : Queued(t)' <=> Queued(t)
               /\ \A t : Held(t)' <=> Held(t) /\ t # s
               /\ \A t : Finished(t)' <=> Finished(t) \/ t = s
               /\ \A t \in Slices : Located(t)' <=> Located(t)
<1> DEFINE s == worker[w].slice
           failed == worker[w].failed
<1>1. s \in Slices /\ s = worker[w].slice
    BY DEF SlicesInv, Typed, Busy, Push
<1>2. failed \in BOOLEAN /\ failed = worker[w].failed
    BY DEF SlicesInv, Typed
<1> DEFINE job == [slice |-> s, failed |-> failed]
<1>3. /\ worker' = [worker EXCEPT ![w] =
                       [at |-> "fetch", slice |-> 0, failed |-> FALSE]]
      /\ pool' = [pool EXCEPT !.done = @ \cup {job}]
      /\ context' = context /\ worker[w].at = "push" /\ Busy(w)
    BY <1>1, <1>2 DEF Push, Busy
<1>4. /\ \A v \in Slices \ {w} : worker'[v] = worker[v]
      /\ worker'[w].at = "fetch" /\ worker'[w].slice = 0
      /\ worker'[w].failed = FALSE /\ WorkersTyped'
  <2>1. WorkersTyped
      BY DEF SlicesInv, Typed, WorkersTyped
  <2>2. \A v \in Slices \ {w} : worker'[v] = worker[v]
      BY <1>3, <2>1 DEF WorkersTyped
  <2>3. worker'[w] = [at |-> "fetch", slice |-> 0, failed |-> FALSE]
      BY <1>3, <2>1 DEF WorkersTyped
  <2>4. WorkersTyped'
      BY <1>3, <2>1, SlicesNumbered DEF WorkersTyped
  <2> QED BY <2>2, <2>3, <2>4
<1>5. pool'.run = pool.run /\ pool'.done = pool.done \cup {job}
    BY <1>3 DEF SlicesInv, Typed
<1>6. Held(s) /\ ~Queued(s) /\ ~Finished(s)
  <2>1. Held(s)
      BY <1>1, <1>3 DEF Held
  <2> QED BY <1>1, <2>1 DEF SlicesInv, OneJob
<1>7. \A v \in Slices \ {w} : Busy(v) => worker[v].slice # s
    BY <1>1, <1>3 DEF SlicesInv, OneJob
<1>8. /\ ~Busy(w)' /\ \A v \in Slices \ {w} : Busy(v)' <=> Busy(v)
    BY <1>4 DEF Busy
<1>9. /\ \A t : Queued(t)' <=> Queued(t)
      /\ \A t : Held(t)' <=> Held(t) /\ t # s
      /\ \A t : Finished(t)' <=> Finished(t) \/ t = s
  <2>1. \A t : Queued(t)' <=> Queued(t)
      BY <1>5 DEF Queued
  <2>2. \A t : Held(t)' <=> Held(t) /\ t # s
      BY <1>1, <1>3, <1>4, <1>7, <1>8 DEF Held
  <2>3. \A t : Finished(t)' <=> Finished(t) \/ t = s
    <3>1. job.slice = s
        OBVIOUS
    <3> HIDE DEF job
    <3> QED BY <1>5, <3>1 DEF Finished
  <2> QED BY <2>1, <2>2, <2>3
<1>10. \A t \in Slices : Located(t)' <=> Located(t)
    BY <1>6, <1>9 DEF Located
<1> QED BY <1>4, <1>5, <1>6, <1>7, <1>8, <1>9, <1>10

\* A thread hands its job over to main.
LEMMA PushKeeps ==
    ASSUME SlicesInv, CallerStays, NEW w \in Slices, Push(w) PROVE SlicesInv'
<1>1. PICK s \in Slices : s = worker[w].slice
    BY DEF SlicesInv, Typed, Busy, Push
<1>2. PICK failed \in BOOLEAN : failed = worker[w].failed
    BY DEF SlicesInv, Typed
<1> DEFINE job == [slice |-> s, failed |-> failed]
<1>3. /\ worker' = [worker EXCEPT ![w] =
                       [at |-> "fetch", slice |-> 0, failed |-> FALSE]]
      /\ pool' = [pool EXCEPT !.done = @ \cup {job}]
      /\ context' = context /\ worker[w].at = "push" /\ Busy(w)
    BY <1>1, <1>2 DEF Push, Busy
<1>4. /\ \A v \in Slices \ {w} : worker'[v] = worker[v]
      /\ worker'[w].at = "fetch" /\ worker'[w].slice = 0
      /\ worker'[w].failed = FALSE /\ WorkersTyped'
    BY <1>1, <1>2, PushMoves
<1>5. pool'.run = pool.run /\ pool'.done = pool.done \cup {job}
    BY <1>1, <1>2, PushMoves
<1>6. Held(s) /\ ~Queued(s) /\ ~Finished(s)
    BY <1>1, <1>2, PushMoves
<1>7. \A v \in Slices \ {w} : Busy(v) => worker[v].slice # s
    BY <1>1, <1>2, PushMoves
<1>8. /\ ~Busy(w)' /\ \A v \in Slices \ {w} : Busy(v)' <=> Busy(v)
    BY <1>1, <1>2, PushMoves
<1>9. /\ \A t : Queued(t)' <=> Queued(t)
      /\ \A t : Held(t)' <=> Held(t) /\ t # s
      /\ \A t : Finished(t)' <=> Finished(t) \/ t = s
    BY <1>1, <1>2, PushMoves
<1>10. \A t \in Slices : Located(t)' <=> Located(t)
    BY <1>1, <1>2, PushMoves
<1>11. Typed'
  <2>1. pool' \in [uninit : Nat, run : Seq(Slices),
                   done : SUBSET [slice : Slices, failed : BOOLEAN],
                   exit : BOOLEAN]
    <3> DEFINE Jobs == [slice : Slices, failed : BOOLEAN]
               Runs == Seq(Slices)
               more == pool.done \cup {job}
    <3>1. /\ pool \in [uninit : Nat, run : Runs, done : SUBSET Jobs,
                       exit : BOOLEAN]
          /\ pool.done \in SUBSET Jobs
        BY DEF SlicesInv, Typed
    <3>2. more \in SUBSET Jobs
        BY <3>1
    <3>3. pool' = [pool EXCEPT !.done = more]
        BY <1>3
    <3> HIDE DEF more, Jobs, Runs
    <3>4. pool' \in [uninit : Nat, run : Runs, done : SUBSET Jobs,
                     exit : BOOLEAN]
        BY <3>1, <3>2, <3>3
    <3> QED BY <3>4 DEF Jobs, Runs
  <2>2. \A v \in Slices : Busy(v)' => worker'[v].slice \in Slices
      BY <1>4, <1>8 DEF SlicesInv, Typed
  <2> QED BY <1>3, <1>4, <2>1, <2>2
          DEF SlicesInv, Typed, CallerStays, WorkersTyped
<1>12. OneJob'
  <2>1. \A i, j \in DOMAIN pool'.run : pool'.run[i] = pool'.run[j] => i = j
      BY <1>5 DEF SlicesInv, OneJob
  <2>2. \A u, v \in Slices :
          Busy(u)' /\ Busy(v)' /\ worker'[u].slice = worker'[v].slice => u = v
      BY <1>4, <1>8 DEF SlicesInv, OneJob
  <2>3. \A j, k \in pool'.done : j.slice = k.slice => j = k
      BY <1>5, <1>6 DEF SlicesInv, OneJob, Finished
  <2>4. \A t \in Slices : /\ ~(Queued(t)' /\ Held(t)')
                          /\ ~(Queued(t)' /\ Finished(t)')
                          /\ ~(Held(t)' /\ Finished(t)')
      BY <1>6, <1>9 DEF SlicesInv, OneJob
  <2> QED BY <2>1, <2>2, <2>3, <2>4 DEF OneJob
<1>13. /\ Coded1(s, failed)
       /\ ~failed => context[s].final = context[s].fdec
    BY <1>1, <1>2, <1>3 DEF SlicesInv, ProgressInv
<1>14. ProgressInv'
  <2>1. \A t \in Slices : Queued(t)' => Untouched(t)
      BY <1>9 DEF SlicesInv, ProgressInv
  <2>2. \A v \in Slices :
          LET t == worker'[v].slice
          IN  /\ worker'[v].at = "code" => Untouched(t)
              /\ worker'[v].at \in {"filter", "first", "push"}
                    => Coded1(t, worker'[v].failed)
              /\ worker'[v].at = "push" /\ ~worker'[v].failed
                    => context[t].final = context[t].fdec
              /\ worker'[v].at # "push" => ~worker'[v].failed
      BY <1>4 DEF SlicesInv, ProgressInv
  <2>3. \A j \in pool'.done :
            /\ Coded1(j.slice, j.failed)
            /\ ~j.failed => context[j.slice].final = context[j.slice].fdec
      BY <1>5, <1>13 DEF SlicesInv, ProgressInv
  <2> QED BY <1>3, <2>1, <2>2, <2>3
          DEF SlicesInv, ProgressInv, CallerStays, Untouched, Coded1
<1>15. FailedSlices' = FailedSlices
  <2> DEFINE inDone == {j.slice : j \in {k \in pool.done : k.failed}}
             inHand == {worker[u].slice : u \in {v \in Slices : worker[v].failed}}
  <2>1. FailedSlices = inDone \cup inHand
      BY DEF FailedSlices
  <2>2. CASE failed
    <3>1. \A t : t \in inDone' <=> t \in inDone \/ t = s
      <4>1. job.slice = s /\ job.failed
          BY <2>2
      <4> HIDE DEF job
      <4> QED BY <1>5, <4>1
    <3>2. \A t : t \in inHand <=> t \in inHand' \/ t = s
      <4>1. w \in {v \in Slices : worker[v].failed}
          BY <1>2, <2>2
      <4>2. {v \in Slices : worker[v].failed}
               = {v \in Slices : worker'[v].failed} \cup {w}
          BY <1>4, <4>1
      <4>3. \A v \in {u \in Slices : worker'[u].failed} :
               v # w /\ worker'[v].slice = worker[v].slice
          BY <1>4
      <4> QED BY <1>1, <4>1, <4>2, <4>3
    <3>3. \A t : t \in FailedSlices' <=> t \in FailedSlices
        BY <3>1, <3>2 DEF FailedSlices
    <3> QED BY <3>3
  <2>3. CASE ~failed
    <3>1. inDone' = inDone
        BY <1>5, <2>3
    <3>2. {v \in Slices : worker'[v].failed} = {v \in Slices : worker[v].failed}
        BY <1>2, <1>4, <2>3
    <3>3. inHand' = inHand
        BY <1>2, <1>4, <2>3, <3>2
    <3> QED BY <3>1, <3>3 DEF FailedSlices
  <2> QED BY <2>2, <2>3
<1> QED BY <1>3, <1>10, <1>11, <1>12, <1>14, <1>15, MovingKeeps

(***************************************************************************)
(* Every step.                                                             *)
(***************************************************************************)

LEMMA StutterKeeps == SlicesInv /\ UNCHANGED vars => SlicesInv'
<1> SUFFICES ASSUME SlicesInv, UNCHANGED vars PROVE SlicesInv'
    OBVIOUS
<1>1. /\ UNCHANGED <<main, next, frame>>
      /\ UNCHANGED <<context, pool, worker>>
      /\ UNCHANGED <<units, whole>>
    BY DEF vars, codecVars, streamVars
<1> QED BY <1>1, SlicesNumbered, RestingKeeps DEF CallerStays

LEMMA WaitKeeps == SlicesInv /\ threadpool_wait_all => SlicesInv'
<1> SUFFICES ASSUME SlicesInv, threadpool_wait_all PROVE SlicesInv'
    OBVIOUS
<1>1. /\ main \in {"reap", "close"} /\ worker' = worker
      /\ next' = next /\ frame' = frame /\ units' = units /\ whole' = whole
    BY DEF threadpool_wait_all, streamVars
<1>2. CASE UNCHANGED <<main, context, pool>>
    BY <1>1, <1>2, SlicesNumbered, RestingKeeps DEF CallerStays
<1>3. CASE \E job \in pool.done :
              /\ job.slice = Min(Pending)
              /\ context' = [context EXCEPT ![Min(Pending)].active = FALSE]
              /\ pool' = [pool EXCEPT !.done = @ \ {job}, !.uninit = @ + 1]
              /\ main' = IF ~job.failed THEN main
                         ELSE IF main = "reap" THEN "close" ELSE "exit"
  <2>1. PICK job \in pool.done :
            /\ context' = [context EXCEPT ![job.slice].active = FALSE]
            /\ pool' = [pool EXCEPT !.done = @ \ {job}, !.uninit = @ + 1]
            /\ main' = IF ~job.failed THEN main
                       ELSE IF main = "reap" THEN "close" ELSE "exit"
      BY <1>3
  <2> QED BY <1>1, <2>1, ReapKeeps
<1> QED BY <1>2, <1>3 DEF threadpool_wait_all

LEMMA FetchingKeeps ==
    ASSUME SlicesInv, CallerStays, NEW w \in Slices, Fetch(w) PROVE SlicesInv'
<1>1. context' = context /\ worker[w].at = "fetch" /\ ~Busy(w)
    BY DEF Fetch, Busy
<1>2. CASE UNCHANGED <<pool, worker>>
    BY <1>1, <1>2, RestingKeeps
<1>3. CASE worker' = [worker EXCEPT ![w].at = "ended"] /\ pool' = pool
    BY <1>1, <1>3, RestingKeeps
<1>4. CASE /\ pool.run # <<>>
           /\ worker' = [worker EXCEPT ![w] =
                 [at |-> "code", slice |-> Head(pool.run), failed |-> FALSE]]
           /\ pool' = [pool EXCEPT !.run = Tail(@)]
    BY <1>1, <1>4, FetchKeeps
<1> QED BY <1>2, <1>3, <1>4 DEF Fetch

LEMMA SlicesStep == SlicesInv /\ [Next]_vars => SlicesInv'
<1> SUFFICES ASSUME SlicesInv, [Next]_vars PROVE SlicesInv'
    OBVIOUS
<1>1. CASE EncodeFrame
    BY <1>1, EncodeFrameKeeps
<1>2. CASE Shutdown
    BY <1>2, ShutdownKeeps
<1>3. CASE Caller
  <2>1. CASE threadpool_wait_all
      BY <2>1, WaitKeeps
  <2>2. CASE AllReaped
      BY <2>2, AllReapedKeeps
  <2>3. CASE Setup
      BY <2>3, SetupKeeps
  <2>4. CASE Dispatch
      BY <2>4, DispatchKeeps
  <2>5. CASE Await
      BY <2>5, AwaitKeeps
  <2>6. CASE Return
      BY <2>6, ReturnKeeps
  <2>7. CASE Exit
      BY <2>7, ExitKeeps
  <2>8. CASE Join
      BY <2>8, JoinKeeps
  <2> QED BY <1>3, <2>1, <2>2, <2>3, <2>4, <2>5, <2>6, <2>7, <2>8 DEF Caller
<1>4. ASSUME NEW w \in Slices, Worker(w) PROVE SlicesInv'
  <2>1. CallerStays
      BY <1>4 DEF Worker, CallerStays, streamVars
  <2>2. CASE Fetch(w)
      BY <2>1, <2>2, FetchingKeeps
  <2>3. CASE Code(w)
      BY <2>1, <2>3, CodeKeeps
  <2>4. CASE Filter(w)
      BY <2>1, <2>4, FilterKeeps
  <2>5. CASE FilterFirst(w)
      BY <2>1, <2>5, FilterFirstKeeps
  <2>6. CASE Push(w)
      BY <2>1, <2>6, PushKeeps
  <2> QED BY <1>4, <2>2, <2>3, <2>4, <2>5, <2>6 DEF Worker
<1>5. CASE UNCHANGED vars
    BY <1>5, StutterKeeps
<1> QED BY <1>1, <1>2, <1>3, <1>4, <1>5 DEF Next

LEMMA SlicesAlways == Spec => []SlicesInv
BY SlicesInit, SlicesStep, PTL DEF Spec

\* Whatever threads still filter, the frame that is predicted from is complete:
\* the reaping of its jobs at the next call waits for all of its rows.
THEOREM ReferenceAlwaysComplete == Spec => []ReferenceComplete
<1>1. SlicesInv => ReferenceComplete
  <2> SUFFICES ASSUME SlicesInv, NEW w \in Slices, worker[w].at = "code",
                      NEW s \in Slices
               PROVE  context[s].final >= context[worker[w].slice].fdec - 1
      BY DEF ReferenceComplete
  <2>1. PICK t \in Slices : t = worker[w].slice
      BY DEF SlicesInv, Typed, Busy
  <2>2. context[s].fdec = context[t].fdec
      BY DEF SlicesInv, FrameInv
  <2>3. context[s].final + 1 >= context[s].fdec
      BY DEF SlicesInv, FrameInv
  <2>4. context[s].final \in Nat /\ context[s].fdec \in Nat
      BY DEF SlicesInv, Typed
  <2> QED BY <2>1, <2>2, <2>3, <2>4
<1> QED BY <1>1, SlicesAlways, PTL

\* A frame is returned with the NAL units of all its slices in order, but those
\* of the slices whose failure the next call will report.
THEOREM FramesWhole == Spec => []WholeFrame
<1>1. SlicesInv => WholeFrame
    BY DEF SlicesInv, ReturnInv
<1> QED BY <1>1, SlicesAlways, PTL

\* A NAL unit of a frame is of a kind that has a header.
LEMMA KindsKnown ==
    ASSUME NEW us, us \in Seq([frame : Nat, slice : {-1, -2, -3} \cup Slices])
    PROVE  Types(us) \in Seq(DOMAIN Header) /\ DOMAIN Types(us) = DOMAIN us
<1> DEFINE Kind(u) == IF u.slice < 0 THEN <<"sps", "pps", "sei">>[-u.slice]
                      ELSE IF u.frame = 1 THEN "idr" ELSE "slice"
<1>1. \A u \in [frame : Nat, slice : {-1, -2, -3} \cup Slices] :
          Kind(u) \in DOMAIN Header
  <2> SUFFICES ASSUME NEW u \in [frame : Nat, slice : {-1, -2, -3} \cup Slices]
               PROVE  Kind(u) \in DOMAIN Header
      OBVIOUS
  <2>1. CASE u.slice \in {-1, -2, -3}
      BY <2>1 DEF Header
  <2>2. CASE u.slice \in Slices
    <3>1. u.slice \in Nat
        BY <2>2, SlicesNumbered
    <3>2. ~(u.slice < 0)
        BY <3>1
    <3> QED BY <3>2 DEF Header
  <2> QED BY <2>1, <2>2
<1>2. Types(us) = [i \in DOMAIN us |-> Kind(us[i])]
    BY DEF Types
<1>3. DOMAIN us = 1..Len(us) /\ Len(us) \in Nat
    OBVIOUS
<1>4. \A i \in 1..Len(us) : Kind(us[i]) \in DOMAIN Header
  <2> DEFINE R == [frame : Nat, slice : {-1, -2, -3} \cup Slices]
  <2>1. \A i \in 1..Len(us) : us[i] \in R
    <3>1. us \in Seq(R)
        OBVIOUS
    <3> HIDE DEF R
    <3> QED BY <3>1
  <2> HIDE DEF Kind
  <2> QED BY <1>1, <2>1
<1> HIDE DEF Kind
<1> QED BY <1>2, <1>3, <1>4

\* The units that are returned are the leading ones and those of slices.
LEMMA ReturnedUnits ==
    SlicesInv /\ Return =>
        units' \in Seq([frame : Nat, slice : {-1, -2, -3} \cup Slices])
<1> DEFINE R == [frame : Nat, slice : {-1, -2, -3} \cup Slices]
           some == {s \in Slices : context[s].out # 0}
           coded == InOrder(some)
           rest == [i \in DOMAIN coded |->
                        [frame |-> context[coded[i]].out, slice |-> coded[i]]]
<1> SUFFICES ASSUME SlicesInv, Return PROVE units' \in Seq(R)
    OBVIOUS
<1>1. units' = Leading \o rest
    BY DEF Return
<1>2. coded \in Seq(some)
    BY OrderedSlices
<1>3. \A s \in Slices : context[s].out \in Nat
    BY DEF SlicesInv, Typed
<1>4. \A s \in some : s \in Slices
    OBVIOUS
<1> HIDE DEF some, coded
<1>5. rest \in Seq(R)
  <2>1. /\ DOMAIN coded = 1..Len(coded) /\ Len(coded) \in Nat
        /\ \A i \in 1..Len(coded) : coded[i] \in Slices
      BY <1>2, <1>4
  <2>2. \A i \in 1..Len(coded) :
            [frame |-> context[coded[i]].out, slice |-> coded[i]] \in R
      BY <1>3, <2>1
  <2> HIDE DEF R
  <2> QED BY <2>1, <2>2
<1>6. Leading \in Seq(R)
  <2>1. frame \in Nat
      BY DEF SlicesInv, Typed
  <2>2. \A n \in 1..3 : -n \in {-1, -2, -3}
      OBVIOUS
  <2>3. [n \in 1..3 |-> [frame |-> frame, slice |-> -n]] \in Seq(R)
      BY <2>1, <2>2
  <2>4. <<>> \in Seq(R)
      OBVIOUS
  <2> QED BY <2>3, <2>4 DEF Leading
<1> HIDE DEF R, rest
<1> QED BY <1>1, <1>5, <1>6, JoinFacts

\* H264RtpPacketizer::Packetize cuts what x264 returned into the same NAL units,
\* whatever zeros their payloads hold and whichever slices are missing.
THEOREM UnitsFoundAgain == Spec => []RoundTrip
<1>1. Init => RoundTrip
    BY DEF Init, RoundTrip
<1>2. ASSUME SlicesInv, RoundTrip, [Next]_vars PROVE RoundTrip'
  <2>1. CASE UNCHANGED streamVars
      BY <1>2, <2>1 DEF streamVars, RoundTrip, Types
  <2>2. CASE EncodeFrame
      BY <2>2 DEF EncodeFrame, RoundTrip
  <2>3. CASE Return
    <3> DEFINE types == Types(units')
    <3>1. /\ payload' \in Payloads
          /\ found' = Split(encoder_encapsulate_nals(types, payload'))
        BY <2>3 DEF Return
    <3>2. types \in Seq(DOMAIN Header) /\ DOMAIN types = DOMAIN units'
      <4>1. units' \in Seq([frame : Nat, slice : {-1, -2, -3} \cup Slices])
          BY <1>2, <2>3, ReturnedUnits
      <4> QED BY <4>1, KindsKnown
    <3>3. Trailed(payload')
        BY <3>1, PayloadsAssumption DEF Trailed, Byte
    <3>4. RoundTrip' = (payload' # <<>> =>
              found' = [i \in DOMAIN units' |->
                            <<Header[types[i]]>> \o nal_escape(payload')])
        BY DEF RoundTrip, Types
    <3> HIDE DEF types
    <3>5. found' = [i \in DOMAIN types |-> Unit(types[i], payload')]
        BY <3>1, <3>2, <3>3, FoundAgain
    <3> QED BY <3>2, <3>4, <3>5 DEF Unit
  <2>4. [Next]_vars => UNCHANGED streamVars \/ EncodeFrame \/ Return
      BY DEF Next, Caller, Worker, Shutdown, threadpool_wait_all, AllReaped,
             Setup, Dispatch, Await, Exit, Join, vars
  <2> QED BY <1>2, <2>1, <2>2, <2>3, <2>4
<1> QED BY <1>1, <1>2, SlicesAlways, PTL DEF Spec

\* Every step of the threads and of their caller is a step of FrameEncoder, or
\* changes nothing the caller sees: no frame is returned after one that lacks a
\* slice, and a call fails only then.
THEOREM EncoderSteps ==
    Spec => Abstract!Init /\ [][Abstract!Next]_(Abstract!vars)
<1>1. Init => Abstract!Init
    BY DEF Init, Abstract!Init
<1>2. SlicesInv /\ [Next]_vars => [Abstract!Next]_(Abstract!vars)
  <2> SUFFICES ASSUME SlicesInv, [Next]_vars
               PROVE  [Abstract!Next]_(Abstract!vars)
      OBVIOUS
  <2> USE DEF Abstract!vars
  <2>1. CASE EncodeFrame
    <3>1. whole' = whole
        BY <2>1 DEF EncodeFrame
    <3> QED BY <2>1, <3>1 DEF EncodeFrame, Abstract!Next, Abstract!Begin
  <2>2. CASE Shutdown
    <3>1. whole' = whole
        BY <2>2 DEF Shutdown, streamVars
    <3> QED BY <2>2, <3>1 DEF Shutdown, Abstract!Next, Abstract!Close
  <2>3. CASE threadpool_wait_all
    <3>1. frame' = frame /\ whole' = whole /\ main \in {"reap", "close"}
        BY <2>3 DEF threadpool_wait_all, streamVars
    <3>2. CASE main' = main
        BY <3>1, <3>2
    <3>3. CASE main = "close" /\ main' = "exit"
        BY <3>1, <3>3
    <3>4. CASE /\ main = "reap" /\ main' = "close"
               /\ \E job \in pool.done : job.failed
      <4>1. ~whole
          BY <3>4 DEF SlicesInv, ReturnInv, FailedSlices
      <4> QED BY <3>1, <3>4, <4>1 DEF Abstract!Next, Abstract!Fail
    <3> QED BY <2>3, <3>1, <3>2, <3>3, <3>4 DEF threadpool_wait_all
  <2>4. CASE AllReaped
    <3>1. whole' = whole /\ frame' = frame
        BY <2>4 DEF AllReaped, streamVars
    <3> QED BY <2>4, <3>1 DEF AllReaped
  <2>5. CASE Setup
    <3>1. whole' = whole /\ frame' = frame
        BY <2>5 DEF Setup, streamVars
    <3> QED BY <2>5, <3>1 DEF Setup
  <2>6. CASE Dispatch
    <3>1. whole' = whole /\ frame' = frame /\ main' \in {"dispatch", "await"}
        BY <2>6 DEF Dispatch, streamVars
    <3> QED BY <2>6, <3>1 DEF Dispatch
  <2>7. CASE Await
    <3>1. whole' = whole /\ frame' = frame /\ main' \in {"await", "return"}
        BY <2>7 DEF Await, streamVars
    <3> QED BY <2>7, <3>1 DEF Await
  <2>8. CASE Return
    <3>1. whole' \in BOOLEAN /\ main = "return" /\ main' = "idle"
          /\ frame' = frame
        BY <2>8 DEF Return
    <3>2. whole
        BY <3>1 DEF SlicesInv, ReturnInv
    <3> QED BY <3>1, <3>2 DEF Abstract!Next, Abstract!Return
  <2>9. CASE Exit
    <3>1. whole' = whole /\ frame' = frame
        BY <2>9 DEF Exit, streamVars
    <3> QED BY <2>9, <3>1 DEF Exit
  <2>10. CASE Join
    <3>1. whole' = whole /\ frame' = frame
        BY <2>10 DEF Join, streamVars
    <3> QED BY <2>10, <3>1 DEF Join, Abstract!Next, Abstract!Closed
  <2>11. CASE \E w \in Slices : Worker(w)
    <3>1. UNCHANGED <<main, frame, whole>>
        BY <2>11 DEF Worker, streamVars
    <3> QED BY <3>1
  <2>12. CASE UNCHANGED vars
    <3>1. UNCHANGED <<main, frame, whole>>
        BY <2>12 DEF vars, streamVars
    <3> QED BY <3>1
  <2> QED BY <2>1, <2>2, <2>3, <2>4, <2>5, <2>6, <2>7, <2>8, <2>9, <2>10,
             <2>11, <2>12 DEF Next, Caller
<1> QED BY <1>1, <1>2, SlicesAlways, PTL DEF Spec

(***************************************************************************)
(* No thread waits for ever: the inductive invariant.                      *)
(***************************************************************************)

AsleepTyped == asleep = [t \in 0..Threads |-> asleep[t]]

SleepInv == AsleepTyped /\ NoLostWakeup

\* The list run is in the order of the slices, and whoever is ahead of a slice
\* in it has left it.
FifoInv ==
    /\ \A i, j \in DOMAIN pool.run : i < j => pool.run[i] < pool.run[j]
    /\ \A s, t \in Slices : Queued(s) /\ (Held(t) \/ Finished(t)) => t < s

\* A slice that the one below may wait for is still on its way, or filtered.
FilteredInv ==
    /\ \A w \in Slices : worker[w].at = "first" => worker[w].slice > 1
    /\ \A w \in Slices : worker[w].at \in {"first", "push"} =>
          context[worker[w].slice].pass = 2
    /\ \A job \in pool.done : context[job.slice].pass = 2
    /\ \A s, t \in Slices :
          Located(t) /\ s < t /\ ~Located(s) => context[s].pass = 2

\* There is a free job for every slice that is not active, and the threads end
\* when they are told to.
RoomInv ==
    /\ main = "setup" => pool.uninit = Threads
    /\ main = "dispatch" => pool.uninit + next = Threads + 1
    /\ main \in {"idle", "reap", "close", "await", "return"} =>
          pool.uninit + Cardinality(Pending) = Threads
    /\ pool.exit <=> main \in {"join", "closed"}
    /\ \A w \in Slices : worker[w].at = "ended" => pool.exit

WakeInv == SleepInv /\ FifoInv /\ FilteredInv /\ RoomInv

LEMMA CvsDiffer ==
    /\ Awake # RunFill /\ Awake # DoneFill /\ RunFill # DoneFill
    /\ \A s : /\ ContextCv(s) # Awake /\ ContextCv(s) # RunFill
              /\ ContextCv(s) # DoneFill
    /\ \A s, t : ContextCv(s) = ContextCv(t) => s = t
BY DEF Awake, RunFill, DoneFill, ContextCv

LEMMA ThreadsNumbered ==
    Main \in 0..Threads /\ Slices \subseteq 0..Threads /\ Main \notin Slices
BY SliceThreadsAssumption DEF Main, Slices

\* Those a broadcast does not wake sleep on something else.
LEMMA WakesFacts ==
    ASSUME AsleepTyped, NEW cv, Wakes(cv)
    PROVE  /\ AsleepTyped'
           /\ \A t \in 0..Threads :
                 asleep'[t] # Awake => asleep'[t] = asleep[t] /\ asleep[t] # cv
BY DEF AsleepTyped, Wakes

LEMMA SleepsFacts ==
    ASSUME AsleepTyped, NEW u \in 0..Threads, NEW cv, Sleeps(u, cv)
    PROVE  /\ AsleepTyped' /\ asleep'[u] = cv
           /\ \A t \in (0..Threads) \ {u} : asleep'[t] = asleep[t]
BY DEF AsleepTyped, Sleeps

LEMMA WakeInit == Init => WakeInv
<1> SUFFICES ASSUME Init PROVE WakeInv
    OBVIOUS
<1> USE SlicesNumbered
<1>1. /\ \A s : ~Queued(s) /\ ~Finished(s) /\ ~Held(s) /\ ~Located(s)
      /\ pool.run = <<>> /\ pool.done = {}
    BY DEF Init, Queued, Finished, Held, Located, Busy
<1>2. SleepInv
    BY ThreadsNumbered DEF Init, SleepInv, AsleepTyped, NoLostWakeup
<1>3. FifoInv
    BY <1>1 DEF FifoInv
<1>4. FilteredInv
    BY <1>1 DEF Init, FilteredInv
<1>5. RoomInv
  <2>1. Pending = {}
      BY DEF Init, Pending
  <2>2. Cardinality(Pending) = 0
      BY <2>1, FS_EmptySet
  <2>3. main = "idle" /\ pool.uninit = Threads /\ ~pool.exit
        /\ \A w \in Slices : worker[w].at = "fetch"
      BY DEF Init
  <2> QED BY <2>2, <2>3 DEF RoomInv
<1> QED BY <1>2, <1>3, <1>4, <1>5 DEF WakeInv

LEMMA FifoKept ==
    ASSUME FifoInv, pool'.run = pool.run,
           \A t \in Slices : Held(t)' \/ Finished(t)' => Held(t) \/ Finished(t)
    PROVE  FifoInv'
<1>1. \A t : Queued(t)' <=> Queued(t)
    BY DEF Queued
<1> QED BY <1>1 DEF FifoInv

\* The threads of the pool stay where they are, and no pass is set.
LEMMA FilteredKept ==
    ASSUME SlicesInv, FilteredInv, worker' = worker, pool'.done \subseteq pool.done,
           \A s \in Slices : context'[s].pass = context[s].pass,
           \A s \in Slices : Located(s)' => Located(s),
           \A s \in Slices : Located(s) /\ ~Located(s)' => context[s].pass = 2
    PROVE  FilteredInv'
<1>1. \A w \in Slices : worker[w].at \in {"first", "push"} =>
          context'[worker[w].slice].pass = 2
    BY DEF FilteredInv, SlicesInv, Typed, Busy
<1>2. \A job \in pool'.done : context'[job.slice].pass = 2
    BY DEF FilteredInv, SlicesInv, Typed
<1>3. \A s, t \in Slices :
          Located(t)' /\ s < t /\ ~Located(s)' => context'[s].pass = 2
    BY DEF FilteredInv
<1> QED BY <1>1, <1>2, <1>3 DEF FilteredInv

\* A step of the caller lets sleep who waits for what has still not come.
LEMMA CallerSleep ==
    ASSUME SlicesInv, WakeInv, worker' = worker, AsleepTyped',
           asleep'[Main] # Awake => CallerWaits',
           \A s \in Slices : context'[s].pass = context[s].pass,
           \A w \in Slices : asleep'[w] # Awake =>
              /\ asleep'[w] = asleep[w]
              /\ asleep[w] = RunFill => pool'.run = <<>> /\ ~pool'.exit
    PROVE  SleepInv'
<1> SUFFICES ASSUME NEW w \in Slices, asleep'[w] # Awake PROVE WorkerWaits(w)'
    BY DEF SleepInv, NoLostWakeup, AsleepTyped
<1>1. asleep'[w] = asleep[w] /\ WorkerWaits(w)
    BY DEF WakeInv, SleepInv, NoLostWakeup
<1>2. CASE worker[w].at = "fetch" /\ asleep[w] = RunFill
    BY <1>1, <1>2 DEF WorkerWaits
<1>3. CASE /\ worker[w].at = "first"
           /\ asleep[w] = ContextCv(worker[w].slice - 1)
           /\ context[worker[w].slice - 1].pass < 2
  <2>1. worker[w].slice \in Slices /\ worker[w].slice > 1
      BY <1>3 DEF SlicesInv, Typed, Busy, WakeInv, FilteredInv
  <2>2. worker[w].slice - 1 \in Slices
      BY <2>1, SlicesNumbered DEF Slices
  <2>3. context'[worker[w].slice - 1].pass = context[worker[w].slice - 1].pass
      BY <2>2
  <2> QED BY <1>1, <1>3, <2>3 DEF WorkerWaits
<1> QED BY <1>1, <1>2, <1>3 DEF WorkerWaits

\* A step of the caller that leaves the pool and the contexts alone.
LEMMA CallerOnly ==
    ASSUME SlicesInv, WakeInv, UNCHANGED <<worker, pool, context>>, AsleepTyped',
           \A w \in Slices : asleep'[w] = asleep[w],
           asleep'[Main] # Awake => CallerWaits', RoomInv'
    PROVE  WakeInv'
<1>1. SleepInv'
  <2>1. \A w \in Slices : asleep'[w] # Awake => WorkerWaits(w)'
      BY DEF WakeInv, SleepInv, NoLostWakeup, WorkerWaits
  <2> QED BY <2>1 DEF SleepInv, NoLostWakeup, AsleepTyped
<1>2. JobsStay
    BY DEF JobsStay
<1>3. FifoInv'
    BY <1>2, StayingJobs, FifoKept DEF WakeInv, JobsStay
<1>4. FilteredInv'
    BY <1>2, StayingJobs, FilteredKept DEF WakeInv, JobsStay
<1> QED BY <1>1, <1>3, <1>4 DEF WakeInv

\* Who is not in the middle of something does not sleep.
LEMMA CallerAwake ==
    ASSUME WakeInv, main \notin {"reap", "close", "await"}
    PROVE  asleep[Main] = Awake
BY DEF WakeInv, SleepInv, NoLostWakeup, CallerWaits

LEMMA PlainWakes ==
    ASSUME SlicesInv, WakeInv, asleep[Main] = Awake,
           EncodeFrame \/ Shutdown \/ AllReaped \/ Return \/ Join
    PROVE  WakeInv'
<1>1. UNCHANGED <<worker, pool, context, asleep>>
    BY DEF EncodeFrame, Shutdown, AllReaped, Return, Join, codecVars
<1>2. RoomInv'
  <2>0. Pending' = Pending
      BY <1>1 DEF Pending
  <2>1. CASE EncodeFrame \/ Shutdown
      BY <1>1, <2>0, <2>1 DEF EncodeFrame, Shutdown, WakeInv, RoomInv
  <2>2. CASE AllReaped
    <3>1. Cardinality(Pending) = 0
        BY <2>2, FS_EmptySet DEF AllReaped
    <3>2. pool.uninit = Threads
        BY <2>2, <3>1 DEF AllReaped, WakeInv, RoomInv, SlicesInv, Typed
    <3> QED BY <1>1, <2>2, <3>2 DEF AllReaped, WakeInv, RoomInv
  <2>3. CASE Return
      BY <1>1, <2>0, <2>3 DEF Return, WakeInv, RoomInv
  <2>4. CASE Join
      BY <1>1, <2>4 DEF Join, WakeInv, RoomInv
  <2> QED BY <2>1, <2>2, <2>3, <2>4
<1>3. AsleepTyped'
    BY <1>1 DEF WakeInv, SleepInv, AsleepTyped
<1> QED BY <1>1, <1>2, <1>3, CallerOnly

LEMMA AwaitWakes ==
    ASSUME SlicesInv, WakeInv, asleep[Main] = Awake, Await PROVE WakeInv'
<1>1. UNCHANGED <<worker, pool, context>> /\ main = "await"
    BY DEF Await
<1>2. main' \in {"await", "return"}
    BY DEF Await
<1>3. RoomInv'
  <2>1. Pending' = Pending
      BY <1>1 DEF Pending
  <2> QED BY <1>1, <1>2, <2>1 DEF WakeInv, RoomInv
<1>4. AsleepTyped
    BY DEF WakeInv, SleepInv, AsleepTyped
<1>5. CASE ~Coded(next)
  <2>1. Sleeps(Main, ContextCv(next)) /\ main' = main /\ next' = next
      BY <1>5 DEF Await
  <2>2. /\ AsleepTyped' /\ asleep'[Main] = ContextCv(next)
        /\ \A w \in Slices : asleep'[w] = asleep[w]
      BY <1>4, <2>1, SleepsFacts, ThreadsNumbered
  <2>3. CallerWaits'
      BY <1>1, <1>5, <2>1, <2>2 DEF CallerWaits, Coded
  <2> QED BY <1>1, <1>3, <2>2, <2>3, CallerOnly
<1>6. CASE Coded(next)
  <2>1. UNCHANGED asleep
      BY <1>6 DEF Await
  <2> QED BY <1>1, <1>3, <1>4, <2>1, CallerOnly DEF AsleepTyped
<1> QED BY <1>5, <1>6

LEMMA SetupWakes ==
    ASSUME SlicesInv, WakeInv, asleep[Main] = Awake, Setup PROVE WakeInv'
<1>1. /\ UNCHANGED <<pool, worker, asleep>> /\ main = "setup"
      /\ main' = "dispatch" /\ next' = 1
    BY DEF Setup
<1>2. \A s \in Slices : ~Located(s)
    BY <1>1 DEF SlicesInv, ActiveInv
<1>3. /\ \A w \in Slices : ~Busy(w)
      /\ pool.done = {}
  <2>1. \A w \in Slices : ~Busy(w)
      BY <1>2 DEF SlicesInv, Typed, Located, Held
  <2>2. pool.done = {}
    <3>1. \A job \in pool.done : job.slice \in Slices
        BY DEF SlicesInv, Typed
    <3> QED BY <1>2, <3>1 DEF Located, Finished
  <2> QED BY <2>1, <2>2
<1>4. JobsStay
    BY <1>1 DEF JobsStay
<1>5. SleepInv'
  <2>1. \A w \in Slices : asleep'[w] # Awake => WorkerWaits(w)'
      BY <1>1, <1>3 DEF WakeInv, SleepInv, NoLostWakeup, WorkerWaits, Busy
  <2> QED BY <1>1, <2>1 DEF WakeInv, SleepInv, AsleepTyped, NoLostWakeup
<1>6. FifoInv'
    BY <1>1, <1>4, StayingJobs, FifoKept DEF WakeInv
<1>7. FilteredInv'
    BY <1>1, <1>2, <1>3, <1>4, StayingJobs DEF FilteredInv, Busy
<1>8. RoomInv'
  <2>1. pool.uninit \in Nat /\ pool.uninit = Threads /\ ~pool.exit
        /\ \A w \in Slices : worker[w].at = "ended" => pool.exit
      BY <1>1 DEF WakeInv, RoomInv, SlicesInv, Typed
  <2> QED BY <1>1, <2>1, SlicesNumbered DEF RoomInv
<1> QED BY <1>5, <1>6, <1>7, <1>8 DEF WakeInv

LEMMA ExitWakes ==
    ASSUME SlicesInv, WakeInv, asleep[Main] = Awake, Exit PROVE WakeInv'
<1>1. /\ UNCHANGED <<worker, context>> /\ main = "exit" /\ main' = "join"
      /\ Wakes(RunFill) /\ pool' = [pool EXCEPT !.exit = TRUE]
    BY DEF Exit
<1>2. pool'.run = pool.run /\ pool'.done = pool.done /\ pool'.exit
    BY <1>1 DEF SlicesInv, Typed
<1>3. JobsStay
    BY <1>1, <1>2 DEF JobsStay
<1>4. /\ AsleepTyped'
      /\ \A t \in 0..Threads : asleep'[t] # Awake =>
            asleep'[t] = asleep[t] /\ asleep[t] # RunFill
    BY <1>1, WakesFacts DEF WakeInv, SleepInv, AsleepTyped
<1>5. SleepInv'
    BY <1>1, <1>4, ThreadsNumbered, CallerSleep
<1>6. FifoInv'
    BY <1>2, <1>3, StayingJobs, FifoKept DEF WakeInv
<1>7. FilteredInv'
    BY <1>1, <1>2, <1>3, StayingJobs, FilteredKept DEF WakeInv
<1>8. RoomInv'
    BY <1>1, <1>2 DEF RoomInv
<1> QED BY <1>5, <1>6, <1>7, <1>8 DEF WakeInv

LEMMA ReapWakes ==
    ASSUME SlicesInv, WakeInv, asleep[Main] = Awake, threadpool_wait_all
    PROVE  WakeInv'
<1>1. /\ main \in {"reap", "close"} /\ Pending # {} /\ worker' = worker
      /\ AsleepTyped
    BY DEF threadpool_wait_all, WakeInv, SleepInv, AsleepTyped
<1>2. CASE /\ \A job \in pool.done : job.slice # Min(Pending)
           /\ Sleeps(Main, DoneFill) /\ UNCHANGED <<main, context, pool>>
  <2>1. /\ AsleepTyped' /\ asleep'[Main] = DoneFill
        /\ \A w \in Slices : asleep'[w] = asleep[w]
      BY <1>1, <1>2, SleepsFacts, ThreadsNumbered
  <2>2. Pending' = Pending
      BY <1>2 DEF Pending
  <2>3. CallerWaits'
      BY <1>1, <1>2, <2>1, <2>2 DEF CallerWaits
  <2>4. RoomInv'
      BY <1>1, <1>2, <2>2 DEF WakeInv, RoomInv
  <2> QED BY <1>1, <1>2, <2>1, <2>3, <2>4, CallerOnly
<1>3. ASSUME NEW job \in pool.done, job.slice = Min(Pending), UNCHANGED asleep,
             context' = [context EXCEPT ![job.slice].active = FALSE],
             pool' = [pool EXCEPT !.done = @ \ {job}, !.uninit = @ + 1],
             main' = IF ~job.failed THEN main
                     ELSE IF main = "reap" THEN "close" ELSE "exit"
      PROVE  WakeInv'
  <2> DEFINE s == job.slice
  <2>1. /\ s \in Slices /\ pool'.run = pool.run /\ pool'.done \subseteq pool.done
        /\ \A t \in Slices : /\ context'[t].active <=> context[t].active /\ t # s
                             /\ context'[t].pass = context[t].pass
        /\ \A t : Held(t)' <=> Held(t)
        /\ \A t : Finished(t)' => Finished(t)
        /\ \A t \in Slices : Located(t)' <=> Located(t) /\ t # s
      BY <1>1, <1>3, ReapMoves
  <2>2. pool'.uninit = pool.uninit + 1 /\ pool'.exit = pool.exit
      BY <1>3 DEF SlicesInv, Typed
  <2>3. SleepInv'
    <3>1. \A w \in Slices : asleep'[w] # Awake =>
             /\ asleep'[w] = asleep[w]
             /\ asleep[w] = RunFill => pool'.run = <<>> /\ ~pool'.exit
      <4> SUFFICES ASSUME NEW w \in Slices, asleep[w] # Awake
                   PROVE  asleep[w] = RunFill => pool'.run = <<>> /\ ~pool'.exit
          BY <1>3
      <4>1. WorkerWaits(w)
          BY DEF WakeInv, SleepInv, NoLostWakeup
      <4> QED BY <2>1, <2>2, <4>1, CvsDiffer DEF WorkerWaits
    <3> QED BY <1>1, <1>3, <2>1, <3>1, CallerSleep DEF AsleepTyped
  <2>4. FifoInv'
      BY <2>1, FifoKept DEF WakeInv
  <2>5. FilteredInv'
    <3>1. context[s].pass = 2
        BY DEF WakeInv, FilteredInv
    <3> QED BY <1>1, <2>1, <3>1, FilteredKept DEF WakeInv
  <2>6. RoomInv'
    <3>1. s \in Pending
      <4>1. context[s].active
          BY <2>1 DEF SlicesInv, ActiveInv, Located, Finished
      <4> QED BY <2>1, <4>1 DEF Pending
    <3>2. Pending' = Pending \ {s}
        BY <2>1 DEF Pending
    <3>3. IsFiniteSet(Pending)
      <4>1. IsFiniteSet(Slices)
          BY FS_Interval, SlicesNumbered DEF Slices
      <4> QED BY <4>1, FS_Subset DEF Pending
    <3>4. /\ Cardinality(Pending') = Cardinality(Pending) - 1
          /\ Cardinality(Pending) \in Nat
        BY <3>1, <3>2, <3>3, FS_RemoveElement, FS_CardinalityType
    <3>5. /\ pool.uninit \in Nat
          /\ pool.uninit + Cardinality(Pending) = Threads
        BY <1>1 DEF SlicesInv, Typed, WakeInv, RoomInv
    <3>6. pool'.uninit + Cardinality(Pending') = Threads
        BY <2>2, <3>4, <3>5
    <3> QED BY <1>1, <1>3, <2>2, <3>6 DEF WakeInv, RoomInv
  <2> QED BY <2>3, <2>4, <2>5, <2>6 DEF WakeInv
<1> QED
  <2>1. CASE \E job \in pool.done :
               /\ job.slice = Min(Pending)
               /\ context' = [context EXCEPT ![Min(Pending)].active = FALSE]
               /\ pool' = [pool EXCEPT !.done = @ \ {job}, !.uninit = @ + 1]
               /\ main' = IF ~job.failed THEN main
                          ELSE IF main = "reap" THEN "close" ELSE "exit"
               /\ UNCHANGED asleep
    <3>1. PICK job \in pool.done :
               /\ job.slice = Min(Pending)
               /\ context' = [context EXCEPT ![job.slice].active = FALSE]
               /\ pool' = [pool EXCEPT !.done = @ \ {job}, !.uninit = @ + 1]
               /\ main' = IF ~job.failed THEN main
                          ELSE IF main = "reap" THEN "close" ELSE "exit"
               /\ UNCHANGED asleep
        BY <2>1
    <3> QED BY <1>3, <3>1
  <2> QED BY <1>2, <2>1 DEF threadpool_wait_all

\* The next slice is below every slice that has a job.
LEMMA DispatchWakes ==
    ASSUME SlicesInv, WakeInv, asleep[Main] = Awake, Dispatch PROVE WakeInv'
<1> USE SlicesNumbered
<1>1. /\ context' = context /\ worker' = worker /\ main = "dispatch"
      /\ Wakes(RunFill) /\ next \in Slices
      /\ pool' = [pool EXCEPT !.uninit = @ - 1, !.run = Append(@, next)]
    BY DEF Dispatch, SlicesInv, Typed
<1>2. \/ main' = "dispatch" /\ next < Threads /\ next' = next + 1
      \/ main' = "await" /\ ~(next < Threads) /\ next' = 1
    BY DEF Dispatch
<1>3. /\ pool'.done = pool.done /\ pool'.exit = pool.exit
      /\ pool'.uninit = pool.uninit - 1
    BY <1>1 DEF SlicesInv, Typed
<1>4. /\ \A t \in Slices : context[t].active
      /\ \A t \in Slices : t < next <=> Located(t)
    BY <1>1 DEF SlicesInv, ActiveInv
<1>5. /\ \A t : Queued(t)' <=> Queued(t) \/ t = next
      /\ \A t : Held(t)' <=> Held(t)
      /\ \A t : Finished(t)' <=> Finished(t)
      /\ \A t \in Slices : Located(t)' <=> Located(t) \/ t = next
    BY DispatchMoves
<1>6. SleepInv'
  <2>1. /\ AsleepTyped'
        /\ \A t \in 0..Threads :
              asleep'[t] # Awake => asleep'[t] = asleep[t] /\ asleep[t] # RunFill
      BY <1>1, WakesFacts DEF WakeInv, SleepInv, AsleepTyped
  <2> QED BY <1>1, <2>1, ThreadsNumbered, CallerSleep
<1>7. FifoInv'
  <2> DEFINE n == Len(pool.run)
  <2>1. /\ DOMAIN pool.run = 1..n /\ DOMAIN pool'.run = 1..(n + 1) /\ n \in Nat
        /\ \A i \in 1..n : pool'.run[i] = pool.run[i]
        /\ pool'.run[n + 1] = next
      BY DispatchMoves
  <2>2. \A i \in 1..n : pool.run[i] \in Slices /\ pool.run[i] < next
    <3>1. \A i \in 1..n : pool.run[i] \in Slices
      <4>1. pool.run \in Seq(Slices)
          BY DEF SlicesInv, Typed
      <4>2. \A i \in DOMAIN pool.run : pool.run[i] \in Slices
          BY <4>1
      <4> QED BY <2>1, <4>2
    <3>2. \A i \in 1..n : Located(pool.run[i])
        BY <2>1 DEF Located, Queued
    <3> QED BY <1>4, <3>1, <3>2
  <2>3. \A i, j \in 1..n : i < j => pool.run[i] < pool.run[j]
      BY <2>1 DEF WakeInv, FifoInv
  <2> HIDE DEF n
  <2>4. \A i, j \in DOMAIN pool'.run : i < j => pool'.run[i] < pool'.run[j]
    <3> SUFFICES ASSUME NEW i \in 1..(n + 1), NEW j \in 1..(n + 1), i < j
                 PROVE  pool'.run[i] < pool'.run[j]
        BY <2>1
    <3>1. i \in 1..n /\ (j \in 1..n \/ j = n + 1)
        BY <2>1
    <3> QED BY <2>1, <2>2, <2>3, <3>1
  <2>5. \A s, t \in Slices : Queued(s)' /\ (Held(t)' \/ Finished(t)') => t < s
      BY <1>4, <1>5 DEF WakeInv, FifoInv, Located
  <2> QED BY <2>4, <2>5 DEF FifoInv
<1>8. FilteredInv'
  <2>1. \A s, t \in Slices : Located(t)' /\ s < t => Located(s)'
      BY <1>1, <1>4, <1>5
  <2> QED BY <1>1, <1>3, <2>1 DEF WakeInv, FilteredInv
<1>9. RoomInv'
  <2>1. /\ pool.uninit \in Nat /\ pool.uninit + next = Threads + 1 /\ ~pool.exit
        /\ \A w \in Slices : worker[w].at # "ended"
      BY <1>1 DEF SlicesInv, Typed, WakeInv, RoomInv
  <2>2. CASE main' = "dispatch"
    <3>1. pool'.uninit + next' = Threads + 1
        BY <1>1, <1>2, <1>3, <2>1, <2>2
    <3> QED BY <1>1, <1>3, <2>1, <2>2, <3>1 DEF RoomInv
  <2>3. CASE main' = "await"
    <3>1. pool'.uninit = 0
      <4>1. next = Threads
          BY <1>1, <1>2, <2>3 DEF Slices
      <4> QED BY <1>3, <2>1, <4>1
    <3>2. Pending' = Slices
        BY <1>1, <1>4 DEF Pending
    <3>3. Cardinality(Slices) = Threads
        BY FS_Interval DEF Slices
    <3> QED BY <1>1, <1>3, <2>1, <2>3, <3>1, <3>2, <3>3 DEF RoomInv
  <2> QED BY <1>2, <2>2, <2>3
<1> QED BY <1>6, <1>7, <1>8, <1>9 DEF WakeInv

\* A step of a thread of the pool: no slice becomes active or inactive.
LEMMA RoomKept ==
    ASSUME WakeInv, CallerStays, pool'.uninit = pool.uninit,
           pool'.exit = pool.exit,
           \A s \in Slices : context'[s].active = context[s].active,
           \A w \in Slices :
              worker'[w].at = "ended" => worker[w].at = "ended" \/ pool.exit
    PROVE  RoomInv'
<1>1. Pending' = Pending
    BY DEF Pending
<1> QED BY <1>1 DEF WakeInv, RoomInv, CallerStays

\* The thread that takes a step is awake, and the others sleep on.
LEMMA OthersSleep ==
    ASSUME SlicesInv, WakeInv, CallerStays, AsleepTyped', NEW w \in Slices,
           \A v \in Slices \ {w} : worker'[v] = worker[v],
           asleep'[w] # Awake => WorkerWaits(w)',
           asleep'[Main] # Awake => asleep'[Main] = asleep[Main] /\ CallerWaits',
           \A v \in Slices \ {w} : asleep'[v] # Awake =>
              /\ asleep'[v] = asleep[v]
              /\ asleep[v] = RunFill => pool'.run = <<>> /\ ~pool'.exit
              /\ \A s \in Slices :
                    asleep[v] = ContextCv(s) /\ context[s].pass < 2
                        => context'[s].pass < 2
    PROVE  SleepInv'
<1> SUFFICES ASSUME NEW v \in Slices \ {w}, asleep'[v] # Awake
             PROVE  WorkerWaits(v)'
    BY DEF SleepInv, NoLostWakeup, AsleepTyped
<1>1. asleep'[v] = asleep[v] /\ WorkerWaits(v)
    BY DEF WakeInv, SleepInv, NoLostWakeup
<1>2. CASE worker[v].at = "fetch" /\ asleep[v] = RunFill
    BY <1>1, <1>2 DEF WorkerWaits
<1>3. CASE /\ worker[v].at = "first"
           /\ asleep[v] = ContextCv(worker[v].slice - 1)
           /\ context[worker[v].slice - 1].pass < 2
  <2>1. worker[v].slice \in Slices /\ worker[v].slice > 1
      BY <1>3 DEF SlicesInv, Typed, Busy, WakeInv, FilteredInv
  <2>2. worker[v].slice - 1 \in Slices
      BY <2>1, SlicesNumbered DEF Slices
  <2>3. context'[worker[v].slice - 1].pass < 2
      BY <1>3, <2>2
  <2> QED BY <1>1, <1>3, <2>3 DEF WorkerWaits
<1> QED BY <1>1, <1>2, <1>3 DEF WorkerWaits

\* A thread that rests, or ends, has no job.
LEMMA RestWakes ==
    ASSUME SlicesInv, WakeInv, CallerStays, UNCHANGED <<context, pool>>,
           NEW w \in Slices,
           \/ worker' = worker
           \/ /\ worker[w].at = "fetch" /\ pool.exit
              /\ worker' = [worker EXCEPT ![w].at = "ended"],
           AsleepTyped', asleep'[w] # Awake => WorkerWaits(w)',
           \A t \in (0..Threads) \ {w} : asleep'[t] = asleep[t]
    PROVE  WakeInv'
<1>1. \A v \in Slices : /\ worker'[v].slice = worker[v].slice
                        /\ v # w => worker'[v] = worker[v]
                        /\ \/ worker'[v].at = worker[v].at
                           \/ /\ worker[v].at = "fetch" /\ worker'[v].at = "ended"
                              /\ pool.exit
  <2>1. WorkersTyped
      BY DEF SlicesInv, Typed, WorkersTyped
  <2>2. CASE worker' = worker
      BY <2>2
  <2>3. CASE /\ worker[w].at = "fetch" /\ pool.exit
             /\ worker' = [worker EXCEPT ![w].at = "ended"]
      BY <2>1, <2>3 DEF WorkersTyped
  <2> QED BY <2>2, <2>3
<1>2. /\ \A t : Held(t)' <=> Held(t)
      /\ \A t : Finished(t)' <=> Finished(t)
      /\ \A t \in Slices : Located(t)' <=> Located(t)
  <2>1. \A v \in Slices : /\ Busy(v)' <=> Busy(v)
                          /\ worker'[v].slice = worker[v].slice
      BY <1>1 DEF Busy
  <2> QED BY <2>1, SameHands
<1>3. SleepInv'
  <2>1. asleep'[Main] # Awake => asleep'[Main] = asleep[Main] /\ CallerWaits'
    <3>1. asleep'[Main] = asleep[Main]
        BY ThreadsNumbered
    <3> QED BY <3>1 DEF WakeInv, SleepInv, NoLostWakeup, CallerWaits,
                        CallerStays, Pending, Coded
  <2>2. \A v \in Slices \ {w} : asleep'[v] # Awake => WorkerWaits(v)'
    <3> SUFFICES ASSUME NEW v \in Slices \ {w}, asleep'[v] # Awake
                 PROVE  WorkerWaits(v)'
        OBVIOUS
    <3>1. asleep'[v] = asleep[v] /\ worker'[v] = worker[v]
        BY <1>1, ThreadsNumbered
    <3> QED BY <3>1 DEF WakeInv, SleepInv, NoLostWakeup, WorkerWaits
  <2> QED BY <2>1, <2>2 DEF SleepInv, NoLostWakeup, AsleepTyped
<1>4. FifoInv'
    BY <1>2, FifoKept DEF WakeInv
<1>5. FilteredInv'
    BY <1>1, <1>2 DEF WakeInv, FilteredInv
<1>6. RoomInv'
    BY <1>1, RoomKept
<1> QED BY <1>3, <1>4, <1>5, <1>6 DEF WakeInv

\* A thread works on its slice: what it broadcasts is behind it.
LEMMA WorkWakes ==
    ASSUME SlicesInv, WakeInv, CallerStays, pool' = pool,
           NEW w \in Slices, Busy(w), NEW s, s = worker[w].slice,
           asleep[w] = Awake,
           \A v \in Slices \ {w} : worker'[v] = worker[v],
           \A t \in Slices \ {s} : context'[t] = context[t],
           worker'[w].slice = s, worker'[w].at \in {"filter", "first", "push"},
           context'[s].active = context[s].active,
           context[s].pass > 0 => context'[s].pass > 0,
           worker'[w].at \in {"first", "push"} => context'[s].pass = 2,
           worker'[w].at = "first" => s > 1,
           \/ UNCHANGED asleep /\ context'[s].pass = context[s].pass
           \/ Wakes(ContextCv(s))
    PROVE  WakeInv'
<1>1. /\ s \in Slices /\ Busy(w)' /\ Held(s) /\ ~Queued(s) /\ ~Finished(s)
      /\ AsleepTyped
  <2>1. s \in Slices /\ Busy(w)' /\ Held(s)
      BY DEF SlicesInv, Typed, Busy, Held
  <2> QED BY <2>1 DEF SlicesInv, OneJob, WakeInv, SleepInv, AsleepTyped
<1>2. /\ \A t : Held(t)' <=> Held(t)
      /\ \A t : Finished(t)' <=> Finished(t)
      /\ \A t \in Slices : Located(t)' <=> Located(t)
  <2>1. \A v \in Slices : /\ Busy(v)' <=> Busy(v)
                          /\ worker'[v].slice = worker[v].slice
      BY <1>1 DEF Busy
  <2> QED BY <2>1, SameHands
<1>3. /\ AsleepTyped'
      /\ \A t \in 0..Threads : asleep'[t] # Awake =>
            /\ asleep'[t] = asleep[t]
            /\ asleep[t] = ContextCv(s) => context'[s].pass = context[s].pass
  <2>1. CASE UNCHANGED asleep /\ context'[s].pass = context[s].pass
      BY <1>1, <2>1 DEF AsleepTyped
  <2>2. CASE Wakes(ContextCv(s))
      BY <1>1, <2>2, WakesFacts
  <2> QED BY <2>1, <2>2
<1>4. \A t \in 0..Threads, u \in Slices :
         asleep'[t] # Awake /\ asleep[t] = ContextCv(u) =>
            context'[u].pass = context[u].pass
    BY <1>3
<1>5. SleepInv'
  <2>1. asleep'[w] = Awake
      BY <1>3, ThreadsNumbered
  <2>2. ASSUME asleep'[Main] # Awake PROVE CallerWaits'
    <3>1. asleep'[Main] = asleep[Main] /\ CallerWaits
        BY <1>3, <2>2, ThreadsNumbered DEF WakeInv, SleepInv, NoLostWakeup
    <3>2. Pending' = Pending
        BY DEF Pending
    <3>3. next \in Slices
        BY DEF SlicesInv, Typed
    <3>4. asleep[Main] = ContextCv(next) => (Coded(next)' <=> Coded(next))
        BY <1>4, <2>2, <3>3, ThreadsNumbered DEF Coded, CallerStays
    <3> QED BY <3>1, <3>2, <3>4 DEF CallerWaits, CallerStays, Coded
  <2>3. \A v \in Slices \ {w} : asleep'[v] # Awake =>
              /\ asleep'[v] = asleep[v]
              /\ asleep[v] = RunFill => pool'.run = <<>> /\ ~pool'.exit
              /\ \A t \in Slices :
                    asleep[v] = ContextCv(t) /\ context[t].pass < 2
                        => context'[t].pass < 2
    <3> SUFFICES ASSUME NEW v \in Slices \ {w}, asleep'[v] # Awake
                 PROVE  /\ asleep'[v] = asleep[v]
                        /\ asleep[v] = RunFill => pool.run = <<>> /\ ~pool.exit
                        /\ \A t \in Slices :
                              asleep[v] = ContextCv(t) /\ context[t].pass < 2
                                  => context'[t].pass < 2
        OBVIOUS
    <3>1. asleep'[v] = asleep[v] /\ WorkerWaits(v)
        BY <1>3, ThreadsNumbered DEF WakeInv, SleepInv, NoLostWakeup
    <3>2. asleep[v] = RunFill => pool.run = <<>> /\ ~pool.exit
        BY <3>1, CvsDiffer DEF WorkerWaits
    <3> QED BY <1>4, <3>1, <3>2, ThreadsNumbered
  <2>4. asleep'[Main] # Awake => asleep'[Main] = asleep[Main]
      BY <1>3, ThreadsNumbered
  <2> QED BY <1>3, <2>1, <2>2, <2>3, <2>4, OthersSleep
<1>6. FifoInv'
    BY <1>2, FifoKept DEF WakeInv
<1>7. FilteredInv'
  <2>1. \A v \in Slices \ {w} : Busy(v) =>
           worker[v].slice \in Slices \ {s}
      BY DEF SlicesInv, Typed, OneJob
  <2>2. \A v \in Slices : worker'[v].at = "first" => worker'[v].slice > 1
      BY DEF WakeInv, FilteredInv
  <2>3. \A v \in Slices : worker'[v].at \in {"first", "push"} =>
           context'[worker'[v].slice].pass = 2
    <3> SUFFICES ASSUME NEW v \in Slices, worker'[v].at \in {"first", "push"}
                 PROVE  context'[worker'[v].slice].pass = 2
        OBVIOUS
    <3>1. CASE v = w
        BY <3>1
    <3>2. CASE v # w
      <4>1. worker'[v] = worker[v]
          BY <3>2
      <4>2. context'[worker[v].slice] = context[worker[v].slice]
          BY <2>1, <3>2, <4>1 DEF Busy
      <4> QED BY <4>1, <4>2 DEF WakeInv, FilteredInv
    <3> QED BY <3>1, <3>2
  <2>4. \A job \in pool.done : job.slice \in Slices \ {s}
      BY <1>1 DEF SlicesInv, Typed, Finished
  <2>5. \A job \in pool'.done : context'[job.slice].pass = 2
      BY <2>4 DEF WakeInv, FilteredInv
  <2>6. \A t, u \in Slices :
           Located(u)' /\ t < u /\ ~Located(t)' => context'[t].pass = 2
      BY <1>1, <1>2 DEF WakeInv, FilteredInv, Located
  <2> QED BY <2>2, <2>3, <2>5, <2>6 DEF FilteredInv
<1>8. RoomInv'
  <2>1. \A t \in Slices : context'[t].active = context[t].active
      OBVIOUS
  <2>2. \A v \in Slices : worker'[v].at = "ended" => worker[v].at = "ended"
      OBVIOUS
  <2> QED BY <2>1, <2>2, RoomKept
<1> QED BY <1>5, <1>6, <1>7, <1>8 DEF WakeInv

LEMMA CodeWakes ==
    ASSUME SlicesInv, WakeInv, CallerStays, NEW w \in Slices, asleep[w] = Awake,
           Code(w)
    PROVE  WakeInv'
<1>1. PICK s \in Slices : s = worker[w].slice
    BY DEF SlicesInv, Typed, Busy, Code
<1>2. PICK failed \in BOOLEAN :
         /\ worker' = [worker EXCEPT ![w].at = IF failed THEN "push" ELSE "filter",
                                     ![w].failed = failed]
         /\ context' = [context EXCEPT ![s] =
               [[context[s] EXCEPT !.out = IF failed THEN @ ELSE context[s].fdec]
                   EXCEPT !.pass = PassAfter(failed)]]
         /\ Wakes(ContextCv(s))
    BY <1>1 DEF Code, Broadcast
<1>3. pool' = pool /\ Busy(w)
    BY DEF Code, Busy
<1>4. WorkersTyped /\ ContextsTyped
    BY DEF SlicesInv, Typed, WorkersTyped, ContextsTyped
<1>5. /\ \A v \in Slices \ {w} : worker'[v] = worker[v]
      /\ worker'[w].at = IF failed THEN "push" ELSE "filter"
      /\ worker'[w].slice = s
  <2>1. worker'[w] = [worker[w] EXCEPT !.at = IF failed THEN "push" ELSE "filter",
                                       !.failed = failed]
      BY <1>2, <1>4 DEF WorkersTyped
  <2> QED BY <1>1, <1>2, <1>4, <2>1 DEF WorkersTyped
<1>6. /\ \A t \in Slices \ {s} : context'[t] = context[t]
      /\ context'[s].pass = PassAfter(failed)
      /\ context'[s].active = context[s].active
  <2>1. context'[s] =
            [[context[s] EXCEPT !.out = IF failed THEN @ ELSE context[s].fdec]
                EXCEPT !.pass = PassAfter(failed)]
      BY <1>2, <1>4 DEF ContextsTyped
  <2> QED BY <1>2, <1>4, <2>1 DEF ContextsTyped
<1>7. PassAfter(failed) > 0 /\ (failed => PassAfter(failed) = 2)
    BY DEF PassAfter
<1>8. /\ worker'[w].at \in {"filter", "push"} /\ context'[s].pass > 0
      /\ worker'[w].at = "push" => context'[s].pass = 2
    BY <1>5, <1>6, <1>7
<1>9. /\ worker'[w].at \in {"filter", "first", "push"}
      /\ worker'[w].at # "first"
      /\ worker'[w].at \in {"first", "push"} => context'[s].pass = 2
    BY <1>8
<1> QED BY <1>1, <1>2, <1>3, <1>5, <1>6, <1>8, <1>9, WorkWakes

LEMMA FilterWakes ==
    ASSUME SlicesInv, WakeInv, CallerStays, NEW w \in Slices, asleep[w] = Awake,
           Filter(w)
    PROVE  WakeInv'
<1>1. PICK s \in Slices : s = worker[w].slice
    BY DEF SlicesInv, Typed, Busy, Filter
<1>2. /\ worker' = [worker EXCEPT ![w].at = IF s > 1 THEN "first" ELSE "push"]
      /\ context' = [context EXCEPT ![s] =
            [[context[s] EXCEPT !.final = IF s > 1 THEN @ ELSE context[s].fdec]
                EXCEPT !.pass = 2]]
      /\ Wakes(ContextCv(s)) /\ pool' = pool /\ Busy(w)
    BY <1>1 DEF Filter, Broadcast, Busy
<1>3. WorkersTyped /\ ContextsTyped
    BY DEF SlicesInv, Typed, WorkersTyped, ContextsTyped
<1>4. /\ \A v \in Slices \ {w} : worker'[v] = worker[v]
      /\ worker'[w].at = IF s > 1 THEN "first" ELSE "push"
      /\ worker'[w].slice = s
    BY <1>1, <1>2, <1>3 DEF WorkersTyped
<1>5. /\ \A t \in Slices \ {s} : context'[t] = context[t]
      /\ context'[s].pass = 2 /\ context'[s].active = context[s].active
  <2>1. context'[s] =
            [[context[s] EXCEPT !.final = IF s > 1 THEN @ ELSE context[s].fdec]
                EXCEPT !.pass = 2]
      BY <1>2, <1>3 DEF ContextsTyped
  <2> QED BY <1>2, <1>3, <2>1 DEF ContextsTyped
<1> QED BY <1>1, <1>2, <1>4, <1>5, WorkWakes

LEMMA FilterFirstWakes ==
    ASSUME SlicesInv, WakeInv, CallerStays, NEW w \in Slices, asleep[w] = Awake,
           FilterFirst(w)
    PROVE  WakeInv'
<1>1. PICK s \in Slices : s = worker[w].slice
    BY DEF SlicesInv, Typed, Busy, FilterFirst
<1>2. /\ pool' = pool /\ Busy(w) /\ worker[w].at = "first"
      /\ WorkersTyped /\ ContextsTyped /\ AsleepTyped
    BY DEF FilterFirst, Busy, SlicesInv, Typed, WorkersTyped, ContextsTyped,
           WakeInv, SleepInv, AsleepTyped
<1>3. CASE context[s - 1].pass >= 2
  <2>1. /\ worker' = [worker EXCEPT ![w].at = "push"]
        /\ context' = [context EXCEPT ![s].final = context[s].fdec]
        /\ UNCHANGED asleep
      BY <1>1, <1>3 DEF FilterFirst
  <2>2. /\ \A v \in Slices \ {w} : worker'[v] = worker[v]
        /\ worker'[w].at = "push" /\ worker'[w].slice = s
      BY <1>1, <1>2, <2>1 DEF WorkersTyped
  <2>3. /\ \A t \in Slices \ {s} : context'[t] = context[t]
        /\ context'[s].active = context[s].active
        /\ context'[s].pass = context[s].pass
      BY <1>2, <2>1 DEF ContextsTyped
  <2>4. context[s].pass = 2
      BY <1>1, <1>2 DEF WakeInv, FilteredInv
  <2> QED BY <1>1, <1>2, <2>1, <2>2, <2>3, <2>4, WorkWakes
<1>4. CASE ~(context[s - 1].pass >= 2)
  <2>1. Sleeps(w, ContextCv(s - 1)) /\ UNCHANGED <<worker, context>>
      BY <1>1, <1>4 DEF FilterFirst
  <2>2. /\ AsleepTyped' /\ asleep'[w] = ContextCv(s - 1)
        /\ \A t \in (0..Threads) \ {w} : asleep'[t] = asleep[t]
      BY <1>2, <2>1, SleepsFacts, ThreadsNumbered
  <2>3. WorkerWaits(w)'
    <3>1. s > 1
        BY <1>1, <1>2 DEF WakeInv, FilteredInv
    <3>2. s - 1 \in Slices
        BY <3>1, SlicesNumbered DEF Slices
    <3>3. context[s - 1].pass < 2
        BY <1>2, <1>4, <3>2 DEF ContextsTyped
    <3> QED BY <1>1, <1>2, <2>1, <2>2, <3>3 DEF WorkerWaits
  <2> QED BY <1>2, <2>1, <2>2, <2>3, RestWakes
<1> QED BY <1>3, <1>4

\* The thread takes the job of the first slice in the list run.
LEMMA TakeWakes ==
    ASSUME SlicesInv, WakeInv, CallerStays, UNCHANGED <<context, asleep>>,
           NEW w \in Slices, asleep[w] = Awake,
           worker[w].at = "fetch", pool.run # <<>>,
           worker' = [worker EXCEPT ![w] =
                 [at |-> "code", slice |-> Head(pool.run), failed |-> FALSE]],
           pool' = [pool EXCEPT !.run = Tail(@)]
    PROVE  WakeInv'
<1>1. PICK s : s = Head(pool.run)
    OBVIOUS
<1>2. /\ pool.run \in Seq(Slices) /\ pool'.run = Tail(pool.run)
      /\ pool'.done = pool.done /\ pool'.exit = pool.exit
      /\ pool'.uninit = pool.uninit
      /\ AsleepTyped
    BY DEF SlicesInv, Typed, WakeInv, SleepInv, AsleepTyped
<1>3. /\ \A v \in Slices \ {w} : worker'[v] = worker[v]
      /\ worker'[w].at = "code" /\ worker'[w].slice = s
      /\ \A t : Queued(t) <=> Queued(t)' \/ t = s
      /\ ~Queued(s)'
      /\ \A t : Held(t)' <=> Held(t) \/ t = s
      /\ \A t : Finished(t)' <=> Finished(t)
      /\ \A t \in Slices : Located(t)' <=> Located(t)
    BY ZenonT(30), <1>1, FetchMoves
<1>4. SleepInv'
  <2>1. \A v \in Slices \ {w} : asleep'[v] # Awake => WorkerWaits(v)'
    <3> SUFFICES ASSUME NEW v \in Slices \ {w}, asleep[v] # Awake
                 PROVE  WorkerWaits(v)'
        OBVIOUS
    <3>1. WorkerWaits(v)
        BY DEF WakeInv, SleepInv, NoLostWakeup
    <3> QED BY <1>3, <3>1 DEF WorkerWaits
  <2>2. asleep'[Main] # Awake => CallerWaits'
      BY <1>2 DEF WakeInv, SleepInv, NoLostWakeup, CallerWaits, CallerStays,
                  Pending, Coded
  <2> QED BY <1>2, <2>1, <2>2 DEF SleepInv, NoLostWakeup, AsleepTyped
<1>5. FifoInv'
  <2> DEFINE n == Len(pool.run)
  <2>1. /\ n \in Nat /\ n >= 1 /\ s \in Slices /\ s = pool.run[1]
        /\ DOMAIN pool.run = 1..n /\ DOMAIN pool'.run = 1..(n - 1)
        /\ \A i \in 1..(n - 1) : pool'.run[i] = pool.run[i + 1]
      BY <1>1, <1>2, TailFacts
  <2>2. \A i, j \in 1..n : i < j => pool.run[i] < pool.run[j]
      BY <2>1 DEF WakeInv, FifoInv
  <2> HIDE DEF n
  <2>3. \A i \in 1..(n - 1) : i \in 1..n /\ i + 1 \in 1..n /\ 1 < i + 1
      BY <2>1
  <2>4. 1 \in 1..n
      BY <2>1
  <2>5. \A i, j \in DOMAIN pool'.run : i < j => pool'.run[i] < pool'.run[j]
    <3> SUFFICES ASSUME NEW i \in 1..(n - 1), NEW j \in 1..(n - 1), i < j
                 PROVE  pool'.run[i] < pool'.run[j]
        BY <2>1
    <3>1. i + 1 \in 1..n /\ j + 1 \in 1..n /\ i + 1 < j + 1
        BY <2>3
    <3> QED BY <2>1, <2>2, <3>1
  <2>6. \A t \in Slices : Queued(t)' => s < t
    <3> SUFFICES ASSUME NEW t \in Slices, Queued(t)' PROVE s < t
        OBVIOUS
    <3>1. PICK i \in 1..(n - 1) : pool'.run[i] = t
        BY <2>1 DEF Queued
    <3> QED BY <2>1, <2>2, <2>3, <2>4, <3>1
  <2>7. \A t, u \in Slices : Queued(t)' /\ (Held(u)' \/ Finished(u)') => u < t
      BY <1>3, <2>6 DEF WakeInv, FifoInv
  <2> QED BY <2>5, <2>7 DEF FifoInv
<1>6. FilteredInv'
  <2>1. \A v \in Slices : worker'[v].at \in {"first", "push"} =>
           v # w /\ worker'[v] = worker[v]
      BY <1>3
  <2> QED BY <1>2, <1>3, <2>1 DEF WakeInv, FilteredInv
<1>7. RoomInv'
  <2>1. \A v \in Slices : worker'[v].at = "ended" => worker[v].at = "ended"
      BY <1>3
  <2> QED BY <1>2, <2>1, RoomKept
<1> QED BY <1>4, <1>5, <1>6, <1>7 DEF WakeInv

LEMMA FetchWakes ==
    ASSUME SlicesInv, WakeInv, CallerStays, NEW w \in Slices, asleep[w] = Awake,
           Fetch(w)
    PROVE  WakeInv'
<1>1. worker[w].at = "fetch" /\ context' = context /\ AsleepTyped
    BY DEF Fetch, WakeInv, SleepInv, AsleepTyped
<1>2. CASE /\ pool.exit /\ worker' = [worker EXCEPT ![w].at = "ended"]
           /\ UNCHANGED <<pool, asleep>>
    BY <1>1, <1>2, RestWakes DEF AsleepTyped
<1>3. CASE /\ pool.run # <<>>
           /\ worker' = [worker EXCEPT ![w] =
                 [at |-> "code", slice |-> Head(pool.run), failed |-> FALSE]]
           /\ pool' = [pool EXCEPT !.run = Tail(@)]
           /\ UNCHANGED asleep
    BY <1>1, <1>3, TakeWakes
<1>4. CASE /\ pool.run = <<>> /\ ~pool.exit
           /\ Sleeps(w, RunFill)
           /\ UNCHANGED <<pool, worker>>
  <2>1. /\ AsleepTyped' /\ asleep'[w] = RunFill
        /\ \A t \in (0..Threads) \ {w} : asleep'[t] = asleep[t]
      BY <1>1, <1>4, SleepsFacts, ThreadsNumbered
  <2>2. WorkerWaits(w)'
      BY <1>1, <1>4, <2>1 DEF WorkerWaits
  <2> QED BY <1>1, <1>4, <2>1, <2>2, RestWakes
<1> QED BY <1>2, <1>3, <1>4 DEF Fetch

LEMMA PushWakes ==
    ASSUME SlicesInv, WakeInv, CallerStays, NEW w \in Slices, asleep[w] = Awake,
           Push(w)
    PROVE  WakeInv'
<1>1. PICK s \in Slices : s = worker[w].slice
    BY DEF SlicesInv, Typed, Busy, Push
<1>2. PICK failed \in BOOLEAN : failed = worker[w].failed
    BY DEF SlicesInv, Typed
<1>3. /\ context' = context /\ Wakes(DoneFill) /\ worker[w].at = "push"
      /\ AsleepTyped
    BY DEF Push, WakeInv, SleepInv, AsleepTyped
<1>4. pool'.exit = pool.exit /\ pool'.uninit = pool.uninit
    BY DEF Push, SlicesInv, Typed
<1>5. /\ \A v \in Slices \ {w} : worker'[v] = worker[v]
      /\ worker'[w].at = "fetch"
      /\ pool'.run = pool.run
      /\ pool'.done = pool.done \cup {[slice |-> s, failed |-> failed]}
      /\ Held(s)
      /\ \A t : Held(t)' <=> Held(t) /\ t # s
      /\ \A t : Finished(t)' <=> Finished(t) \/ t = s
      /\ \A t \in Slices : Located(t)' <=> Located(t)
  <2>1. /\ \A v \in Slices \ {w} : worker'[v] = worker[v]
        /\ worker'[w].at = "fetch"
      BY <1>1, <1>2, PushMoves
  <2>2. /\ pool'.run = pool.run
        /\ pool'.done = pool.done \cup {[slice |-> s, failed |-> failed]}
      BY <1>1, <1>2, PushMoves
  <2>3. /\ Held(s)
        /\ \A t : Held(t)' <=> Held(t) /\ t # s
      BY <1>1, <1>2, PushMoves
  <2>4. /\ \A t : Finished(t)' <=> Finished(t) \/ t = s
        /\ \A t \in Slices : Located(t)' <=> Located(t)
      BY <1>1, <1>2, PushMoves
  <2> QED BY <2>1, <2>2, <2>3, <2>4
<1>6. /\ AsleepTyped'
      /\ \A t \in 0..Threads :
            asleep'[t] # Awake => asleep'[t] = asleep[t] /\ asleep[t] # DoneFill
    BY <1>3, WakesFacts
<1>7. SleepInv'
  <2>1. \A v \in Slices : asleep'[v] # Awake => WorkerWaits(v)'
    <3> SUFFICES ASSUME NEW v \in Slices, asleep'[v] # Awake PROVE WorkerWaits(v)'
        OBVIOUS
    <3>1. /\ asleep'[v] = asleep[v] /\ v # w /\ worker'[v] = worker[v]
          /\ WorkerWaits(v)
        BY <1>5, <1>6, ThreadsNumbered DEF WakeInv, SleepInv, NoLostWakeup
    <3> QED BY <1>3, <1>4, <1>5, <3>1 DEF WorkerWaits
  <2>2. ASSUME asleep'[Main] # Awake PROVE CallerWaits'
    <3>1. /\ asleep'[Main] = asleep[Main] /\ asleep[Main] # DoneFill
          /\ CallerWaits
        BY <1>6, <2>2, ThreadsNumbered DEF WakeInv, SleepInv, NoLostWakeup
    <3> QED BY <1>3, <3>1 DEF CallerWaits, CallerStays, Coded
  <2> QED BY <1>6, <2>1, <2>2 DEF SleepInv, NoLostWakeup, AsleepTyped
<1>8. FifoInv'
    BY <1>1, <1>5, FifoKept DEF WakeInv
<1>9. FilteredInv'
  <2>1. \A v \in Slices : worker'[v].at \in {"first", "push"} =>
           v # w /\ worker'[v] = worker[v]
      BY <1>5
  <2>2. context[s].pass = 2
      BY <1>1, <1>3 DEF WakeInv, FilteredInv
  <2>3. \A job \in pool'.done : context[job.slice].pass = 2
      BY <1>5, <2>2 DEF WakeInv, FilteredInv
  <2> QED BY <1>3, <1>5, <2>1, <2>3 DEF WakeInv, FilteredInv
<1>10. RoomInv'
  <2>1. \A v \in Slices : worker'[v].at = "ended" => worker[v].at = "ended"
      BY <1>5
  <2> QED BY <1>3, <1>4, <2>1, RoomKept
<1> QED BY <1>7, <1>8, <1>9, <1>10 DEF WakeInv

LEMMA WakeStep == SlicesInv /\ WakeInv /\ [Next]_vars => WakeInv'
<1> SUFFICES ASSUME SlicesInv, WakeInv, [Next]_vars PROVE WakeInv'
    OBVIOUS
<1>1. CASE EncodeFrame \/ Shutdown
  <2>1. asleep[Main] = Awake
      BY <1>1, CallerAwake DEF EncodeFrame, Shutdown
  <2> QED BY <1>1, <2>1, PlainWakes
<1>2. CASE Caller
  <2>1. asleep[Main] = Awake
      BY <1>2 DEF Caller
  <2> QED BY <1>2, <2>1, ReapWakes, PlainWakes, SetupWakes, DispatchWakes,
             AwaitWakes, ExitWakes DEF Caller
<1>3. ASSUME NEW w \in Slices, Worker(w) PROVE WakeInv'
  <2>1. CallerStays /\ asleep[w] = Awake
      BY <1>3 DEF Worker, CallerStays, streamVars
  <2> QED BY <1>3, <2>1, FetchWakes, CodeWakes, FilterWakes, FilterFirstWakes,
             PushWakes DEF Worker
<1>4. CASE UNCHANGED vars
  <2>1. UNCHANGED <<main, next, context, pool, worker, asleep>>
      BY <1>4 DEF vars, codecVars
  <2>2. AsleepTyped' /\ RoomInv' /\ (asleep'[Main] # Awake => CallerWaits')
      BY <2>1 DEF WakeInv, SleepInv, NoLostWakeup, AsleepTyped, RoomInv,
                  CallerWaits, Pending, Coded
  <2> QED BY <2>1, <2>2, CallerOnly
<1> QED BY <1>1, <1>2, <1>3, <1>4 DEF Next

LEMMA WakeAlways == Spec => [](SlicesInv /\ WakeInv)
<1>1. SlicesInv /\ WakeInv /\ [Next]_vars => (SlicesInv /\ WakeInv)'
    BY SlicesStep, WakeStep
<1> QED BY <1>1, SlicesInit, WakeInit, PTL DEF Spec

\* No broadcast of x264's threads comes too early for whoever needs it: a thread
\* that sleeps tests its condition under the mutex that the broadcast takes.
THEOREM WakeupsReachEveryone == Spec => []NoLostWakeup
<1>1. WakeInv => NoLostWakeup
    BY DEF WakeInv, SleepInv
<1> QED BY <1>1, WakeAlways, PTL

\* Of the threads that have a job, the one with the topmost slice does not wait:
\* the slice above it is filtered.
LEMMA SomeoneWorks ==
    ASSUME SlicesInv, WakeInv, NEW w \in Slices, Busy(w)
    PROVE  \E v \in Slices : WorkerRuns(v)
<1> DEFINE R == {worker[v].slice : v \in {u \in Slices : Busy(u)}}
<1>1. \A v \in Slices : Busy(v) => worker[v].slice \in Slices
    BY DEF SlicesInv, Typed
<1>2. R \subseteq Nat /\ R # {}
    BY <1>1, SlicesNumbered
<1>3. PICK r \in R : \A q \in R : r <= q
  <2> HIDE DEF R
  <2> QED BY <1>2, LeastNumber
<1>4. PICK v \in Slices : Busy(v) /\ worker[v].slice = r
    BY <1>3
<1>5. r \in Slices /\ Held(r) /\ Located(r)
    BY <1>1, <1>4 DEF Held, Located
<1>6. asleep[v] = Awake
  <2> SUFFICES ASSUME asleep[v] # Awake PROVE FALSE
      OBVIOUS
  <2>1. worker[v].at = "first" /\ context[r - 1].pass < 2
      BY <1>4 DEF WakeInv, SleepInv, NoLostWakeup, WorkerWaits, Busy
  <2>2. r > 1 /\ r - 1 \in Slices /\ r - 1 < r /\ ~(r < r - 1)
    <3>1. r > 1
        BY <1>4, <2>1 DEF WakeInv, FilteredInv
    <3> QED BY <1>5, <3>1, SlicesNumbered DEF Slices
  <2>3. context[r - 1].pass # 2
      BY <2>1
  <2>4. ~Queued(r - 1)
      BY <1>5, <2>2 DEF WakeInv, FifoInv
  <2>5. ~Finished(r - 1)
      BY <2>3 DEF WakeInv, FilteredInv, Finished
  <2>6. ~Held(r - 1)
    <3> SUFFICES ASSUME NEW u \in Slices, Busy(u), worker[u].slice = r - 1
                 PROVE  FALSE
        BY DEF Held
    <3>1. r - 1 \in R
        OBVIOUS
    <3>2. r <= r - 1
        BY <1>3, <3>1
    <3>3. r \in Nat
        BY <1>5, SlicesNumbered
    <3> QED BY <3>2, <3>3
  <2>7. Located(r - 1)
      BY <1>5, <2>2, <2>3 DEF WakeInv, FilteredInv
  <2> QED BY <2>4, <2>5, <2>6, <2>7 DEF Located
<1> QED BY <1>4, <1>6 DEF WorkerRuns, Busy

\* Some thread has a step to take while a slice waits to be coded or filtered.
LEMMA SomeoneRuns ==
    ASSUME SlicesInv, WakeInv, NEW s \in Slices, Queued(s) \/ Held(s),
           main \notin {"join", "closed"}
    PROVE  \E v \in Slices : WorkerRuns(v)
<1>1. CASE Held(s)
    BY <1>1, SomeoneWorks DEF Held
<1>2. CASE Queued(s)
  <2>1. pool.run # <<>>
      BY <1>2 DEF Queued
  <2>2. 1 \in Slices /\ worker[1].at # "ended"
      BY SlicesNumbered DEF WakeInv, RoomInv
  <2>3. CASE Busy(1)
      BY <2>2, <2>3, SomeoneWorks
  <2>4. CASE ~Busy(1)
    <3>1. worker[1].at = "fetch"
        BY <2>2, <2>4 DEF SlicesInv, Typed, Busy
    <3>2. asleep[1] = Awake
        BY <2>1, <2>2, <3>1 DEF WakeInv, SleepInv, NoLostWakeup, WorkerWaits
    <3> QED BY <2>2, <3>2 DEF WorkerRuns
  <2> QED BY <2>3, <2>4
<1> QED BY <1>1, <1>2

\* x264_encoder_encode and x264_encoder_close never hang: some thread always has
\* a step to take, for any number of threads and whichever slices fail.
THEOREM ThreadsNeverStuck == Spec => []NeverStuck
<1>1. SlicesInv /\ WakeInv => NeverStuck
  <2> SUFFICES ASSUME SlicesInv, WakeInv, main \notin {"idle", "closed"},
                      ~CallerRuns
               PROVE  \E v \in Slices : WorkerRuns(v)
      BY DEF NeverStuck
  \* It sleeps in the loop of threadpool_wait_all.
  <2>1. CASE /\ main \in {"reap", "close"} /\ Pending # {}
             /\ \A job \in pool.done : job.slice # Min(Pending)
    <3>1. PICK s \in Pending : s = Min(Pending)
      <4>1. Pending \subseteq Nat
          BY SlicesNumbered DEF Pending
      <4>2. \E n \in Pending : \A m \in Pending : n <= m
          BY <2>1, <4>1, LeastNumber
      <4> QED BY <4>2 DEF Min
    <3>2. s \in Slices /\ context[s].active
        BY DEF Pending
    <3>3. Located(s) /\ ~Finished(s)
        BY <2>1, <3>1, <3>2 DEF SlicesInv, ActiveInv, Finished
    <3> QED BY <2>1, <3>2, <3>3, SomeoneRuns DEF Located
  \* It sleeps until its next slice is coded.
  <2>2. CASE main = "await" /\ ~Coded(next)
    <3>1. next \in Slices /\ context[next].pass \in Nat
        BY DEF SlicesInv, Typed
    <3>2. Located(next)
        BY <2>2, <3>1 DEF SlicesInv, ActiveInv
    <3>3. ~Finished(next)
      <4>1. context[next].pass = 0
          BY <2>2, <3>1 DEF Coded
      <4> QED BY <4>1 DEF Finished, SlicesInv, ProgressInv, Coded1
    <3> QED BY <2>2, <3>1, <3>2, <3>3, SomeoneRuns DEF Located
  <2>3. CASE asleep[Main] = Awake
    <3>1. main # "dispatch"
      <4>1. next \in Slices /\ next <= Threads /\ pool.uninit \in Nat
            /\ Threads \in Nat
          BY SlicesNumbered DEF SlicesInv, Typed, Slices
      <4>2. main = "dispatch" => pool.uninit + next = Threads + 1
          BY DEF WakeInv, RoomInv
      <4>3. main = "dispatch" => pool.uninit > 0
          BY <4>1, <4>2, SlicesNumbered
      <4> QED BY <2>3, <4>3 DEF CallerRuns
    <3>2. main = "join" /\ \E w \in Slices : worker[w].at # "ended"
        BY <2>3, <3>1 DEF CallerRuns
    <3>3. PICK w \in Slices : worker[w].at # "ended"
        BY <3>2
    <3>4. CASE Busy(w)
        BY <3>4, SomeoneWorks
    <3>5. CASE ~Busy(w)
      <4>1. worker[w].at = "fetch" /\ pool.exit
          BY <3>2, <3>3, <3>5 DEF SlicesInv, Typed, Busy, WakeInv, RoomInv
      <4>2. asleep[w] = Awake
          BY <4>1 DEF WakeInv, SleepInv, NoLostWakeup, WorkerWaits
      <4> QED BY <3>3, <4>2 DEF WorkerRuns
    <3> QED BY <3>4, <3>5
  <2> QED BY <2>1, <2>2, <2>3
          DEF WakeInv, SleepInv, NoLostWakeup, CallerWaits
<1> QED BY <1>1, WakeAlways, PTL
===============================================================================
